-------------------------- MODULE BinaryReadProofs --------------------------
(***************************************************************************)
(* The interpreter's use of the runtime, and its link discipline, for      *)
(* every module, every buffer, every word size and every evaluator.        *)
(***************************************************************************)
EXTENDS BinaryRead, RuntimeReaderProofs

-----------------------------------------------------------------------------
\* Formats are values of no particular set, so that s is a sequence can only
\* be said of the elements it has.
IsSequence(s) == s \in Seq({s[i] : i \in 1 .. Len(s)})

\* The sequences of TLA+ are sequences in this sense.
LEMMA SeqIsSequence ==
  ASSUME NEW S, NEW s \in Seq(S)
  PROVE  IsSequence(s)
<1> DEFINE A == {s[i] : i \in 1 .. Len(s)}
<1>1. /\ Len(s) \in Nat /\ DOMAIN s = 1 .. Len(s)
      /\ \A i \in 1 .. Len(s) : s[i] \in A
  OBVIOUS
<1> HIDE DEF A
<1>2. s \in Seq(A)
  BY <1>1
<1> QED BY <1>2 DEF IsSequence, A

\* The empty queue of a new context.
LEMMA EmptySequence ==
  IsSequence(<<>>) /\ Len(<<>>) = 0 /\ DOMAIN <<>> = {}
BY DEF IsSequence

\* VecDeque::push_back.
LEMMA AppendSequence ==
  ASSUME NEW s, IsSequence(s), NEW e
  PROVE  /\ IsSequence(Append(s, e))
         /\ Len(s) \in Nat /\ Len(Append(s, e)) = Len(s) + 1
         /\ Append(s, e)[Len(s) + 1] = e
         /\ \A i \in 1 .. Len(s) : Append(s, e)[i] = s[i]
<1> DEFINE T == {s[i] : i \in 1 .. Len(s)} \cup {e}
<1>1. s \in Seq(T) /\ e \in T
  BY DEF IsSequence
<1> HIDE DEF T
<1>2. /\ Append(s, e) \in Seq(T)
      /\ Len(s) \in Nat /\ Len(Append(s, e)) = Len(s) + 1
      /\ Append(s, e)[Len(s) + 1] = e
      /\ \A i \in 1 .. Len(s) : Append(s, e)[i] = s[i]
  BY <1>1
<1> QED BY <1>2, SeqIsSequence

\* VecDeque::pop_front.
LEMMA TailSequence ==
  ASSUME NEW s, IsSequence(s), s # <<>>
  PROVE  /\ IsSequence(Tail(s))
         /\ Len(s) \in Nat \ {0} /\ Len(Tail(s)) = Len(s) - 1
         /\ Head(s) = s[1]
         /\ \A i \in 1 .. Len(Tail(s)) : Tail(s)[i] = s[i + 1]
<1> DEFINE S == {s[i] : i \in 1 .. Len(s)}
<1>1. s \in Seq(S)
  BY DEF IsSequence
<1> HIDE DEF S
<1>2. /\ Tail(s) \in Seq(S)
      /\ Len(s) \in Nat \ {0} /\ Len(Tail(s)) = Len(s) - 1
      /\ Head(s) = s[1]
      /\ \A i \in 1 .. Len(Tail(s)) : Tail(s)[i] = s[i + 1]
  BY <1>1
<1> QED BY <1>2, SeqIsSequence

\* The indices of a sequence.
LEMMA SequenceDomain ==
  ASSUME NEW s, IsSequence(s)
  PROVE  Len(s) \in Nat /\ DOMAIN s = 1 .. Len(s) /\ (Len(s) = 0 <=> s = <<>>)
BY DEF IsSequence

\* Every primitive format has a positive size.
LEMMA SizePositive == \A f : Size(f) \in Nat \ {0}
BY DEF Size

\* HashMap::insert of a vacant entry.
LEMMA InsertDomain ==
  ASSUME NEW k, NEW v, NEW m
  PROVE  DOMAIN Insert(m, k, v) = {k} \cup DOMAIN m
BY DEF Insert

-----------------------------------------------------------------------------
\* The queue and its history are sequences.
Queued == IsSequence(pending) /\ IsSequence(linked)

\* The loop over the links is at its head only between two links.
BetweenLinks == pc = "follow" => link = None

\* No call has returned before the items are loaded.
Unread == pc = "load" => result = NoResult

\* The part of the induction about readers and scopes.
ReaderInv == ReadersAligned /\ LinksReadFromRoot

\* The part about the queue of links.
LinkInv ==
  /\ Queued
  /\ BetweenLinks
  /\ Unread
  /\ NoPendingBetweenCalls
  /\ LinkConservation
  /\ LinksFollowed
  /\ DuplicatesAreReal

IInv == TypeOK /\ ReaderInv /\ LinkInv

\* A context is created with no link, and the first reader is over the whole
\* buffer.
LEMMA InitIInv == Init => IInv
<1> SUFFICES ASSUME Init PROVE IInv
  OBVIOUS
<1> USE DEF Init
<1>1. TypeOK
  <2>1. /\ reader \in FormatReader /\ inner \in FormatReader
        /\ rootScope \in Scope
    BY NewScopeAligned, ReaderOfAligned
  <2>2. DOMAIN pending = {} /\ DOMAIN parsed = {}
    BY EmptySequence
  <2> QED BY <2>1, <2>2 DEF TypeOK
<1>2. ReaderInv
  BY NewScopeAligned, ReaderOfAligned
     DEF ReaderInv, ReadersAligned, LinksReadFromRoot
<1>3. LinkInv
  BY EmptySequence
     DEF LinkInv, Queued, BetweenLinks, Unread, NoPendingBetweenCalls,
         LinkConservation, Running, LinksFollowed, DuplicatesAreReal,
         NoResult, Err
<1> QED BY <1>1, <1>2, <1>3 DEF IInv

-----------------------------------------------------------------------------
\* A step inside read_format and read_struct_format that touches neither the
\* readers nor the links.
LEMMA InnerStep ==
  ASSUME IInv, Running, pc' \in {"format", "frame", "value", "follow"},
         pc' = "follow" => link = None,
         UNCHANGED <<cursors, links>>
  PROVE  IInv'
<1> USE DEF cursors, links
<1>1. TypeOK'
  BY DEF IInv, TypeOK
<1>2. ReaderInv'
  BY DEF IInv, ReaderInv, ReadersAligned, LinksReadFromRoot
<1>3. LinkInv'
  BY DEF IInv, LinkInv, Queued, BetweenLinks, Unread, NoPendingBetweenCalls,
         LinkConservation, Running, followed, Followed, LinksFollowed,
         DuplicatesAreReal
<1> QED BY <1>1, <1>2, <1>3 DEF IInv

\* A panic leaves everything as it was.
LEMMA PanicStep ==
  ASSUME IInv, pc' = "panicked", UNCHANGED <<cursors, links>>
  PROVE  IInv'
<1> USE DEF cursors, links
<1>1. TypeOK'
  BY DEF IInv, TypeOK
<1>2. ReaderInv'
  BY DEF IInv, ReaderInv, ReadersAligned, LinksReadFromRoot
<1>3. LinkInv'
  BY DEF IInv, LinkInv, Queued, BetweenLinks, Unread, NoPendingBetweenCalls,
         LinkConservation, Running, LinksFollowed, DuplicatesAreReal
<1> QED BY <1>1, <1>2, <1>3 DEF IInv

\* An error return clears the queue; one that reports a duplicate has to have
\* met it.
LEMMA FailStep ==
  ASSUME IInv, NEW error, Fail(error), UNCHANGED cursors,
         error[1] = "DuplicatePosition" =>
           \E i, j \in DOMAIN linked :
             /\ i < j
             /\ linked[i].pos = error[2] /\ linked[j].pos = error[2]
  PROVE  IInv'
<1>1. /\ pc' = "ready" /\ result' = Err(error) /\ pending' = <<>>
      /\ UNCHANGED <<parsed, linked>>
      /\ UNCHANGED <<reader, rootScope, inner, link>>
  BY DEF Fail, cursors
<1>2. TypeOK'
  BY <1>1 DEF IInv, TypeOK
<1>3. ReaderInv'
  BY <1>1 DEF IInv, ReaderInv, ReadersAligned, LinksReadFromRoot
<1>4. ~result'.ok /\ result'.error = error
  BY <1>1 DEF Err
<1>5. LinkInv'
  BY <1>1, <1>4, EmptySequence
     DEF IInv, LinkInv, Queued, BetweenLinks, Unread, NoPendingBetweenCalls,
         LinkConservation, Running, LinksFollowed, DuplicatesAreReal
<1> QED BY <1>2, <1>3, <1>5 DEF IInv

\* A call of read_item that finds something to read starts with an empty queue,
\* and its root scope is aligned.
LEMMA StartStep ==
  ASSUME IInv, NEW n, NEW r \in CallersReader, StartItem(n, r),
         \/ pc' \in {"format", "frame"}
         \/ pc' = "ready" /\ result' = Err(InvalidDataDescription)
  PROVE  IInv'
<1>1. /\ pc = "ready"
      /\ reader' = r /\ rootScope' = ScopeOf(r) /\ link' = None
      /\ parsed' = <<>> /\ linked' = <<>>
      /\ UNCHANGED <<inner, pending>>
  BY DEF StartItem
<1>2. r \in FormatReader /\ ReaderAligned(r)
  BY NewScopeAligned, ReaderOfAligned
     DEF CallersReader, IInv, TypeOK, ReaderInv, ReadersAligned
<1>3. ScopeOf(r) \in Scope /\ ScopeAligned(ScopeOf(r))
  BY <1>2, OffsetScopeAligned DEF ScopeOf, FormatReader, ReaderAligned
<1>4. pending = <<>>
  BY <1>1 DEF IInv, LinkInv, NoPendingBetweenCalls
<1>5. TypeOK'
  <2>1. DOMAIN pending' = {} /\ DOMAIN parsed' = {}
    BY <1>1, <1>4
  <2> QED BY <1>1, <1>2, <1>3, <2>1 DEF IInv, TypeOK
<1>6. ReaderInv'
  BY <1>1, <1>2, <1>3 DEF IInv, ReaderInv, ReadersAligned, LinksReadFromRoot
<1>7. LinkConservation'
  <2>1. followed' = 0 /\ Len(linked') = 0
    BY <1>1, <1>4, EmptySequence DEF followed
  <2>2. Followed' = {} /\ DOMAIN parsed' = {} /\ DOMAIN pending' = {}
    BY <1>1, <1>4, <2>1 DEF Followed
  <2> QED BY <1>1, <2>1, <2>2 DEF LinkConservation
<1>8. pc' = "ready" => ~result'.ok /\ result'.error[1] # "DuplicatePosition"
  BY DEF Err, InvalidDataDescription
<1> QED
  BY <1>1, <1>4, <1>5, <1>6, <1>7, <1>8, EmptySequence
     DEF IInv, LinkInv, Queued, BetweenLinks, Unread, NoPendingBetweenCalls,
         LinksFollowed, DuplicatesAreReal

-----------------------------------------------------------------------------
\* A primitive read moves the reader that read_format was given, within the
\* scope it has.
LEMMA PrimitiveStep == IInv /\ ReadPrimitive => IInv'
<1> SUFFICES ASSUME IInv, ReadPrimitive PROVE IInv'
  OBVIOUS
<1>1. PICK f \in PrimitiveOf(arg) :
        CheckAvailable(Active, Size(f)) /\ MoveActive(Size(f))
  BY DEF ReadPrimitive
<1>2. pc = "format" /\ pc' = "value" /\ UNCHANGED <<pending, parsed, linked>>
  BY DEF ReadPrimitive, Return
<1>3. Active \in FormatReader /\ ReaderAligned(Active)
  BY DEF Active, IInv, TypeOK, ReaderInv, ReadersAligned
<1>4. /\ Advance(Active, Size(f)) \in FormatReader
      /\ ReaderAligned(Advance(Active, Size(f)))
      /\ Advance(Active, Size(f)).scope = Active.scope
  BY <1>1, <1>3, SizePositive, CheckedReadAligned DEF Advance, FormatReader
<1>5. /\ UNCHANGED <<rootScope, link>>
      /\ reader' \in FormatReader /\ ReaderAligned(reader')
      /\ inner' \in FormatReader /\ ReaderAligned(inner')
      /\ inner'.scope = inner.scope
  <2>1. CASE link = None
    BY <1>1, <1>4, <2>1
       DEF MoveActive, Active, IInv, TypeOK, ReaderInv, ReadersAligned
  <2>2. CASE link # None
    BY <1>1, <1>4, <2>2
       DEF MoveActive, Active, IInv, TypeOK, ReaderInv, ReadersAligned
  <2> QED BY <2>1, <2>2
<1>6. TypeOK'
  BY <1>2, <1>5 DEF IInv, TypeOK
<1>7. ReaderInv'
  BY <1>5 DEF IInv, ReaderInv, ReadersAligned, LinksReadFromRoot
<1>8. LinkInv'
  BY <1>2, <1>5
     DEF IInv, LinkInv, Queued, BetweenLinks, Unread, NoPendingBetweenCalls,
         LinkConservation, Running, followed, Followed, LinksFollowed,
         DuplicatesAreReal
<1> QED BY <1>6, <1>7, <1>8 DEF IInv

\* A link is appended to the queue and to the history alike.
LEMMA LinkStep == IInv /\ ReadLink => IInv'
<1> SUFFICES ASSUME IInv, ReadLink PROVE IInv'
  OBVIOUS
<1> DEFINE pushed == [pos |-> LinkPosition(arg), format |-> arg.elims[3].arg]
<1>1. /\ pc = "format" /\ pc' = "value" /\ pushed.pos \in Usize
      /\ pending' = Append(pending, pushed) /\ linked' = Append(linked, pushed)
      /\ UNCHANGED parsed
      /\ UNCHANGED <<reader, rootScope, inner, link>>
  BY DEF ReadLink, Return, cursors
<1> HIDE DEF pushed
<1>2. IsSequence(pending) /\ IsSequence(linked)
  BY DEF IInv, LinkInv, Queued
<1>3. /\ IsSequence(pending') /\ IsSequence(linked')
      /\ Len(pending) \in Nat /\ Len(pending') = Len(pending) + 1
      /\ Len(linked) \in Nat /\ Len(linked') = Len(linked) + 1
      /\ pending'[Len(pending) + 1] = pushed
      /\ linked'[Len(linked) + 1] = pushed
      /\ \A i \in 1 .. Len(pending) : pending'[i] = pending[i]
      /\ \A i \in 1 .. Len(linked) : linked'[i] = linked[i]
  BY <1>1, <1>2, AppendSequence
<1>4. /\ DOMAIN pending = 1 .. Len(pending)
      /\ DOMAIN pending' = 1 .. Len(pending) + 1
  BY <1>2, <1>3, SequenceDomain
<1>5. TypeOK'
  <2>1. \A i \in DOMAIN pending' : pending'[i].pos \in Usize
    BY <1>1, <1>3, <1>4 DEF IInv, TypeOK
  <2> QED BY <1>1, <2>1 DEF IInv, TypeOK
<1>6. ReaderInv'
  BY <1>1 DEF IInv, ReaderInv, ReadersAligned, LinksReadFromRoot
<1>7. LinkConservation'
  <2>1. /\ followed \in 0 .. Len(linked)
        /\ \A i \in DOMAIN pending : pending[i] = linked[followed + i]
        /\ Followed = DOMAIN parsed \cup ({link} \ {None})
        /\ link \notin DOMAIN parsed
        /\ \A i, j \in 1 .. followed : linked[i].pos = linked[j].pos => i = j
    BY <1>1 DEF IInv, LinkInv, LinkConservation, Running
  <2>2. followed' = followed /\ followed = Len(linked) - Len(pending)
    BY <1>3 DEF followed
  <2>3. \A i \in 1 .. followed : linked'[i] = linked[i]
    BY <1>3, <2>1
  <2>4. Followed' = Followed
    BY <2>2, <2>3 DEF Followed
  <2>5. \A i \in DOMAIN pending' : pending'[i] = linked'[followed + i]
    <3> SUFFICES ASSUME NEW i \in 1 .. Len(pending) + 1
                 PROVE  pending'[i] = linked'[followed + i]
      BY <1>4
    <3>1. CASE i = Len(pending) + 1
      BY <3>1, <1>3, <2>1, <2>2
    <3>2. CASE i \in 1 .. Len(pending)
      <4>1. followed + i \in 1 .. Len(linked)
        BY <3>2, <1>3, <2>1, <2>2
      <4> QED BY <3>2, <4>1, <1>3, <1>4, <2>1
    <3> QED BY <3>1, <3>2, <1>3
  <2>6. followed' \in 0 .. Len(linked')
    BY <1>3, <2>1, <2>2
  <2>7. \A i, j \in 1 .. followed' : linked'[i].pos = linked'[j].pos => i = j
    BY <2>1, <2>2, <2>3
  <2> QED
    BY <1>1, <2>1, <2>2, <2>4, <2>5, <2>6, <2>7 DEF LinkConservation
<1> QED
  BY <1>1, <1>3, <1>5, <1>6, <1>7
     DEF IInv, LinkInv, Queued, BetweenLinks, Unread, NoPendingBetweenCalls,
         LinksFollowed, DuplicatesAreReal

\* The first link of the queue becomes the one that is read, from the root.
LEMMA FollowStep == IInv /\ FollowLink => IInv'
<1> SUFFICES ASSUME IInv, FollowLink PROVE IInv'
  OBVIOUS
<1> DEFINE pos == Head(pending).pos
<1>1. /\ pc = "follow" /\ pc' = "format" /\ pending # <<>>
      /\ pos \notin DOMAIN parsed
      /\ link' = pos /\ inner' = ReaderOf(OffsetScope(rootScope, pos))
      /\ pending' = Tail(pending)
      /\ UNCHANGED <<reader, rootScope, parsed, linked>>
  BY DEF FollowLink
<1> HIDE DEF pos
<1>2. link = None
  BY <1>1 DEF IInv, LinkInv, BetweenLinks
<1>3. IsSequence(pending) /\ IsSequence(linked)
  BY DEF IInv, LinkInv, Queued
<1>4. /\ IsSequence(pending') /\ Len(linked) \in Nat
      /\ Len(pending) \in Nat \ {0} /\ Len(pending') = Len(pending) - 1
      /\ pos = pending[1].pos
      /\ \A i \in 1 .. Len(pending') : pending'[i] = pending[i + 1]
      /\ DOMAIN pending = 1 .. Len(pending)
      /\ DOMAIN pending' = 1 .. Len(pending')
  BY <1>1, <1>3, TailSequence, SequenceDomain DEF pos
<1>5. pos \in Usize
  BY <1>4 DEF IInv, TypeOK
<1>6. /\ OffsetScope(rootScope, pos) \in Scope
      /\ ScopeAligned(OffsetScope(rootScope, pos))
  BY <1>5, OffsetScopeAligned DEF IInv, TypeOK, ReaderInv, ReadersAligned
<1>7. TypeOK'
  <2>1. \A i \in DOMAIN pending' : pending'[i].pos \in Usize
    BY <1>4 DEF IInv, TypeOK
  <2>2. inner' \in FormatReader
    BY <1>1, <1>6, ReaderOfAligned
  <2> QED BY <1>1, <1>5, <2>1, <2>2 DEF IInv, TypeOK
<1>8. ReaderInv'
  <2>1. ReaderAligned(inner')
    BY <1>1, <1>6, ReaderOfAligned
  <2>2. inner'.scope.len > 0 => inner'.scope.at = rootScope.at + pos
    BY <1>1 DEF ReaderOf, OffsetScope
  <2> QED
    BY <1>1, <2>1, <2>2 DEF IInv, ReaderInv, ReadersAligned, LinksReadFromRoot
<1>9. LinkConservation'
  <2>1. /\ followed \in 0 .. Len(linked)
        /\ \A i \in DOMAIN pending : pending[i] = linked[followed + i]
        /\ Followed = DOMAIN parsed
        /\ \A i, j \in 1 .. followed : linked[i].pos = linked[j].pos => i = j
    BY <1>1, <1>2 DEF IInv, LinkInv, LinkConservation, Running
  <2>2. /\ followed' = followed + 1 /\ followed = Len(linked) - Len(pending)
        /\ followed' \in 0 .. Len(linked)
    BY <1>1, <1>4, <2>1 DEF followed
  <2>3. linked[followed + 1].pos = pos
    BY <1>4, <2>1
  <2>4. Followed = {linked[i].pos : i \in 1 .. followed}
    BY DEF Followed
  <2>5. Followed' = Followed \cup {pos}
    <3>1. Followed' = {linked[i].pos : i \in 1 .. followed + 1}
      BY <1>1, <2>2 DEF Followed
    <3>2. 1 .. followed + 1 = (1 .. followed) \cup {followed + 1}
      BY <2>1
    <3> QED BY <3>1, <3>2, <2>3, <2>4
  <2>6. \A i \in DOMAIN pending' : pending'[i] = linked[followed + 1 + i]
    <3> SUFFICES ASSUME NEW i \in 1 .. Len(pending')
                 PROVE  pending'[i] = linked[followed + 1 + i]
      BY <1>4
    <3>1. pending'[i] = pending[i + 1] /\ i + 1 \in DOMAIN pending
      BY <1>4
    <3>2. followed + (i + 1) = followed + 1 + i
      BY <2>1
    <3> QED BY <3>1, <3>2, <2>1
  <2>7. \A i \in 1 .. followed : linked[i].pos # pos
    BY <1>1, <2>1, <2>4
  <2>8. \A i, j \in 1 .. followed + 1 : linked[i].pos = linked[j].pos => i = j
    BY <2>1, <2>3, <2>7
  <2>9. {link'} \ {None} = {pos}
    BY <1>1, <1>5, SizeAssumption DEF Usize, None
  <2> QED
    BY <1>1, <2>1, <2>2, <2>5, <2>6, <2>8, <2>9 DEF LinkConservation
<1> QED
  BY <1>1, <1>3, <1>4, <1>7, <1>8, <1>9
     DEF IInv, LinkInv, Queued, BetweenLinks, Unread, NoPendingBetweenCalls,
         LinksFollowed, DuplicatesAreReal

\* The value of a link is recorded under its position.
LEMMA LinkReadStep == IInv /\ LinkRead => IInv'
<1> SUFFICES ASSUME IInv, LinkRead PROVE IInv'
  OBVIOUS
<1>1. /\ pc = "value" /\ pc' = "follow" /\ link # None /\ link' = None
      /\ parsed' = Insert(parsed, link, arg)
      /\ UNCHANGED <<reader, rootScope, inner, pending, linked>>
  BY DEF LinkRead
<1>2. DOMAIN parsed' = {link} \cup DOMAIN parsed
  BY <1>1, InsertDomain
<1>3. TypeOK'
  BY <1>1, <1>2 DEF IInv, TypeOK
<1>4. ReaderInv'
  BY <1>1 DEF IInv, ReaderInv, ReadersAligned, LinksReadFromRoot
<1>5. LinkConservation'
  <2>1. followed' = followed /\ Followed' = Followed
    BY <1>1 DEF followed, Followed
  <2>2. None \notin DOMAIN parsed'
    BY <1>3, SizeAssumption DEF TypeOK, Usize, None
  <2> QED
    BY <1>1, <1>2, <2>1, <2>2 DEF IInv, LinkInv, LinkConservation, Running
<1> QED
  BY <1>1, <1>3, <1>4, <1>5
     DEF IInv, LinkInv, Queued, BetweenLinks, Unread, NoPendingBetweenCalls,
         LinksFollowed, DuplicatesAreReal

\* When the queue is empty, what was followed is what was pushed.
LEMMA FinishStep == IInv /\ FinishItem => IInv'
<1> SUFFICES ASSUME IInv, FinishItem PROVE IInv'
  OBVIOUS
<1>1. /\ pc = "follow" /\ pc' = "ready" /\ pending = <<>>
      /\ result' = Ok(main, parsed)
      /\ UNCHANGED <<reader, rootScope, inner, link, pending, parsed, linked>>
  BY DEF FinishItem, cursors, links
<1>2. TypeOK'
  BY <1>1 DEF IInv, TypeOK
<1>3. ReaderInv'
  BY <1>1 DEF IInv, ReaderInv, ReadersAligned, LinksReadFromRoot
<1>4. result'.ok /\ result'.links = parsed
  BY <1>1 DEF Ok
<1>5. LinksFollowed'
  <2>1. IsSequence(linked)
    BY DEF IInv, LinkInv, Queued
  <2>2. DOMAIN linked = 1 .. Len(linked) /\ followed = Len(linked)
    BY <1>1, <2>1, SequenceDomain, EmptySequence DEF followed
  <2>3. link = None
    BY <1>1 DEF IInv, LinkInv, BetweenLinks
  <2>4. /\ DOMAIN parsed = {linked[i].pos : i \in DOMAIN linked}
        /\ \A i, j \in DOMAIN linked : linked[i].pos = linked[j].pos => i = j
    BY <1>1, <2>2, <2>3
       DEF IInv, LinkInv, LinkConservation, Running, Followed
  <2> QED BY <1>1, <1>4, <2>4 DEF LinksFollowed
<1> QED
  BY <1>1, <1>2, <1>3, <1>4, <1>5
     DEF IInv, LinkInv, Queued, BetweenLinks, Unread, NoPendingBetweenCalls,
         LinkConservation, Running, DuplicatesAreReal

\* A duplicate that is reported has been followed before, and is the first of
\* the queue.
LEMMA DuplicateStep == IInv /\ FollowDuplicate => IInv'
<1> SUFFICES ASSUME IInv, FollowDuplicate PROVE IInv'
  OBVIOUS
<1> DEFINE pos == Head(pending).pos
           error == DuplicatePosition(pos)
<1>1. /\ pc = "follow" /\ pending # <<>> /\ pos \in DOMAIN parsed
      /\ Fail(error) /\ UNCHANGED cursors
  BY DEF FollowDuplicate
<1>2. error[2] = pos
  BY DEF DuplicatePosition
<1>3. IsSequence(pending) /\ IsSequence(linked) /\ link = None
  BY <1>1 DEF IInv, LinkInv, Queued, BetweenLinks
<1>4. /\ Len(pending) \in Nat \ {0} /\ Len(linked) \in Nat
      /\ pos = pending[1].pos
      /\ DOMAIN pending = 1 .. Len(pending) /\ DOMAIN linked = 1 .. Len(linked)
  BY <1>1, <1>3, TailSequence, SequenceDomain
<1> HIDE DEF pos, error
<1>5. /\ followed = Len(linked) - Len(pending)
      /\ followed \in 0 .. Len(linked)
      /\ pending[1] = linked[followed + 1]
      /\ pos \in {linked[i].pos : i \in 1 .. followed}
  <2>1. /\ followed \in 0 .. Len(linked)
        /\ \A i \in DOMAIN pending : pending[i] = linked[followed + i]
        /\ Followed = DOMAIN parsed
    BY <1>1, <1>3 DEF IInv, LinkInv, LinkConservation, Running
  <2>2. followed = Len(linked) - Len(pending)
    BY DEF followed
  <2>3. pending[1] = linked[followed + 1]
    BY <1>4, <2>1
  <2>4. pos \in {linked[i].pos : i \in 1 .. followed}
    BY <1>1, <2>1 DEF Followed
  <2> QED BY <2>1, <2>2, <2>3, <2>4
<1>6. PICK i \in 1 .. followed : linked[i].pos = pos
  BY <1>5
<1>7. /\ i \in DOMAIN linked /\ followed + 1 \in DOMAIN linked
      /\ i < followed + 1 /\ linked[followed + 1].pos = pos
  BY <1>4, <1>5
<1> QED BY <1>1, <1>2, <1>6, <1>7, FailStep

-----------------------------------------------------------------------------
\* Every step of the interpreter preserves it.
LEMMA NextIInv == IInv /\ [Next]_vars => IInv'
<1> SUFFICES ASSUME IInv, [Next]_vars PROVE IInv'
  OBVIOUS
<1>1. CASE LoadItem
  <2>1. /\ pc = "load" /\ pc' = "load"
        /\ UNCHANGED <<reader, rootScope, inner, link, pending, parsed, linked,
                       result>>
    BY <1>1 DEF LoadItem, cursors, links
  <2>2. TypeOK'
    BY <2>1 DEF IInv, TypeOK
  <2>3. ReaderInv'
    BY <2>1 DEF IInv, ReaderInv, ReadersAligned, LinksReadFromRoot
  <2>4. LinkInv'
    BY <2>1
       DEF IInv, LinkInv, Queued, BetweenLinks, Unread, NoPendingBetweenCalls,
           LinkConservation, Running, LinksFollowed, DuplicatesAreReal
  <2> QED BY <2>2, <2>3, <2>4 DEF IInv
<1>2. CASE Loaded
  <2>1. /\ pc = "load" /\ pc' = "ready"
        /\ UNCHANGED <<reader, rootScope, inner, link, pending, parsed, linked,
                       result>>
    BY <1>2 DEF Loaded, cursors, links
  <2>2. ~result.ok /\ result.error[1] # "DuplicatePosition" /\ pending = <<>>
    BY <2>1 DEF IInv, LinkInv, Unread, NoPendingBetweenCalls, NoResult, Err
  <2>3. TypeOK'
    BY <2>1 DEF IInv, TypeOK
  <2>4. ReaderInv'
    BY <2>1 DEF IInv, ReaderInv, ReadersAligned, LinksReadFromRoot
  <2>5. LinkInv'
    BY <2>1, <2>2
       DEF IInv, LinkInv, Queued, BetweenLinks, Unread, NoPendingBetweenCalls,
           LinkConservation, Running, LinksFollowed, DuplicatesAreReal
  <2> QED BY <2>3, <2>4, <2>5 DEF IInv
<1>3. ASSUME NEW n \in Names, Call(n) PROVE IInv'
  <2>1. CASE ReadConstant(n)
    BY <2>1, StartStep DEF ReadConstant
  <2>2. CASE ReadStructItem(n)
    BY <2>2, StartStep DEF ReadStructItem
  <2>3. CASE ReadUnreadableItem(n)
    BY <2>3, StartStep DEF ReadUnreadableItem
  <2> QED BY <1>3, <2>1, <2>2, <2>3 DEF Call
<1>4. CASE ReadFormat
  <2>1. CASE ReadPrimitive
    BY <2>1, PrimitiveStep
  <2>2. CASE ReadLink
    BY <2>2, LinkStep
  <2>3. CASE ReadEof \/ ReadOverflows \/ ReadInvalid
    <3>1. /\ Eof[1] # "DuplicatePosition"
          /\ OverflowingPosition[1] # "DuplicatePosition"
          /\ InvalidDataDescription[1] # "DuplicatePosition"
      BY DEF Eof, OverflowingPosition, InvalidDataDescription
    <3> QED
      BY <2>3, <3>1, FailStep DEF ReadEof, ReadOverflows, ReadInvalid
  <2>4. CASE ReadPanics
    BY <2>4, PanicStep DEF ReadPanics
  <2>5. CASE ReadArray \/ ReadStructFormat \/ StructField \/ ArrayElem
    <3>1. Running /\ pc' \in {"format", "frame"} /\ UNCHANGED <<cursors, links>>
      BY <2>5 DEF ReadArray, ReadStructFormat, StructField, ArrayElem, Running
    <3> QED BY <3>1, InnerStep
  <2>6. CASE ReadCurrentPos \/ StructDone \/ ArrayDone
    <3>1. Running /\ pc' = "value" /\ UNCHANGED <<cursors, links>>
      BY <2>6 DEF ReadCurrentPos, StructDone, ArrayDone, Return, Running, links
    <3> QED BY <3>1, InnerStep
  <2>7. CASE FieldRead \/ ElemRead
    <3>1. Running /\ pc' = "frame" /\ UNCHANGED <<cursors, links>>
      BY <2>7 DEF FieldRead, ElemRead, Running
    <3> QED BY <3>1, InnerStep
  <2> QED
    BY <1>4, <2>1, <2>2, <2>3, <2>4, <2>5, <2>6, <2>7 DEF ReadFormat
<1>5. CASE Follow
  <2>1. CASE FinishMain
    <3>1. Running /\ pc' = "follow" /\ link = None /\ UNCHANGED <<cursors, links>>
      BY <2>1 DEF FinishMain, Running
    <3> QED BY <3>1, InnerStep
  <2>2. CASE FollowPanics
    BY <2>2, PanicStep DEF FollowPanics
  <2> QED
    BY <1>5, <2>1, <2>2, FollowStep, DuplicateStep, LinkReadStep, FinishStep
       DEF Follow
<1>6. CASE UNCHANGED vars
  BY <1>6 DEF vars, cursors, links, IInv, TypeOK, ReaderInv, ReadersAligned,
              LinksReadFromRoot, LinkInv, Queued, BetweenLinks, Unread,
              NoPendingBetweenCalls, LinkConservation, Running, followed,
              Followed, LinksFollowed, DuplicatesAreReal
<1> QED BY <1>1, <1>2, <1>3, <1>4, <1>5, <1>6 DEF Next

-----------------------------------------------------------------------------
\* IInv is an invariant of the interpreter.
LEMMA Invariant == Spec => []IInv
BY InitIInv, NextIInv, PTL DEF Spec

\* Readers, scopes and positions have the types the Rust code gives them.
THEOREM InterpreterTypeCorrect == Spec => []TypeOK
<1>1. IInv => TypeOK
  BY DEF IInv
<1> QED BY <1>1, Invariant, PTL

\* Whatever formats the data selects and whatever links it holds, read_format
\* never reads outside the buffer it was given.
THEOREM InterpreterAligned == Spec => []ReadersAligned
<1>1. IInv => ReadersAligned
  BY DEF IInv, ReaderInv
<1> QED BY <1>1, Invariant, PTL

\* current_pos of the readers the interpreter uses is always Some.
THEOREM InterpreterPositions == Spec => []PositionsExist
<1>1. IInv => PositionsExist
  <2>1. IInv => CurrentPos(reader) \in Usize /\ CurrentPos(inner) \in Usize
    BY AlignedReaderPosition DEF IInv, TypeOK, ReaderInv, ReadersAligned
  <2>2. None \notin Usize
    BY SizeAssumption DEF None, Usize
  <2> QED BY <2>1, <2>2 DEF PositionsExist
<1> QED BY <1>1, Invariant, PTL

\* read_item reads a link at its position in the root scope.
THEOREM LinksFromRoot == Spec => []LinksReadFromRoot
<1>1. IInv => LinksReadFromRoot
  BY DEF IInv, ReaderInv
<1> QED BY <1>1, Invariant, PTL

\* The postcondition of read_item, for every way it can return.
THEOREM QueueCleared == Spec => []NoPendingBetweenCalls
<1>1. IInv => NoPendingBetweenCalls
  BY DEF IInv, LinkInv
<1> QED BY <1>1, Invariant, PTL

\* pending_links loses, invents and repeats no link.
THEOREM LinksConserved == Spec => []LinkConservation
<1>1. IInv => LinkConservation
  BY DEF IInv, LinkInv
<1> QED BY <1>1, Invariant, PTL

\* The parsed links of a successful read_item are all the links it met.
THEOREM EveryLinkFollowed == Spec => []LinksFollowed
<1>1. IInv => LinksFollowed
  BY DEF IInv, LinkInv
<1> QED BY <1>1, Invariant, PTL

\* DuplicatePosition is never reported without two links to that position.
THEOREM DuplicatesMet == Spec => []DuplicatesAreReal
<1>1. IInv => DuplicatesAreReal
  BY DEF IInv, LinkInv
<1> QED BY <1>1, Invariant, PTL

\* What holds of the readers, and of the links, of every call of read_item.
THEOREM ReadersDisciplined == Spec => []ReaderDiscipline
<1>1. ReadersAligned /\ PositionsExist /\ LinksReadFromRoot => ReaderDiscipline
  BY DEF ReaderDiscipline
<1> QED BY <1>1, InterpreterAligned, InterpreterPositions, LinksFromRoot, PTL

\* Calls of read_item neither lose links nor leave them to each other.
THEOREM LinksDisciplined == Spec => []LinkDiscipline
<1>1. NoPendingBetweenCalls /\ LinkConservation /\ LinksFollowed /\ DuplicatesAreReal
        => LinkDiscipline
  BY DEF LinkDiscipline
<1> QED BY <1>1, QueueCleared, LinksConserved, EveryLinkFollowed, DuplicatesMet, PTL

\* The caller's reader stays where the item itself ended while the links of
\* the item are read.
THEOREM ReaderLeft == Spec => LinksLeaveReader
<1> DEFINE P == link # None /\ pc # "ready" => UNCHANGED <<reader, rootScope>>
<1>1. [Next]_vars => [P]_vars
  <2> SUFFICES ASSUME Next, link # None, pc # "ready"
               PROVE  UNCHANGED <<reader, rootScope>>
    OBVIOUS
  <2>1. CASE LoadItem \/ Loaded
    BY <2>1 DEF LoadItem, Loaded, cursors
  <2>2. ~ \E n \in Names : Call(n)
    BY DEF Call, ReadConstant, ReadStructItem, ReadUnreadableItem, StartItem
  <2>3. CASE ReadFormat
    <3>1. CASE ReadPrimitive
      BY <3>1 DEF ReadPrimitive, MoveActive
    <3>2. CASE ReadFormat /\ ~ReadPrimitive
      BY <3>2
         DEF ReadFormat, ReadEof, ReadArray, ReadCurrentPos, ReadLink,
             ReadOverflows, ReadStructFormat, ReadInvalid, ReadPanics,
             StructField, FieldRead, StructDone, ArrayElem, ElemRead,
             ArrayDone, cursors
    <3> QED BY <2>3, <3>1, <3>2
  <2>4. CASE Follow
    BY <2>4
       DEF Follow, FinishMain, FollowLink, FollowPanics, FollowDuplicate,
           LinkRead, FinishItem, cursors
  <2> QED BY <2>1, <2>2, <2>3, <2>4 DEF Next
<1>2. [][P]_vars <=> LinksLeaveReader
  BY DEF LinksLeaveReader
<1> QED BY <1>1, <1>2, PTL DEF Spec

-----------------------------------------------------------------------------
(* The interpreter implements LinkTraversal: the step simulation, from the *)
(* invariants above.                                                       *)

\* The status of the call in progress, and of one that has returned.
LEMMA StatusOf ==
  /\ pc = "load" => CallStatus = "idle"
  /\ Running => CallStatus = "running"
  /\ pc = "ready" => CallStatus \in {"idle", "ok", "duplicate", "failed"}
BY DEF CallStatus, Running

\* What the traversal sees of the links changes only with these variables.
LEMMA SetsKept ==
  ASSUME UNCHANGED <<linked, parsed, link>>
  PROVE  UNCHANGED <<Met, MetTwice, Visited>>
BY DEF Met, MetTwice, Visited

-----------------------------------------------------------------------------
\* Reading formats, without a link, is none of the traversal's steps.
LEMMA ReadingStutters ==
  ASSUME Running, Running', UNCHANGED <<linked, parsed, link>>
  PROVE  UNCHANGED Traversal!vars
<1>1. CallStatus = "running" /\ CallStatus' = "running"
  BY DEF CallStatus, Running
<1> QED BY <1>1, SetsKept DEF Traversal!vars

\* An error other than a duplicate position, and a panic.
LEMMA FailingFails ==
  ASSUME Running, NEW e, Fail(e), UNCHANGED cursors,
         e \in {Eof, OverflowingPosition, InvalidDataDescription}
  PROVE  Traversal!Fail
<1>1. pc' = "ready" /\ result' = Err(e) /\ UNCHANGED <<linked, parsed, link>>
  BY DEF Fail, cursors
<1>2. e # <<"none">> /\ e[1] # "DuplicatePosition"
  BY DEF Eof, OverflowingPosition, InvalidDataDescription
<1>3. CallStatus' = "failed"
  <2>1. result'.ok = FALSE /\ result'.error = e /\ result' # NoResult
    BY <1>1, <1>2 DEF Err, NoResult
  <2> QED BY <1>1, <1>2, <2>1 DEF CallStatus, Running, NoResult, Err
<1> QED BY <1>1, <1>3, StatusOf, SetsKept DEF Traversal!Fail

\* A panic of the interpreter is a failure of the traversal.
LEMMA PanickingFails ==
  ASSUME Running, pc' = "panicked", UNCHANGED <<cursors, links>>
  PROVE  Traversal!Fail
<1>1. UNCHANGED <<linked, parsed, link>>
  BY DEF cursors, links
<1>2. CallStatus' = "panicked"
  BY DEF CallStatus, Running
<1> QED BY <1>1, <1>2, StatusOf, SetsKept DEF Traversal!Fail

-----------------------------------------------------------------------------
\* A new call has met nothing yet.
LEMMA CallingCalls ==
  ASSUME IInv, NEW n, Call(n)
  PROVE  Traversal!Call
<1>1. /\ pc = "ready" /\ link' = None /\ parsed' = <<>> /\ linked' = <<>>
      /\ \/ pc' = "format" \/ pc' = "frame"
         \/ pc' = "ready" /\ result' = Err(InvalidDataDescription)
  BY DEF Call, ReadConstant, ReadStructItem, ReadUnreadableItem, StartItem
<1>2. Met' = {} /\ MetTwice' = {} /\ Visited' = {}
  BY <1>1, EmptySequence DEF Met, MetTwice, Visited
<1>3. CallStatus' \in {"running", "failed"}
  <2>1. CASE pc' = "format" \/ pc' = "frame"
    BY <2>1 DEF CallStatus, Running
  <2>2. CASE pc' = "ready" /\ result' = Err(InvalidDataDescription)
    <3>1. /\ result' # NoResult /\ ~result'.ok
          /\ result'.error[1] # "DuplicatePosition"
      BY <2>2 DEF NoResult, Err, InvalidDataDescription
    <3> QED BY <2>2, <3>1 DEF CallStatus, Running
  <2> QED BY <1>1, <2>1, <2>2
<1> QED BY <1>1, <1>2, <1>3, StatusOf DEF Traversal!Call

\* Pushing a link is meeting its position.
LEMMA PushingMeets ==
  ASSUME IInv, ReadLink
  PROVE  \E p \in Usize : Traversal!Meet(p)
<1> DEFINE p == LinkPosition(arg)
           pushed == [pos |-> p, format |-> arg.elims[3].arg]
           n == Len(linked)
<1>1. /\ p \in Usize /\ linked' = Append(linked, pushed)
      /\ pc = "format" /\ pc' = "value" /\ UNCHANGED <<parsed, link>>
  BY DEF ReadLink, Return, cursors
<1>2. IsSequence(linked)
  BY DEF IInv, LinkInv, Queued
<1>3. /\ n \in Nat /\ DOMAIN linked = 1 .. n /\ DOMAIN linked' = 1 .. (n + 1)
      /\ linked'[n + 1].pos = p /\ \A i \in 1 .. n : linked'[i] = linked[i]
  <2>1. IsSequence(linked') /\ Len(linked') = n + 1
    BY <1>1, <1>2, AppendSequence
  <2>2. linked'[n + 1] = pushed /\ \A i \in 1 .. n : linked'[i] = linked[i]
    BY <1>1, <1>2, AppendSequence
  <2>3. /\ n \in Nat /\ DOMAIN linked = 1 .. n
        /\ DOMAIN linked' = 1 .. Len(linked')
    BY <1>2, <2>1, SequenceDomain
  <2> QED BY <2>1, <2>2, <2>3
<1> HIDE DEF p, pushed, n
<1>4. Met' = Met \cup {p}
  BY <1>3 DEF Met
<1>5. MetTwice' = IF p \in Met THEN MetTwice \cup {p} ELSE MetTwice
  <2>1. MetTwice \subseteq MetTwice'
    BY <1>3, <1>4 DEF MetTwice
  <2>2. ASSUME p \in Met PROVE p \in MetTwice'
    <3>1. PICK i \in 1 .. n : linked[i].pos = p
      BY <2>2, <1>3 DEF Met
    <3>2. /\ i \in DOMAIN linked' /\ n + 1 \in DOMAIN linked' /\ i # n + 1
          /\ linked'[i].pos = p /\ linked'[n + 1].pos = p
      BY <3>1, <1>3
    <3> QED BY <3>2, <1>4 DEF MetTwice
  <2>3. ASSUME NEW q \in MetTwice', q \notin MetTwice PROVE q = p /\ p \in Met
    <3>1. PICK i, j \in 1 .. (n + 1) :
            i # j /\ linked'[i].pos = q /\ linked'[j].pos = q
      BY <2>3, <1>3 DEF MetTwice
    <3>2. ~(i \in 1 .. n /\ j \in 1 .. n)
      <4> SUFFICES ASSUME i \in 1 .. n, j \in 1 .. n PROVE q \in MetTwice
        BY <2>3
      <4>1. i # j /\ linked[i].pos = q /\ linked[j].pos = q
        BY <3>1, <1>3
      <4> QED BY <4>1, <1>3 DEF MetTwice, Met
    <3>3. CASE i = n + 1
      <4>1. j \in 1 .. n
        BY <3>1, <3>3, <1>3
      <4> QED BY <3>1, <3>3, <4>1, <1>3 DEF Met
    <3>4. CASE j = n + 1
      <4>1. i \in 1 .. n
        BY <3>1, <3>4, <1>3
      <4> QED BY <3>1, <3>4, <4>1, <1>3 DEF Met
    <3> QED BY <3>1, <3>2, <3>3, <3>4, <1>3
  <2> QED BY <2>1, <2>2, <2>3
<1>6. CallStatus = "running" /\ CallStatus' = "running"
  BY <1>1 DEF CallStatus, Running
<1>7. UNCHANGED Visited
  BY <1>1 DEF Visited
<1>8. Traversal!Meet(p)
  BY <1>4, <1>5, <1>6, <1>7 DEF Traversal!Meet
<1> QED BY <1>1, <1>8

\* Taking a link off the queue is visiting its position, for the first time.
LEMMA FollowingVisits ==
  ASSUME IInv, FollowLink
  PROVE  \E p \in Usize : Traversal!Visit(p)
<1> DEFINE p == Head(pending).pos
<1>1. /\ pc = "follow" /\ pc' = "format" /\ pending # <<>>
      /\ p \notin DOMAIN parsed /\ link' = p /\ UNCHANGED <<parsed, linked>>
  BY DEF FollowLink
<1>2. /\ IsSequence(pending) /\ IsSequence(linked) /\ link = None
      /\ followed \in 0 .. Len(linked)
      /\ \A i \in DOMAIN pending : pending[i] = linked[followed + i]
      /\ \A i \in DOMAIN pending : pending[i].pos \in Usize
  BY <1>1 DEF IInv, TypeOK, LinkInv, Queued, BetweenLinks, LinkConservation, Running
<1>3. /\ Len(pending) \in Nat \ {0} /\ Len(linked) \in Nat
      /\ 1 \in DOMAIN pending /\ DOMAIN linked = 1 .. Len(linked)
      /\ Head(pending) = pending[1]
  BY <1>1, <1>2, SequenceDomain DEF IsSequence
<1>4. followed + 1 \in DOMAIN linked /\ linked[followed + 1].pos = p
  BY <1>2, <1>3 DEF followed
<1>5. p \in Usize /\ p \in Met /\ p # None
  <2>1. p \in Usize
    BY <1>2, <1>3
  <2>2. None \notin Usize
    BY SizeAssumption DEF None, Usize
  <2> QED BY <2>1, <2>2, <1>4 DEF Met
<1> HIDE DEF p
<1>6. p \notin Visited /\ Visited' = Visited \cup {p}
  BY <1>1, <1>2, <1>5 DEF Visited
<1>7. CallStatus = "running" /\ CallStatus' = "running"
  BY <1>1 DEF CallStatus, Running
<1>8. UNCHANGED <<Met, MetTwice>>
  BY <1>1 DEF Met, MetTwice
<1> QED BY <1>5, <1>6, <1>7, <1>8 DEF Traversal!Visit

\* A link that has been read was visited before.
LEMMA RecordingStutters ==
  ASSUME LinkRead
  PROVE  UNCHANGED Traversal!vars
<1>1. /\ pc = "value" /\ pc' = "follow" /\ link # None /\ link' = None
      /\ parsed' = Insert(parsed, link, arg) /\ UNCHANGED linked
  BY DEF LinkRead
<1>2. DOMAIN parsed' = {link} \cup DOMAIN parsed
  BY <1>1, InsertDomain
<1>3. UNCHANGED Visited
  BY <1>1, <1>2 DEF Visited
<1>4. UNCHANGED <<Met, MetTwice>>
  BY <1>1 DEF Met, MetTwice
<1>5. UNCHANGED CallStatus
  BY <1>1 DEF CallStatus, Running
<1> QED BY <1>3, <1>4, <1>5 DEF Traversal!vars

\* A position that is occupied was met twice and visited.
LEMMA DuplicateRefuses ==
  ASSUME IInv, IInv', FollowDuplicate
  PROVE  Traversal!Refuse
<1> DEFINE p == Head(pending).pos
<1>1. /\ pc = "follow" /\ p \in DOMAIN parsed /\ pc' = "ready"
      /\ result' = Err(DuplicatePosition(p)) /\ UNCHANGED <<linked, parsed, link>>
  BY DEF FollowDuplicate, Fail, cursors
<1> HIDE DEF p
<1>2. /\ ~result'.ok /\ result' # NoResult
      /\ result'.error[1] = "DuplicatePosition" /\ result'.error[2] = p
  BY <1>1 DEF Err, NoResult, DuplicatePosition
<1>3. PICK i, j \in DOMAIN linked : i < j /\ linked[i].pos = p /\ linked[j].pos = p
  BY <1>1, <1>2 DEF IInv, LinkInv, DuplicatesAreReal
<1>4. p \in MetTwice
  <2>1. i # j
    <3>1. i \in Nat /\ j \in Nat
      BY <1>3, SequenceDomain DEF IInv, LinkInv, Queued
    <3> QED BY <1>3, <3>1
  <2> QED BY <1>3, <2>1 DEF MetTwice, Met
<1>5. p \in Visited
  BY <1>1 DEF Visited
<1>6. CallStatus = "running" /\ CallStatus' = "duplicate"
  BY <1>1, <1>2 DEF CallStatus, Running
<1> QED BY <1>1, <1>4, <1>5, <1>6, SetsKept DEF Traversal!Refuse

\* A call that returns a value has visited what it met.
LEMMA FinishingSucceeds ==
  ASSUME IInv, IInv', FinishItem
  PROVE  Traversal!Succeed
<1>1. /\ pc = "follow" /\ pc' = "ready" /\ result' = Ok(main, parsed)
      /\ UNCHANGED <<linked, parsed, link>>
  BY DEF FinishItem, cursors, links
<1>2. link = None
  BY <1>1 DEF IInv, LinkInv, BetweenLinks
<1>3. result'.ok /\ result'.links = parsed /\ result' # NoResult
  BY <1>1 DEF Ok, NoResult, Err
<1>4. /\ DOMAIN parsed = Met
      /\ \A i, j \in DOMAIN linked : linked[i].pos = linked[j].pos => i = j
  BY <1>1, <1>3 DEF IInv, LinkInv, LinksFollowed, Met
<1>5. Visited = Met /\ MetTwice = {}
  BY <1>2, <1>4 DEF Visited, MetTwice
<1>6. CallStatus = "running" /\ CallStatus' = "ok"
  BY <1>1, <1>3 DEF CallStatus, Running
<1> QED BY <1>1, <1>5, <1>6, SetsKept DEF Traversal!Succeed

-----------------------------------------------------------------------------
\* The interpreter starts where the traversal does.
LEMMA InitTraverses == Init => Traversal!Init
<1> SUFFICES ASSUME Init PROVE Traversal!Init
  OBVIOUS
<1>1. pc = "load" /\ link = None /\ parsed = <<>> /\ linked = <<>>
  BY DEF Init
<1>2. Met = {} /\ MetTwice = {} /\ Visited = {}
  BY <1>1, EmptySequence DEF Met, MetTwice, Visited
<1> QED BY <1>1, <1>2, StatusOf DEF Traversal!Init

\* Every step of the interpreter is a step of the traversal, or none.
LEMMA NextTraverses ==
  IInv /\ IInv' /\ [Next]_vars => [Traversal!Next]_(Traversal!vars)
<1> SUFFICES ASSUME IInv, IInv', [Next]_vars
             PROVE  Traversal!Next \/ UNCHANGED Traversal!vars
  OBVIOUS
<1>1. CASE LoadItem \/ Loaded
  <2>1. /\ pc = "load" /\ pc' \in {"load", "ready"}
        /\ UNCHANGED <<linked, parsed, link, result>>
    BY <1>1 DEF LoadItem, Loaded, cursors, links
  <2>2. result' = NoResult
    BY <2>1 DEF IInv, LinkInv, Unread
  <2>3. CallStatus = "idle" /\ CallStatus' = "idle"
    BY <2>1, <2>2 DEF CallStatus, Running, NoResult, Err
  <2> QED BY <2>1, <2>3, SetsKept DEF Traversal!vars
<1>2. ASSUME NEW n \in Names, Call(n) PROVE Traversal!Next
  BY <1>2, CallingCalls DEF Traversal!Next
<1>3. CASE ReadFormat
  <2>1. CASE ReadPrimitive
    <3>1. Running /\ Running' /\ UNCHANGED <<linked, parsed, link>>
      BY <2>1 DEF ReadPrimitive, Return, MoveActive, Running
    <3> QED BY <3>1, ReadingStutters
  <2>2. CASE ReadLink
    BY <2>2, PushingMeets DEF Traversal!Next
  <2>3. CASE ReadEof \/ ReadOverflows \/ ReadInvalid
    <3>1. Running
      BY <2>3 DEF ReadEof, ReadOverflows, ReadInvalid, Running
    <3>2. Traversal!Fail
      BY <2>3, <3>1, FailingFails DEF ReadEof, ReadOverflows, ReadInvalid
    <3> QED BY <3>2 DEF Traversal!Next
  <2>4. CASE ReadPanics
    <3>1. Traversal!Fail
      BY <2>4, PanickingFails DEF ReadPanics, Running
    <3> QED BY <3>1 DEF Traversal!Next
  <2>5. CASE ReadArray \/ ReadStructFormat \/ StructField \/ ArrayElem
    <3>1. Running /\ Running' /\ UNCHANGED <<linked, parsed, link>>
      BY <2>5 DEF ReadArray, ReadStructFormat, StructField, ArrayElem, Running,
                  cursors, links
    <3> QED BY <3>1, ReadingStutters
  <2>6. CASE ReadCurrentPos \/ StructDone \/ ArrayDone
    <3>1. Running /\ Running' /\ UNCHANGED <<linked, parsed, link>>
      BY <2>6 DEF ReadCurrentPos, StructDone, ArrayDone, Return, Running, cursors
    <3> QED BY <3>1, ReadingStutters
  <2>7. CASE FieldRead \/ ElemRead
    <3>1. Running /\ Running' /\ UNCHANGED <<linked, parsed, link>>
      BY <2>7 DEF FieldRead, ElemRead, Running, cursors, links
    <3> QED BY <3>1, ReadingStutters
  <2> QED
    BY <1>3, <2>1, <2>2, <2>3, <2>4, <2>5, <2>6, <2>7 DEF ReadFormat
<1>4. CASE Follow
  <2>1. CASE FinishMain
    <3>1. Running /\ Running' /\ UNCHANGED <<linked, parsed, link>>
      BY <2>1 DEF FinishMain, Running, cursors, links
    <3> QED BY <3>1, ReadingStutters
  <2>2. CASE FollowPanics
    <3>1. Traversal!Fail
      BY <2>2, PanickingFails DEF FollowPanics, Running
    <3> QED BY <3>1 DEF Traversal!Next
  <2>3. CASE FollowLink
    BY <2>3, FollowingVisits DEF Traversal!Next
  <2>4. CASE FollowDuplicate
    BY <2>4, DuplicateRefuses DEF Traversal!Next
  <2>5. CASE LinkRead
    BY <2>5, RecordingStutters
  <2>6. CASE FinishItem
    BY <2>6, FinishingSucceeds DEF Traversal!Next
  <2> QED BY <1>4, <2>1, <2>2, <2>3, <2>4, <2>5, <2>6 DEF Follow
<1>5. CASE UNCHANGED vars
  <2>1. UNCHANGED <<pc, result, linked, parsed, link>>
    BY <1>5 DEF vars, cursors, links
  <2>2. UNCHANGED CallStatus
    BY <2>1 DEF CallStatus, Running
  <2> QED BY <2>1, <2>2, SetsKept DEF Traversal!vars
<1> QED BY <1>1, <1>2, <1>3, <1>4, <1>5 DEF Next

\* read_item implements the traversal: whatever the order of its queue, every
\* link met is visited exactly once, and Ok means that all were.
THEOREM TraversalRefined == Spec => LinksAreTraversed
<1>1. Init => Traversal!Init
  BY InitTraverses
<1>2. IInv /\ IInv' /\ [Next]_vars => [Traversal!Next]_(Traversal!vars)
  BY NextTraverses
<1> QED BY <1>1, <1>2, Invariant, PTL DEF Spec, LinksAreTraversed, Traversal!Spec

=============================================================================
