--------------------------- MODULE PtyWriteProofs ---------------------------
(***************************************************************************)
(* Type correctness of the write path, and that queued input always has    *)
(* something that will move it on: InputHasTrigger and BacklogReset hold   *)
(* for every slice, queue and kernel size.                                 *)
(*                                                                         *)
(* The two are inductive together.  The only addition is that the GUI      *)
(* posts no empty message, which handedIn rests on.  On top of them the    *)
(* second half proves that input stays in order and accounted for, and     *)
(* that a paste loses nothing without an I/O error.                        *)
(***************************************************************************)
EXTENDS PtyWrite, SequenceTheorems, TLAPS

\* Messages carry data.
NoEmptyMessage ==
    \A i \in 1..Len(messages) : messages[i].data # <<>>

WInv == TypeOK /\ NoEmptyMessage /\ InputHasTrigger /\ BacklogReset

-----------------------------------------------------------------------------
\* From(s, i) drops the first i elements.
LEMMA FromFacts ==
    ASSUME NEW S, NEW s \in Seq(S), NEW i \in 0..Len(s)
    PROVE  /\ From(s, i) \in Seq(S)
           /\ Len(From(s, i)) = Len(s) - i
<1>1. /\ Len(s) \in Nat
      /\ \A j \in (i + 1)..Len(s) : s[j] \in S
  BY LenProperties, ElementOfSeq
<1>2. i + 1 \in Int /\ Len(s) \in Int
  BY <1>1
<1>3. /\ SubSeq(s, i + 1, Len(s)) \in Seq(S)
      /\ Len(SubSeq(s, i + 1, Len(s))) =
            IF i + 1 <= Len(s) THEN Len(s) - (i + 1) + 1 ELSE 0
  BY <1>1, <1>2, SubSeqProperties
<1> QED
  BY <1>1, <1>3 DEF From

\* The first k elements of s.
LEMMA FirstFacts ==
    ASSUME NEW S, NEW s \in Seq(S), NEW a \in Nat, NEW k \in Nat, a + k <= Len(s)
    PROVE  /\ SubSeq(s, a + 1, a + k) \in Seq(S)
           /\ Len(SubSeq(s, a + 1, a + k)) = k
<1>1. /\ Len(s) \in Nat
      /\ \A j \in (a + 1)..(a + k) : s[j] \in S
  BY LenProperties, ElementOfSeq
<1>2. /\ SubSeq(s, a + 1, a + k) \in Seq(S)
      /\ Len(SubSeq(s, a + 1, a + k)) =
            IF a + 1 <= a + k THEN a + k - (a + 1) + 1 ELSE 0
  BY <1>1, SubSeqProperties
<1> QED
  BY <1>2

\* The elements of a sequence over S are in S.
LEMMA ElementsIn ==
    ASSUME NEW S, NEW s \in Seq(S)
    PROVE  Elements(s) \subseteq S
BY LenProperties, ElementOfSeq DEF Elements

-----------------------------------------------------------------------------
\* What Pty::writeSome does to the kernel's side, whatever it is offered.
LEMMA WriteSomeStep ==
    ASSUME NEW data \in Seq(Units), NEW k \in 0..Len(data), NEW fatal \in BOOLEAN,
           delivered \in Seq(Units), faults \in 0..MaxFaults,
           writeSome(data, k, fatal)
    PROVE  /\ delivered' \in Seq(Units)
           /\ Len(delivered') >= Len(delivered)
           /\ faults' \in 0..MaxFaults
<1>1. Len(data) \in Nat /\ Len(delivered) \in Nat /\ MaxFaults \in Nat
  BY LenProperties, WriteAssumption
<1>2. /\ SubSeq(data, 0 + 1, 0 + k) \in Seq(Units)
      /\ Len(SubSeq(data, 0 + 1, 0 + k)) = k
  BY <1>1, FirstFacts
<1>3. SubSeq(data, 1, k) \in Seq(Units) /\ Len(SubSeq(data, 1, k)) = k
  BY <1>1, <1>2
<1>4. delivered' = delivered \o SubSeq(data, 1, k)
  BY DEF writeSome
<1>5. /\ delivered' \in Seq(Units)
      /\ Len(delivered') = Len(delivered) + k
  BY <1>3, <1>4, ConcatProperties
<1>6. faults' \in 0..MaxFaults
  BY <1>1 DEF writeSome
<1> QED
  BY <1>1, <1>5, <1>6

\* What VtStream's writeLost handler does to the backlog and the history.
LEMMA WriteLostStep ==
    ASSUME NEW units \in SUBSET Units, NEW fed \in 0..Len(pasteBacklog),
           pasteBacklog \in Seq(Units), lost \subseteq Units, dropped \subseteq Units,
           writeLost(units, fed)
    PROVE  /\ lost' \subseteq Units
           /\ dropped' \subseteq Units
           /\ pasteBacklog' = <<>>
<1>1. From(pasteBacklog, fed) \in Seq(Units)
  BY FromFacts
<1>2. Elements(From(pasteBacklog, fed)) \subseteq Units
  BY <1>1, ElementsIn
<1> QED
  BY <1>2 DEF writeLost

\* Pty::write keeps the queue within its cap and the notifier armed exactly
\* while bytes are queued; the backlog is left alone or let go of.
LEMMA WriteStep ==
    ASSUME TypeOK, writeArmed <=> pendingWrite # <<>>,
           NEW data \in Seq(Units), NEW fed \in 0..Len(pasteBacklog),
           write(data, fed)
    PROVE  /\ pendingWrite' \in Seq(Units) /\ Len(pendingWrite') <= MaxPending
           /\ writeArmed' \in BOOLEAN
           /\ writeArmed' <=> pendingWrite' # <<>>
           /\ delivered' \in Seq(Units)
           /\ Len(delivered') >= Len(delivered)
           /\ faults' \in 0..MaxFaults
           /\ lost' \subseteq Units
           /\ dropped' \subseteq Units
           /\ pasteBacklog' = pasteBacklog \/ pasteBacklog' = <<>>
<1>1. /\ pendingWrite \in Seq(Units) /\ Len(pendingWrite) \in Nat
      /\ Len(pendingWrite) <= MaxPending
      /\ delivered \in Seq(Units) /\ Len(delivered) \in Nat
      /\ pasteBacklog \in Seq(Units)
      /\ writeArmed \in BOOLEAN /\ faults \in 0..MaxFaults
      /\ lost \subseteq Units /\ dropped \subseteq Units
      /\ Len(data) \in Nat
      /\ Elements(data) \in SUBSET Units
  BY LenProperties, ElementsIn DEF TypeOK
<1>2. MaxPending \in Nat
  BY WriteAssumption
<1>3. CASE /\ pendingWrite # <<>>
           /\ fits(Len(pendingWrite) + Len(data))
           /\ pendingWrite' = pendingWrite \o data
           /\ UNCHANGED <<writeArmed, delivered, faults, lost, dropped, pasteBacklog>>
  <2>1. /\ pendingWrite' \in Seq(Units)
        /\ Len(pendingWrite') = Len(pendingWrite) + Len(data)
    BY <1>1, <1>3, ConcatProperties
  <2>2. Len(pendingWrite) > 0
    BY <1>1, <1>3, EmptySeq
  <2>3. pendingWrite' # <<>> /\ Len(pendingWrite') <= MaxPending
    BY <1>1, <1>3, <2>1, <2>2, EmptySeq DEF fits
  <2>4. writeArmed' = writeArmed
    BY <1>3
  <2>5. writeArmed' \in BOOLEAN /\ (writeArmed' <=> pendingWrite' # <<>>)
    BY <1>1, <1>3, <2>3, <2>4, Zenon
  <2> QED
    BY <1>1, <1>3, <2>1, <2>3, <2>5
<1>4. CASE /\ pendingWrite # <<>>
           /\ writeLost(Elements(data), fed)
           /\ UNCHANGED <<pendingWrite, writeArmed, delivered, faults>>
  <2>1. /\ lost' \subseteq Units /\ dropped' \subseteq Units
        /\ pasteBacklog' = <<>>
    BY <1>1, <1>4, WriteLostStep
  <2>2. writeArmed' = writeArmed /\ pendingWrite' = pendingWrite
    BY <1>4
  <2>3. writeArmed' \in BOOLEAN /\ (writeArmed' <=> pendingWrite' # <<>>)
    BY <1>1, <1>4, <2>2, Zenon
  <2> QED
    BY <1>1, <1>4, <2>1, <2>3
<1>5. CASE /\ pendingWrite = <<>>
           /\ \E k \in 0..Len(data), fatal \in BOOLEAN :
                /\ writeSome(data, k, fatal)
                /\ IF fatal \/ ~fits(Len(From(data, k)))
                   THEN /\ writeLost(Elements(From(data, k)), fed)
                        /\ UNCHANGED <<pendingWrite, writeArmed>>
                   ELSE /\ pendingWrite' = From(data, k)
                        /\ arm(From(data, k))
                        /\ UNCHANGED <<lost, dropped, pasteBacklog>>
  <2>1. PICK k \in 0..Len(data), fatal \in BOOLEAN :
                /\ writeSome(data, k, fatal)
                /\ IF fatal \/ ~fits(Len(From(data, k)))
                   THEN /\ writeLost(Elements(From(data, k)), fed)
                        /\ UNCHANGED <<pendingWrite, writeArmed>>
                   ELSE /\ pendingWrite' = From(data, k)
                        /\ arm(From(data, k))
                        /\ UNCHANGED <<lost, dropped, pasteBacklog>>
    BY <1>5
  <2>2. /\ delivered' \in Seq(Units) /\ Len(delivered') >= Len(delivered)
        /\ faults' \in 0..MaxFaults
    BY <1>1, <2>1, WriteSomeStep
  <2>3. From(data, k) \in Seq(Units)
    BY FromFacts
  <2>4. Elements(From(data, k)) \in SUBSET Units
    BY <2>3, ElementsIn
  <2>5. CASE fatal \/ ~fits(Len(From(data, k)))
    <3>1. /\ writeLost(Elements(From(data, k)), fed)
          /\ pendingWrite' = pendingWrite /\ writeArmed' = writeArmed
      BY <2>1, <2>5
    <3>2. /\ lost' \subseteq Units /\ dropped' \subseteq Units
          /\ pasteBacklog' = <<>>
      BY <1>1, <2>4, <3>1, WriteLostStep
    <3>3. writeArmed' \in BOOLEAN /\ (writeArmed' <=> pendingWrite' # <<>>)
      BY <1>1, <3>1, Zenon
    <3> QED
      BY <1>1, <2>2, <3>1, <3>2, <3>3
  <2>6. CASE ~(fatal \/ ~fits(Len(From(data, k))))
    <3>1. /\ pendingWrite' = From(data, k) /\ arm(From(data, k))
          /\ fits(Len(From(data, k)))
          /\ UNCHANGED <<lost, dropped, pasteBacklog>>
      BY <2>1, <2>6
    <3>2. pendingWrite' \in Seq(Units) /\ Len(pendingWrite') <= MaxPending
      BY <2>3, <3>1 DEF fits
    <3>3. writeArmed' \in BOOLEAN /\ (writeArmed' <=> pendingWrite' # <<>>)
      BY <3>1, Zenon DEF arm
    <3> QED
      BY <1>1, <2>2, <3>1, <3>2, <3>3
  <2> QED
    BY <2>5, <2>6
<1> QED
  BY <1>3, <1>4, <1>5 DEF write

-----------------------------------------------------------------------------
\* The initial state satisfies the invariant.
LEMMA InitWInv == Init => WInv
<1> SUFFICES ASSUME Init PROVE WInv
  OBVIOUS
<1>1. /\ <<>> \in Seq(Message) /\ <<>> \in Seq(Units)
      /\ Len(<<>>) = 0
  BY EmptySeq
<1>2. MaxPending \in Nat /\ MaxFaults \in Nat
  BY WriteAssumption
<1>3. TypeOK
  <2>1. writeArmed \in BOOLEAN
    BY Zenon DEF Init
  <2>2. /\ messages = <<>> /\ posted = <<>> /\ pc = "idle"
        /\ pasteBacklog = <<>> /\ pasteOffset = 0 /\ pendingWrite = <<>>
        /\ delivered = <<>> /\ childRead = 0
        /\ faults = 0 /\ lost = {} /\ dropped = {}
    BY DEF Init
  <2> QED
    BY <1>1, <1>2, <2>1, <2>2 DEF TypeOK
<1>4. NoEmptyMessage /\ BacklogReset
  BY <1>1 DEF Init, NoEmptyMessage, BacklogReset
<1>5. InputHasTrigger
  <2>1. ~feeding
    BY <1>1 DEF Init, feeding
  <2> QED
    BY <2>1, Zenon DEF Init, InputHasTrigger
<1> QED
  BY <1>3, <1>4, <1>5 DEF WInv

\* The number of units handed in so far.
LEMMA HandedInNat ==
    ASSUME TypeOK, NoEmptyMessage
    PROVE  handedIn \in Nat
<1>1. messages \in Seq(Message) /\ Len(messages) \in Nat
  BY LenProperties DEF TypeOK
<1>2. CASE messages = <<>>
  BY <1>2 DEF handedIn
<1>3. CASE messages # <<>>
  <2> DEFINE d == messages[Len(messages)].data
  <2>1. Len(messages) \in 1..Len(messages)
    BY <1>1, <1>3, EmptySeq
  <2>2. messages[Len(messages)] \in Message
    BY <1>1, <2>1, ElementOfSeq
  <2>3. d \in Seq(Units) /\ d # <<>>
    BY <1>1, <2>1, <2>2 DEF Message, NoEmptyMessage
  <2> HIDE DEF d
  <2>4. Len(d) \in 1..Len(d)
    BY <2>3, EmptySeq, LenProperties
  <2>5. d[Len(d)] \in Units
    BY <2>3, <2>4, ElementOfSeq
  <2>6. handedIn = d[Len(d)]
    BY <1>3 DEF handedIn, d
  <2> QED
    BY <2>5, <2>6, WriteAssumption DEF Units
<1> QED
  BY <1>2, <1>3

\* The GUI's posts: numbered units, in a message of their own.
LEMMA PostStep ==
    ASSUME WInv, NEW kind \in {"key", "paste"}, NEW n \in Nat \ {0}, post(kind, n)
    PROVE  WInv'
<1> DEFINE m == [kind |-> kind, data |-> [i \in 1..n |-> handedIn + i]]
<1>1. /\ messages \in Seq(Message) /\ Len(messages) \in Nat
      /\ posted \in Seq(Message)
      /\ NoEmptyMessage
  BY LenProperties DEF WInv, TypeOK
<1>2. handedIn \in Nat
  BY HandedInNat DEF WInv
<1>3. handedIn + n <= MaxUnits /\ MaxUnits \in Nat
  BY WriteAssumption DEF post
<1>4. m.data \in Seq(Units) /\ m.data # <<>>
  <2>1. [i \in 1..n |-> handedIn + i] \in [1..n -> Units]
    BY <1>2, <1>3 DEF Units
  <2>2. [i \in 1..n |-> handedIn + i] \in Seq(Units)
    BY <2>1
  <2>3. [i \in 1..n |-> handedIn + i] # <<>>
    BY <2>2, EmptySeq
  <2> QED
    BY <2>2, <2>3
<1>5. m \in Message
  BY <1>4 DEF Message
<1>6. /\ messages' = Append(messages, m)
      /\ posted' = Append(posted, m)
      /\ UNCHANGED <<pc, pasteBacklog, pasteOffset, ptyVars, childRead, dropped>>
  BY DEF post
<1> HIDE DEF m
<1>7. /\ messages' \in Seq(Message) /\ posted' \in Seq(Message)
      /\ Len(messages') = Len(messages) + 1
      /\ messages'[Len(messages) + 1] = m
      /\ \A i \in 1..Len(messages) : messages'[i] = messages[i]
  BY <1>1, <1>5, <1>6, AppendProperties
<1>8. TypeOK'
  BY <1>6, <1>7 DEF WInv, TypeOK, ptyVars
<1>9. NoEmptyMessage'
  <2> SUFFICES ASSUME NEW i \in 1..Len(messages')
               PROVE  messages'[i].data # <<>>
    BY DEF NoEmptyMessage
  <2>1. CASE i = Len(messages) + 1
    BY <1>4, <1>7, <2>1
  <2>2. CASE i # Len(messages) + 1
    <3>1. i \in 1..Len(messages)
      BY <1>1, <1>7, <2>2
    <3> QED
      BY <1>1, <1>7, <3>1 DEF NoEmptyMessage
  <2> QED
    BY <2>1, <2>2
<1>10. InputHasTrigger' /\ BacklogReset'
  <2>1. InputHasTrigger /\ BacklogReset
    BY DEF WInv
  <2>2. /\ pc' = pc /\ pasteBacklog' = pasteBacklog /\ pasteOffset' = pasteOffset
        /\ pendingWrite' = pendingWrite /\ writeArmed' = writeArmed
    BY <1>6 DEF ptyVars
  <2> QED
    BY <2>1, <2>2, Zenon DEF InputHasTrigger, BacklogReset, feeding
<1> QED
  BY <1>8, <1>9, <1>10 DEF WInv

\* The child reads; nothing of the program's own state changes.
LEMMA ChildReadStep ==
    ASSUME WInv, ChildRead
    PROVE  WInv'
<1>1. /\ messages' = messages /\ posted' = posted /\ pc' = pc
      /\ pasteBacklog' = pasteBacklog /\ pasteOffset' = pasteOffset
      /\ pendingWrite' = pendingWrite /\ writeArmed' = writeArmed
      /\ delivered' = delivered /\ faults' = faults /\ lost' = lost
      /\ dropped' = dropped
  BY DEF ChildRead, streamVars, ptyVars
<1>2. /\ delivered \in Seq(Units) /\ Len(delivered) \in Nat
      /\ childRead \in 0..Len(delivered)
  BY LenProperties DEF WInv, TypeOK
<1>3. childRead' \in 0..Len(delivered)
  BY <1>2 DEF ChildRead
<1>4. TypeOK'
  BY <1>1, <1>3 DEF WInv, TypeOK
<1>5. NoEmptyMessage' /\ InputHasTrigger' /\ BacklogReset'
  BY <1>1, Zenon DEF WInv, NoEmptyMessage, InputHasTrigger, BacklogReset, feeding
<1> QED
  BY <1>4, <1>5 DEF WInv

\* What an idle worker's offset is: within the backlog.
LEMMA OffsetWithin ==
    ASSUME WInv, pc = "idle"
    PROVE  pasteOffset \in 0..Len(pasteBacklog)
<1>1. /\ pasteBacklog \in Seq(Units) /\ Len(pasteBacklog) \in Nat
      /\ pasteOffset \in Nat /\ BacklogReset
  BY LenProperties DEF WInv, TypeOK
<1>2. CASE feeding
  BY <1>1, <1>2 DEF feeding
<1>3. CASE ~feeding
  BY <1>1, <1>3 DEF BacklogReset
<1> QED
  BY <1>2, <1>3

-----------------------------------------------------------------------------
\* The worker takes the next message off its queue.
LEMMA NextMessage ==
    ASSUME TypeOK, posted # <<>>
    PROVE  Head(posted).data \in Seq(Units) /\ Tail(posted) \in Seq(Message)
<1>1. Head(posted) \in Message /\ Tail(posted) \in Seq(Message)
  BY HeadTailProperties DEF TypeOK
<1> QED
  BY <1>1 DEF Message

\* VtStream::write behind a paste.
LEMMA WriteBehindStep ==
    ASSUME WInv, writeBehindPaste
    PROVE  WInv'
<1>1. TypeOK /\ InputHasTrigger /\ feeding /\ pc = "idle" /\ posted # <<>>
  BY DEF WInv, writeBehindPaste
<1>2. /\ pasteBacklog' = pasteBacklog \o Head(posted).data
      /\ posted' = Tail(posted)
      /\ messages' = messages /\ pc' = pc /\ pasteOffset' = pasteOffset
      /\ pendingWrite' = pendingWrite /\ writeArmed' = writeArmed
      /\ delivered' = delivered /\ faults' = faults /\ lost' = lost
      /\ childRead' = childRead /\ dropped' = dropped
  BY DEF writeBehindPaste, ptyVars
<1>3. /\ Head(posted).data \in Seq(Units) /\ Tail(posted) \in Seq(Message)
      /\ pasteBacklog \in Seq(Units) /\ pasteOffset \in Nat
  BY <1>1, NextMessage DEF TypeOK
<1>4. /\ pasteBacklog' \in Seq(Units)
      /\ Len(pasteBacklog') >= Len(pasteBacklog)
      /\ Len(pasteBacklog') \in Nat /\ Len(pasteBacklog) \in Nat
  BY <1>2, <1>3, ConcatProperties, LenProperties
<1>5. TypeOK'
  BY <1>1, <1>2, <1>3, <1>4 DEF TypeOK
<1>6. feeding'
  BY <1>1, <1>2, <1>3, <1>4 DEF feeding
<1>7. InputHasTrigger'
  BY <1>1, <1>2, Zenon DEF InputHasTrigger
<1>8. NoEmptyMessage' /\ BacklogReset'
  BY <1>2, <1>6, Zenon DEF WInv, NoEmptyMessage, BacklogReset
<1> QED
  BY <1>5, <1>7, <1>8 DEF WInv

\* VtStream::write straight to the Pty: the backlog is empty before and after.
LEMMA WriteKeyStep ==
    ASSUME WInv, writeKey
    PROVE  WInv'
<1>1. /\ TypeOK /\ InputHasTrigger /\ BacklogReset /\ ~feeding
      /\ pc = "idle" /\ posted # <<>>
  BY DEF WInv, writeKey
<1>2. pasteBacklog = <<>> /\ pasteOffset = 0
  BY <1>1 DEF BacklogReset
<1>3. /\ Head(posted).data \in Seq(Units) /\ Tail(posted) \in Seq(Message)
  BY <1>1, NextMessage
<1>4. pasteOffset \in 0..Len(pasteBacklog)
  BY <1>1, OffsetWithin
<1>5. write(Head(posted).data, pasteOffset)
  BY DEF writeKey
<1>6. writeArmed <=> pendingWrite # <<>>
  BY <1>1, Zenon DEF InputHasTrigger
<1>7. /\ pendingWrite' \in Seq(Units) /\ Len(pendingWrite') <= MaxPending
      /\ writeArmed' \in BOOLEAN
      /\ writeArmed' <=> pendingWrite' # <<>>
      /\ delivered' \in Seq(Units) /\ Len(delivered') >= Len(delivered)
      /\ faults' \in 0..MaxFaults
      /\ lost' \subseteq Units /\ dropped' \subseteq Units
      /\ pasteBacklog' = <<>>
  BY <1>1, <1>2, <1>3, <1>4, <1>5, <1>6, WriteStep
<1>8. /\ messages' = messages /\ posted' = Tail(posted) /\ pc' = pc
      /\ childRead' = childRead /\ pasteOffset' = 0
  BY <1>2 DEF writeKey
<1>9. TypeOK'
  <2>1. childRead' \in 0..Len(delivered')
    BY <1>1, <1>7, <1>8, LenProperties DEF TypeOK
  <2>2. /\ messages' \in Seq(Message) /\ posted' \in Seq(Message)
        /\ pc' \in {"idle", "feed"}
        /\ pasteBacklog' \in Seq(Units) /\ pasteOffset' \in Nat
    BY <1>1, <1>3, <1>7, <1>8, EmptySeq DEF TypeOK
  <2> QED
    BY <1>7, <2>1, <2>2, Zenon DEF TypeOK
<1>10. ~feeding'
  BY <1>7, <1>8, EmptySeq DEF feeding
<1>11. InputHasTrigger'
  BY <1>7, <1>10, Zenon DEF InputHasTrigger
<1>12. NoEmptyMessage' /\ BacklogReset'
  BY <1>7, <1>8, Zenon DEF WInv, NoEmptyMessage, BacklogReset
<1> QED
  BY <1>9, <1>11, <1>12 DEF WInv

\* VtStream::writePaste, up to its call of feedPaste.
LEMMA WritePasteStep ==
    ASSUME WInv, writePaste
    PROVE  WInv'
<1>1. TypeOK /\ InputHasTrigger /\ posted # <<>>
  BY DEF WInv, writePaste
<1>2. /\ pasteBacklog' = pasteBacklog \o Head(posted).data
      /\ posted' = Tail(posted) /\ pc' = "feed"
      /\ messages' = messages /\ pasteOffset' = pasteOffset
      /\ pendingWrite' = pendingWrite /\ writeArmed' = writeArmed
      /\ delivered' = delivered /\ faults' = faults /\ lost' = lost
      /\ childRead' = childRead /\ dropped' = dropped
  BY DEF writePaste, ptyVars
<1>3. /\ Head(posted).data \in Seq(Units) /\ Tail(posted) \in Seq(Message)
      /\ pasteBacklog \in Seq(Units)
  BY <1>1, NextMessage DEF TypeOK
<1>4. pasteBacklog' \in Seq(Units)
  BY <1>2, <1>3, ConcatProperties
<1>5. TypeOK'
  BY <1>1, <1>2, <1>3, <1>4 DEF TypeOK
<1>6. pc' # "idle"
  BY <1>2
<1>7. InputHasTrigger'
  BY <1>1, <1>2, <1>6, Zenon DEF InputHasTrigger
<1>8. NoEmptyMessage' /\ BacklogReset'
  BY <1>2, <1>6, Zenon DEF WInv, NoEmptyMessage, BacklogReset
<1> QED
  BY <1>5, <1>7, <1>8 DEF WInv

\* One slice of feedPaste.
LEMMA FeedSliceStep ==
    ASSUME WInv, feedSlice
    PROVE  WInv'
<1> DEFINE left  == Len(pasteBacklog) - pasteOffset
           slice == sliceOf(left)
           data  == SubSeq(pasteBacklog, pasteOffset + 1, pasteOffset + slice)
<1>1. /\ TypeOK /\ InputHasTrigger /\ feeding /\ pc = "feed"
      /\ pasteBacklog \in Seq(Units) /\ Len(pasteBacklog) \in Nat
      /\ pasteOffset \in Nat
  BY LenProperties DEF WInv, TypeOK, feedSlice
<1>2. SliceUnits \in Nat
  BY WriteAssumption
<1>3. left \in Nat
  BY <1>1 DEF feeding
<1>4. slice \in Nat /\ slice <= left
  BY <1>2, <1>3 DEF sliceOf
<1>5. /\ write(data, pasteOffset + slice)
      /\ pasteOffset' = (IF wasLost THEN 0 ELSE pasteOffset) + slice
      /\ messages' = messages /\ posted' = posted /\ pc' = pc
      /\ childRead' = childRead
  BY DEF feedSlice
<1> HIDE DEF slice
<1>6. pasteOffset + slice \in 0..Len(pasteBacklog)
  BY <1>1, <1>4
<1>7. data \in Seq(Units)
  BY <1>1, <1>4, <1>6, FirstFacts
<1> HIDE DEF data
<1>8. writeArmed <=> pendingWrite # <<>>
  BY <1>1, Zenon DEF InputHasTrigger
<1>9. /\ pendingWrite' \in Seq(Units) /\ Len(pendingWrite') <= MaxPending
      /\ writeArmed' \in BOOLEAN
      /\ writeArmed' <=> pendingWrite' # <<>>
      /\ delivered' \in Seq(Units) /\ Len(delivered') >= Len(delivered)
      /\ faults' \in 0..MaxFaults
      /\ lost' \subseteq Units /\ dropped' \subseteq Units
      /\ pasteBacklog' = pasteBacklog \/ pasteBacklog' = <<>>
  BY <1>1, <1>5, <1>6, <1>7, <1>8, WriteStep
<1>10. TypeOK'
  <2>1. childRead' \in 0..Len(delivered')
    BY <1>1, <1>5, <1>9, LenProperties DEF TypeOK
  <2>2. pasteOffset' \in Nat
    BY <1>1, <1>4, <1>5
  <2>3. pasteBacklog' \in Seq(Units)
    BY <1>1, <1>9, EmptySeq
  <2>4. /\ messages' \in Seq(Message) /\ posted' \in Seq(Message)
        /\ pc' \in {"idle", "feed"}
    BY <1>1, <1>5 DEF TypeOK
  <2> QED
    BY <1>9, <2>1, <2>2, <2>3, <2>4, Zenon DEF TypeOK
<1>11. pc' # "idle"
  BY <1>1, <1>5
<1>12. InputHasTrigger'
  BY <1>9, <1>11, Zenon DEF InputHasTrigger
<1>13. NoEmptyMessage' /\ BacklogReset'
  BY <1>5, <1>11, Zenon DEF WInv, NoEmptyMessage, BacklogReset
<1> QED
  BY <1>10, <1>12, <1>13 DEF WInv

\* The end of feedPaste: it stops because bytes are queued, or because the
\* backlog is used up, and then lets go of it.
LEMMA FeedDoneStep ==
    ASSUME WInv, feedDone
    PROVE  WInv'
<1>1. /\ TypeOK /\ InputHasTrigger
      /\ pasteBacklog \in Seq(Units) /\ Len(pasteBacklog) \in Nat
      /\ pasteOffset \in Nat
  BY LenProperties DEF WInv, TypeOK
<1>2. /\ messages' = messages /\ posted' = posted /\ pc' = "idle"
      /\ pendingWrite' = pendingWrite /\ writeArmed' = writeArmed
      /\ delivered' = delivered /\ faults' = faults /\ lost' = lost
      /\ childRead' = childRead /\ dropped' = dropped
  BY DEF feedDone, ptyVars
<1>3. writeArmed' <=> pendingWrite' # <<>>
  BY <1>1, <1>2, Zenon DEF InputHasTrigger
<1>4. NoEmptyMessage'
  BY <1>2, Zenon DEF WInv, NoEmptyMessage
<1>5. CASE usedUp
  <2>1. pasteBacklog' = <<>> /\ pasteOffset' = 0
    BY <1>5 DEF feedDone
  <2>2. ~feeding'
    BY <2>1, EmptySeq DEF feeding
  <2>3. TypeOK'
    BY <1>1, <1>2, <2>1, EmptySeq DEF TypeOK
  <2>4. InputHasTrigger' /\ BacklogReset'
    BY <1>3, <2>1, <2>2, Zenon DEF InputHasTrigger, BacklogReset
  <2> QED
    BY <1>4, <2>3, <2>4 DEF WInv
<1>6. CASE ~usedUp
  <2>1. pasteBacklog' = pasteBacklog /\ pasteOffset' = pasteOffset
    BY <1>6 DEF feedDone
  <2>2. feeding /\ feeding'
    BY <1>1, <1>6, <2>1 DEF feeding, usedUp
  <2>3. pendingWrite' # <<>>
    BY <1>2, <2>2 DEF feedDone
  <2>4. TypeOK'
    BY <1>1, <1>2, <2>1 DEF TypeOK
  <2>5. InputHasTrigger' /\ BacklogReset'
    BY <1>3, <2>2, <2>3, Zenon DEF InputHasTrigger, BacklogReset
  <2> QED
    BY <1>4, <2>4, <2>5 DEF WInv
<1> QED
  BY <1>5, <1>6

\* Pty::onWriteReady: it drains, stops short, or gives everything up.
LEMMA WriteReadyStep ==
    ASSUME WInv, onWriteReady
    PROVE  WInv'
<1>1. /\ TypeOK /\ InputHasTrigger /\ BacklogReset /\ pc = "idle"
      /\ pendingWrite \in Seq(Units) /\ Len(pendingWrite) \in Nat
      /\ Len(pendingWrite) <= MaxPending
      /\ delivered \in Seq(Units) /\ Len(delivered) \in Nat
      /\ childRead \in 0..Len(delivered) /\ faults \in 0..MaxFaults
      /\ pasteBacklog \in Seq(Units)
      /\ lost \subseteq Units /\ dropped \subseteq Units
  BY LenProperties DEF WInv, TypeOK, onWriteReady
<1>2. PICK k \in 0..Len(pendingWrite), fatal \in BOOLEAN :
        /\ writeSome(pendingWrite, k, fatal)
        /\ IF fatal
           THEN /\ writeLost(Elements(From(pendingWrite, k)), pasteOffset)
                /\ pasteOffset' = 0
                /\ pendingWrite' = <<>>
                /\ writeArmed' = FALSE
                /\ UNCHANGED pc
           ELSE /\ pendingWrite' = From(pendingWrite, k)
                /\ arm(From(pendingWrite, k))
                /\ pc' = IF From(pendingWrite, k) = <<>> THEN "feed" ELSE "idle"
                /\ UNCHANGED <<lost, dropped, pasteBacklog, pasteOffset>>
  BY DEF onWriteReady
<1>3. messages' = messages /\ posted' = posted /\ childRead' = childRead
  BY DEF onWriteReady
<1>4. /\ delivered' \in Seq(Units) /\ Len(delivered') >= Len(delivered)
      /\ faults' \in 0..MaxFaults
  BY <1>1, <1>2, WriteSomeStep
<1>5. /\ childRead' \in 0..Len(delivered')
      /\ messages' \in Seq(Message) /\ posted' \in Seq(Message)
  BY <1>1, <1>3, <1>4, LenProperties DEF TypeOK
<1>6. From(pendingWrite, k) \in Seq(Units) /\ Len(From(pendingWrite, k)) <= MaxPending
  <2>1. /\ From(pendingWrite, k) \in Seq(Units)
        /\ Len(From(pendingWrite, k)) = Len(pendingWrite) - k
    BY <1>1, FromFacts
  <2> QED
    BY <1>1, <2>1, WriteAssumption
<1>7. NoEmptyMessage'
  BY <1>3, Zenon DEF WInv, NoEmptyMessage
<1>8. CASE fatal
  <2>1. /\ writeLost(Elements(From(pendingWrite, k)), pasteOffset)
        /\ pasteOffset' = 0 /\ pendingWrite' = <<>> /\ pc' = pc
    BY <1>2, <1>8
  <2>2. writeArmed' \in BOOLEAN /\ (writeArmed' <=> pendingWrite' # <<>>)
    BY <1>2, <1>8, Zenon
  <2>3. Elements(From(pendingWrite, k)) \in SUBSET Units
    BY <1>6, ElementsIn
  <2>4. pasteOffset \in 0..Len(pasteBacklog)
    BY <1>1, OffsetWithin
  <2>5. lost' \subseteq Units /\ dropped' \subseteq Units /\ pasteBacklog' = <<>>
    BY <1>1, <2>1, <2>3, <2>4, WriteLostStep
  <2>6. /\ pasteBacklog' \in Seq(Units) /\ pasteOffset' \in Nat
        /\ pendingWrite' \in Seq(Units) /\ Len(pendingWrite') <= MaxPending
        /\ pc' \in {"idle", "feed"}
    BY <1>1, <2>1, <2>5, EmptySeq, WriteAssumption
  <2>7. TypeOK'
    BY <1>4, <1>5, <2>2, <2>5, <2>6, Zenon DEF TypeOK
  <2>8. ~feeding'
    BY <2>1, <2>5, EmptySeq DEF feeding
  <2>9. InputHasTrigger' /\ BacklogReset'
    BY <2>1, <2>2, <2>5, <2>8, Zenon DEF InputHasTrigger, BacklogReset
  <2> QED
    BY <1>7, <2>7, <2>9 DEF WInv
<1>9. CASE ~fatal
  <2>1. /\ pendingWrite' = From(pendingWrite, k) /\ arm(From(pendingWrite, k))
        /\ pc' = IF From(pendingWrite, k) = <<>> THEN "feed" ELSE "idle"
        /\ lost' = lost /\ dropped' = dropped /\ pasteBacklog' = pasteBacklog
        /\ pasteOffset' = pasteOffset
    BY <1>2, <1>9
  <2>2. writeArmed' \in BOOLEAN /\ (writeArmed' <=> pendingWrite' # <<>>)
    BY <2>1, Zenon DEF arm
  <2>3. /\ pasteBacklog' \in Seq(Units) /\ pasteOffset' \in Nat
        /\ pendingWrite' \in Seq(Units) /\ Len(pendingWrite') <= MaxPending
        /\ pc' \in {"idle", "feed"}
        /\ lost' \subseteq Units /\ dropped' \subseteq Units
    BY <1>1, <1>6, <2>1 DEF TypeOK
  <2>4. TypeOK'
    BY <1>4, <1>5, <2>2, <2>3, Zenon DEF TypeOK
  <2>5. pc' = "idle" => pendingWrite' # <<>>
    BY <2>1
  <2>6. InputHasTrigger'
    BY <2>2, <2>5, Zenon DEF InputHasTrigger
  <2>7. feeding' <=> feeding
    BY <2>1 DEF feeding
  <2>8. BacklogReset'
    BY <1>1, <2>1, <2>7, Zenon DEF BacklogReset
  <2> QED
    BY <1>7, <2>4, <2>6, <2>8 DEF WInv
<1> QED
  BY <1>8, <1>9

-----------------------------------------------------------------------------
\* Every step of the write path keeps the invariant.
LEMMA NextWInv == WInv /\ [Next]_vars => WInv'
<1> SUFFICES ASSUME WInv, [Next]_vars PROVE WInv'
  OBVIOUS
<1>1. KeySizes \subseteq Nat \ {0} /\ PasteSizes \subseteq Nat \ {0}
  BY WriteAssumption
<1>2. CASE ptyWrite
  BY <1>1, <1>2, PostStep DEF ptyWrite
<1>3. CASE performPaste
  BY <1>1, <1>3, PostStep DEF performPaste
<1>4. CASE ChildRead
  BY <1>4, ChildReadStep
<1>5. CASE onWriteReady
  BY <1>5, WriteReadyStep
<1>6. CASE writeBehindPaste
  BY <1>6, WriteBehindStep
<1>7. CASE writeKey
  BY <1>7, WriteKeyStep
<1>8. CASE writePaste
  BY <1>8, WritePasteStep
<1>9. CASE feedSlice
  BY <1>9, FeedSliceStep
<1>10. CASE feedDone
  BY <1>10, FeedDoneStep
<1>11. CASE UNCHANGED vars
  <2>1. /\ messages' = messages /\ posted' = posted /\ pc' = pc
        /\ pasteBacklog' = pasteBacklog /\ pasteOffset' = pasteOffset
        /\ pendingWrite' = pendingWrite /\ writeArmed' = writeArmed
        /\ delivered' = delivered /\ faults' = faults /\ lost' = lost
        /\ childRead' = childRead /\ dropped' = dropped
    BY <1>11 DEF vars, streamVars, ptyVars
  <2>2. TypeOK'
    BY <2>1 DEF WInv, TypeOK
  <2>3. NoEmptyMessage' /\ InputHasTrigger' /\ BacklogReset'
    BY <2>1, Zenon DEF WInv, NoEmptyMessage, InputHasTrigger, BacklogReset, feeding
  <2> QED
    BY <2>2, <2>3 DEF WInv
<1> QED
  BY <1>2, <1>3, <1>4, <1>5, <1>6, <1>7, <1>8, <1>9, <1>10, <1>11
     DEF Next, Worker

\* The invariant holds in every reachable state of the write path.
THEOREM WriteInvariant == Spec => []WInv
BY InitWInv, NextWInv, PTL DEF Spec

\* Type correctness, the cap of Pty's write queue included.
THEOREM WriteTypeCorrect == Spec => []TypeOK
<1>1. WInv => TypeOK
  BY DEF WInv
<1> QED
  BY <1>1, WriteInvariant, PTL

\* No lost wakeup on the write path: queued bytes keep the notifier armed,
\* and a waiting paste waits for queued bytes (Pty::write, Pty::onWriteReady,
\* VtStream::feedPaste).
THEOREM NoLostWriteWakeup == Spec => []InputHasTrigger
<1>1. WInv => InputHasTrigger
  BY DEF WInv
<1> QED
  BY <1>1, WriteInvariant, PTL

\* VtStream's backlog and offset are reset whenever no paste is being fed,
\* the writeLost that strikes inside feedPaste included.
THEOREM PasteStateReset == Spec => []BacklogReset
<1>1. WInv => BacklogReset
  BY DEF WInv
<1> QED
  BY <1>1, WriteInvariant, PTL

-----------------------------------------------------------------------------
(***************************************************************************)
(* Order and accounting.  FifoOrLost and PasteWhole need to know in        *)
(* addition that the posted messages are the last ones handed in, and that *)
(* messages are numbered one after the other.                              *)
(***************************************************************************)

\* posted is the tail of the history that the worker has still to run.
PostedIsTail ==
    /\ Len(posted) <= Len(messages)
    /\ \A i \in 1..Len(posted) :
          posted[i] = messages[Len(messages) - Len(posted) + i]

\* Units are numbered in the order they are handed in.
Numbered ==
    /\ \A i \in 1..Len(messages) : Elements(messages[i].data) \subseteq 1..handedIn
    /\ \A i, j \in 1..Len(messages) :
          i < j => Before(messages[i].data, messages[j].data)

\* Only what was handed in is ever given up.
GivenUp == lost \cup dropped \subseteq 1..handedIn

FInv == FifoOrLost /\ PostedIsTail /\ Numbered /\ GivenUp /\ PasteWhole

-----------------------------------------------------------------------------
\* The elements of a concatenation.
LEMMA ConcatElements ==
    ASSUME NEW S, NEW s \in Seq(S), NEW t \in Seq(S)
    PROVE  Elements(s \o t) = Elements(s) \cup Elements(t)
<1> DEFINE c == s \o t
<1>1. /\ Len(s) \in Nat /\ Len(t) \in Nat
      /\ Len(c) = Len(s) + Len(t)
      /\ \A i \in 1..Len(s) + Len(t) :
            c[i] = IF i <= Len(s) THEN s[i] ELSE t[i - Len(s)]
  BY ConcatProperties, LenProperties
<1> HIDE DEF c
<1>2. ASSUME NEW i \in 1..Len(c) PROVE c[i] \in Elements(s) \cup Elements(t)
  <2>1. CASE i <= Len(s)
    BY <1>1, <2>1 DEF Elements
  <2>2. CASE ~(i <= Len(s))
    <3>1. i - Len(s) \in 1..Len(t)
      BY <1>1, <2>2
    <3> QED
      BY <1>1, <2>2, <3>1 DEF Elements
  <2> QED
    BY <2>1, <2>2
<1>3. ASSUME NEW i \in 1..Len(s) PROVE s[i] \in Elements(c)
  BY <1>1 DEF Elements
<1>4. ASSUME NEW i \in 1..Len(t) PROVE t[i] \in Elements(c)
  <2>1. Len(s) + i \in 1..Len(c) /\ c[Len(s) + i] = t[i]
    BY <1>1
  <2> QED
    BY <2>1 DEF Elements
<1>5. Elements(c) \subseteq Elements(s) \cup Elements(t)
  BY <1>2 DEF Elements
<1>6. Elements(s) \cup Elements(t) \subseteq Elements(c)
  <2>1. Elements(s) \subseteq Elements(c)
    BY <1>3 DEF Elements
  <2>2. Elements(t) \subseteq Elements(c)
    BY <1>4 DEF Elements
  <2> QED
    BY <2>1, <2>2
<1>7. Elements(c) = Elements(s) \cup Elements(t)
  BY <1>5, <1>6
<1> QED
  BY <1>7 DEF c

\* Only the empty sequence has no elements.
LEMMA ElementsEmpty == Elements(<<>>) = {}
<1>1. Len(<<>>) = 0
  BY EmptySeq
<1> QED
  BY <1>1 DEF Elements

\* Data has a first unit.
LEMMA ElementsNonempty ==
    ASSUME NEW S, NEW s \in Seq(S), Len(s) > 0
    PROVE  Elements(s) # {}
<1>1. 1 \in 1..Len(s)
  BY LenProperties
<1> QED
  BY <1>1 DEF Elements

\* Before, in terms of elements.
LEMMA BeforeElements ==
    ASSUME NEW s, NEW t
    PROVE  Before(s, t) <=> \A u \in Elements(s), v \in Elements(t) : u < v
BY DEF Before, Elements

\* A concatenation ascends when its parts do, one before the other.
LEMMA AscendingConcat ==
    ASSUME NEW s \in Seq(Units), NEW t \in Seq(Units)
    PROVE  Ascending(s \o t) <=> Ascending(s) /\ Ascending(t) /\ Before(s, t)
<1> DEFINE c == s \o t
<1>1. /\ Len(s) \in Nat /\ Len(t) \in Nat
      /\ Len(c) = Len(s) + Len(t)
      /\ \A i \in 1..Len(s) + Len(t) :
            c[i] = IF i <= Len(s) THEN s[i] ELSE t[i - Len(s)]
  BY ConcatProperties, LenProperties
<1> HIDE DEF c
<1>2. \A i \in 1..Len(s) : i \in 1..Len(c) /\ c[i] = s[i]
  BY <1>1
<1>3. ASSUME NEW i \in 1..Len(t)
      PROVE  Len(s) + i \in 1..Len(c) /\ c[Len(s) + i] = t[i]
  BY <1>1
<1>4. ASSUME Ascending(c) PROVE Ascending(s) /\ Ascending(t) /\ Before(s, t)
  <2>1. Ascending(s)
    BY <1>2, <1>4 DEF Ascending
  <2>2. Ascending(t)
    <3> SUFFICES ASSUME NEW i \in 1..Len(t), NEW j \in 1..Len(t), i < j
                 PROVE  t[i] < t[j]
      BY DEF Ascending
    <3>1. Len(s) + i < Len(s) + j
      BY <1>1
    <3> QED
      BY <1>3, <1>4, <3>1 DEF Ascending
  <2>3. Before(s, t)
    <3> SUFFICES ASSUME NEW i \in 1..Len(s), NEW j \in 1..Len(t)
                 PROVE  s[i] < t[j]
      BY DEF Before
    <3>1. i < Len(s) + j
      BY <1>1
    <3> QED
      BY <1>2, <1>3, <1>4, <3>1 DEF Ascending
  <2> QED
    BY <2>1, <2>2, <2>3
<1>5. ASSUME Ascending(s), Ascending(t), Before(s, t) PROVE Ascending(c)
  <2> SUFFICES ASSUME NEW i \in 1..Len(c), NEW j \in 1..Len(c), i < j
               PROVE  c[i] < c[j]
    BY DEF Ascending
  <2>1. CASE j <= Len(s)
    <3>1. i \in 1..Len(s) /\ j \in 1..Len(s) /\ c[i] = s[i] /\ c[j] = s[j]
      BY <1>1, <2>1
    <3> QED
      BY <1>5, <3>1 DEF Ascending
  <2>2. CASE i > Len(s)
    <3>1. /\ i - Len(s) \in 1..Len(t) /\ j - Len(s) \in 1..Len(t)
          /\ i - Len(s) < j - Len(s)
          /\ c[i] = t[i - Len(s)] /\ c[j] = t[j - Len(s)]
      BY <1>1, <2>2
    <3> QED
      BY <1>5, <3>1 DEF Ascending
  <2>3. CASE i <= Len(s) /\ j > Len(s)
    <3>1. /\ i \in 1..Len(s) /\ j - Len(s) \in 1..Len(t)
          /\ c[i] = s[i] /\ c[j] = t[j - Len(s)]
      BY <1>1, <2>3
    <3> QED
      BY <1>5, <3>1 DEF Before
  <2> QED
    BY <1>1, <2>1, <2>2, <2>3
<1>6. Ascending(c) <=> Ascending(s) /\ Ascending(t) /\ Before(s, t)
  BY <1>4, <1>5
<1> QED
  BY <1>6 DEF c

\* Cutting a sequence in two.
LEMMA CutAt ==
    ASSUME NEW S, NEW s \in Seq(S), NEW k \in 0..Len(s)
    PROVE  SubSeq(s, 1, k) \o From(s, k) = s
<1>1. Len(s) \in Nat
  BY LenProperties
<1>2. 1 \in 1..Len(s) + 1 /\ k \in 1 - 1..Len(s) /\ Len(s) \in k..Len(s)
  BY <1>1
<1>3. SubSeq(s, 1, k) \o SubSeq(s, k + 1, Len(s)) = SubSeq(s, 1, Len(s))
  BY <1>2, ConcatAdjacentSubSeq
<1>4. SubSeq(s, 1, Len(s)) = s
  BY SubSeqFull
<1> QED
  BY <1>3, <1>4 DEF From

\* The messages the worker has not taken carry sequences of units.
LEMMA MessageData ==
    ASSUME NEW ms \in Seq(Message), NEW i \in 1..Len(ms)
    PROVE  ms[i] \in Message /\ ms[i].data \in Seq(Units)
<1>1. ms[i] \in Message
  BY ElementOfSeq
<1> QED
  BY <1>1 DEF Message

\* What a queue of messages carries: its first message and the others.
LEMMA CarriedTail ==
    ASSUME NEW ms \in Seq(Message), ms # <<>>
    PROVE  Carried(ms) = Elements(Head(ms).data) \cup Carried(Tail(ms))
<1>1. /\ Len(ms) \in Nat \ {0} /\ Len(Tail(ms)) = Len(ms) - 1
      /\ \A i \in 1..Len(Tail(ms)) : Tail(ms)[i] = ms[i + 1]
  BY HeadTailProperties, EmptySeq
<1>2. Head(ms) = ms[1]
  BY <1>1
<1>3. ASSUME NEW u \in Carried(ms)
      PROVE  u \in Elements(Head(ms).data) \cup Carried(Tail(ms))
  <2>1. PICK i \in 1..Len(ms) : u \in Elements(ms[i].data)
    BY DEF Carried
  <2>2. CASE i = 1
    BY <1>2, <2>1, <2>2
  <2>3. CASE i # 1
    <3>1. i - 1 \in 1..Len(Tail(ms)) /\ Tail(ms)[i - 1] = ms[i]
      BY <1>1, <2>3
    <3> QED
      BY <2>1, <3>1 DEF Carried
  <2> QED
    BY <2>2, <2>3
<1>4. Elements(Head(ms).data) \subseteq Carried(ms)
  <2>1. 1 \in 1..Len(ms)
    BY <1>1
  <2> QED
    BY <1>2, <2>1 DEF Carried
<1>5. ASSUME NEW u \in Carried(Tail(ms)) PROVE u \in Carried(ms)
  <2>1. PICK i \in 1..Len(Tail(ms)) : u \in Elements(Tail(ms)[i].data)
    BY DEF Carried
  <2>2. i + 1 \in 1..Len(ms) /\ Tail(ms)[i] = ms[i + 1]
    BY <1>1
  <2> QED
    BY <2>1, <2>2 DEF Carried
<1> QED
  BY <1>3, <1>4, <1>5

\* A message more at the end.
LEMMA CarriedAppend ==
    ASSUME NEW ms \in Seq(Message), NEW m \in Message
    PROVE  Carried(Append(ms, m)) = Carried(ms) \cup Elements(m.data)
<1> DEFINE ns == Append(ms, m)
<1>1. /\ Len(ms) \in Nat /\ Len(ns) = Len(ms) + 1
      /\ \A i \in 1..Len(ms) : ns[i] = ms[i]
      /\ ns[Len(ms) + 1] = m
  BY AppendProperties, LenProperties
<1> HIDE DEF ns
<1>2. ASSUME NEW u \in Carried(ns) PROVE u \in Carried(ms) \cup Elements(m.data)
  <2>1. PICK i \in 1..Len(ns) : u \in Elements(ns[i].data)
    BY DEF Carried
  <2>2. CASE i = Len(ms) + 1
    BY <1>1, <2>1, <2>2
  <2>3. CASE i # Len(ms) + 1
    <3>1. i \in 1..Len(ms) /\ ns[i] = ms[i]
      BY <1>1, <2>3
    <3> QED
      BY <2>1, <3>1 DEF Carried
  <2> QED
    BY <2>2, <2>3
<1>3. ASSUME NEW u \in Carried(ms) PROVE u \in Carried(ns)
  <2>1. PICK i \in 1..Len(ms) : u \in Elements(ms[i].data)
    BY DEF Carried
  <2>2. i \in 1..Len(ns) /\ ns[i] = ms[i]
    BY <1>1
  <2> QED
    BY <2>1, <2>2 DEF Carried
<1>4. Elements(m.data) \subseteq Carried(ns)
  <2>1. Len(ms) + 1 \in 1..Len(ns)
    BY <1>1
  <2> QED
    BY <1>1, <2>1 DEF Carried
<1>5. Carried(ns) = Carried(ms) \cup Elements(m.data)
  BY <1>2, <1>3, <1>4
<1> QED
  BY <1>5 DEF ns

-----------------------------------------------------------------------------
(* The three ways in which a step moves units along.                       *)

\* The end b of what is outgoing is given up, or nothing is (b empty).
LEMMA GiveUpEnd ==
    ASSUME TypeOK, FifoOrLost, GivenUp, NEW a \in Seq(Units), NEW b \in Seq(Units),
           outgoing = a \o b, outgoing' = a,
           posted' = posted, messages' = messages,
           lost' \cup dropped' = (lost \cup dropped) \cup Elements(b),
           dropped' # {} => lost' # {}
    PROVE  FifoOrLost' /\ GivenUp'
<1>1. handedIn' = handedIn
  BY DEF handedIn
<1>2. Ascending(a) /\ Before(a, b)
  BY AscendingConcat DEF FifoOrLost
<1>3. Elements(outgoing) = Elements(a) \cup Elements(b)
  BY ConcatElements
<1>4. Elements(a) \cap Elements(b) = {}
  <2>1. \A u \in Elements(a) : u \in Nat
    BY ElementsIn, WriteAssumption DEF Units
  <2> QED
    BY <1>2, <2>1, BeforeElements
<1>5. ASSUME NEW i \in 1..Len(posted) PROVE Before(a, posted[i].data)
  <2>1. Before(outgoing, posted[i].data)
    BY DEF FifoOrLost, PostedBehind
  <2> QED
    BY <1>3, <2>1, BeforeElements
<1>6. Elements(b) \cap Carried(posted) = {}
  <2> SUFFICES ASSUME NEW u \in Elements(b), u \in Carried(posted) PROVE FALSE
    OBVIOUS
  <2>1. PICK i \in 1..Len(posted) : u \in Elements(posted[i].data)
    BY DEF Carried
  <2>2. Before(outgoing, posted[i].data)
    BY DEF FifoOrLost, PostedBehind
  <2>3. u < u
    BY <1>3, <2>1, <2>2, BeforeElements
  <2>4. u \in Nat
    BY ElementsIn, WriteAssumption DEF Units
  <2> QED
    BY <2>3, <2>4
<1>7. PostedBehind'
  BY <1>5 DEF FifoOrLost, PostedBehind
<1>8. Elements(a) \cup Carried(posted) = (1..handedIn) \ (lost' \cup dropped')
  <2>1. Elements(outgoing) \cup Carried(posted) = (1..handedIn) \ (lost \cup dropped)
    BY DEF FifoOrLost
  <2> QED
    BY <1>3, <1>4, <1>6, <2>1
<1>9. GivenUp'
  BY <1>1, <1>3 DEF FifoOrLost, GivenUp
<1> QED
  BY <1>1, <1>2, <1>7, <1>8, <1>9 DEF FifoOrLost

\* The worker takes the first posted message, hands on its beginning a and
\* gives its end b up.
LEMMA TakeFirst ==
    ASSUME TypeOK, FifoOrLost, GivenUp, posted # <<>>,
           NEW a \in Seq(Units), NEW b \in Seq(Units), Head(posted).data = a \o b,
           outgoing \in Seq(Units), outgoing' = outgoing \o a,
           posted' = Tail(posted), messages' = messages,
           lost' \cup dropped' = (lost \cup dropped) \cup Elements(b),
           dropped' # {} => lost' # {}
    PROVE  FifoOrLost' /\ GivenUp'
<1>1. handedIn' = handedIn
  BY DEF handedIn
<1>2. /\ posted \in Seq(Message) /\ Len(posted) \in Nat \ {0}
      /\ Len(Tail(posted)) = Len(posted) - 1
      /\ \A i \in 1..Len(Tail(posted)) : Tail(posted)[i] = posted[i + 1]
      /\ Head(posted) = posted[1]
  BY HeadTailProperties, EmptySeq DEF TypeOK
<1>3. /\ Ascending(a \o b) /\ Before(outgoing, a \o b)
  <2>1. 1 \in 1..Len(posted)
    BY <1>2
  <2> QED
    BY <1>2, <2>1 DEF FifoOrLost, PostedBehind
<1>4. Ascending(a) /\ Before(a, b)
  BY <1>3, AscendingConcat
<1>5. Elements(a \o b) = Elements(a) \cup Elements(b)
  BY ConcatElements
<1>6. Before(outgoing, a) /\ Before(outgoing, b)
  BY <1>3, <1>5, BeforeElements
<1>7. Ascending(outgoing')
  BY <1>4, <1>6, AscendingConcat DEF FifoOrLost
<1>8. Elements(outgoing') = Elements(outgoing) \cup Elements(a)
  BY ConcatElements
<1>9. ASSUME NEW i \in 1..Len(Tail(posted))
      PROVE  Ascending(Tail(posted)[i].data) /\ Before(outgoing', Tail(posted)[i].data)
             /\ Before(a \o b, Tail(posted)[i].data)
  <2>1. i + 1 \in 1..Len(posted) /\ Tail(posted)[i] = posted[i + 1]
    BY <1>2
  <2>2. Ascending(posted[i + 1].data) /\ Before(outgoing, posted[i + 1].data)
    BY <2>1 DEF FifoOrLost, PostedBehind
  <2>3. Before(a \o b, posted[i + 1].data)
    <3>1. 1 \in 1..Len(posted) /\ 1 < i + 1
      BY <1>2
    <3>2. Before(posted[1].data, posted[i + 1].data)
      BY <2>1, <3>1 DEF FifoOrLost, PostedBehind
    <3> QED
      BY <1>2, <3>2
  <2>4. Before(outgoing', posted[i + 1].data)
    BY <1>5, <1>8, <2>2, <2>3, BeforeElements
  <2> QED
    BY <2>1, <2>2, <2>3, <2>4
<1>10. ASSUME NEW i \in 1..Len(Tail(posted)), NEW j \in 1..Len(Tail(posted)), i < j
       PROVE  Before(Tail(posted)[i].data, Tail(posted)[j].data)
  <2>1. /\ i + 1 \in 1..Len(posted) /\ Tail(posted)[i] = posted[i + 1]
        /\ j + 1 \in 1..Len(posted) /\ Tail(posted)[j] = posted[j + 1]
        /\ i + 1 < j + 1
    BY <1>2, <1>10
  <2> QED
    BY <2>1 DEF FifoOrLost, PostedBehind
<1>11. PostedBehind'
  BY <1>9, <1>10 DEF PostedBehind
<1>12. Elements(outgoing') \cup Carried(posted') = (1..handedIn') \ (lost' \cup dropped')
  <2>1. Carried(posted) = (Elements(a) \cup Elements(b)) \cup Carried(Tail(posted))
    BY <1>2, <1>5, CarriedTail
  <2>2. Elements(outgoing) \cup Carried(posted) = (1..handedIn) \ (lost \cup dropped)
    BY DEF FifoOrLost
  <2>3. \A u \in Elements(b) : u \in Nat
    BY ElementsIn, WriteAssumption DEF Units
  <2>4. Elements(b) \cap Elements(outgoing) = {}
    BY <1>6, <2>3, BeforeElements
  <2>5. Elements(b) \cap Elements(a) = {}
    BY <1>4, <2>3, BeforeElements
  <2>6. Elements(b) \cap Carried(Tail(posted)) = {}
    <3> SUFFICES ASSUME NEW u \in Elements(b), u \in Carried(Tail(posted)) PROVE FALSE
      OBVIOUS
    <3>1. PICK i \in 1..Len(Tail(posted)) : u \in Elements(Tail(posted)[i].data)
      BY DEF Carried
    <3>2. u < u
      BY <1>5, <1>9, <3>1, BeforeElements
    <3> QED
      BY <2>3, <3>2
  <2> QED
    BY <1>1, <1>8, <2>1, <2>2, <2>4, <2>5, <2>6
<1>13. GivenUp'
  <2>1. Elements(b) \subseteq Carried(posted)
    BY <1>2, <1>5, CarriedTail
  <2> QED
    BY <1>1, <2>1 DEF FifoOrLost, GivenUp
<1> QED
  BY <1>7, <1>11, <1>12, <1>13 DEF FifoOrLost

\* The GUI posts a message m, numbered from where it had got to.
LEMMA PostKeepsFifo ==
    ASSUME WInv, FInv, NEW kind \in {"key", "paste"}, NEW n \in Nat \ {0}, post(kind, n)
    PROVE  FInv'
<1> DEFINE m == [kind |-> kind, data |-> [i \in 1..n |-> handedIn + i]]
<1>1. /\ messages' = Append(messages, m) /\ posted' = Append(posted, m)
      /\ pasteBacklog' = pasteBacklog /\ pasteOffset' = pasteOffset
      /\ pendingWrite' = pendingWrite /\ delivered' = delivered
      /\ faults' = faults /\ lost' = lost /\ dropped' = dropped
      /\ handedIn + n <= MaxUnits
  BY DEF post, ptyVars
<1>2. /\ TypeOK /\ handedIn \in Nat
      /\ messages \in Seq(Message) /\ Len(messages) \in Nat
      /\ posted \in Seq(Message) /\ Len(posted) \in Nat
  BY HandedInNat, LenProperties DEF WInv, TypeOK
<1>3. /\ m.data \in Seq(Units) /\ Len(m.data) = n
      /\ \A i \in 1..n : m.data[i] = handedIn + i
  <2>1. [i \in 1..n |-> handedIn + i] \in [1..n -> Units]
    BY <1>1, <1>2, WriteAssumption DEF Units
  <2> QED
    BY <2>1
<1>4. m \in Message /\ m.kind = kind
  BY <1>3 DEF Message
<1> HIDE DEF m
<1>5. /\ Len(messages') = Len(messages) + 1
      /\ messages'[Len(messages) + 1] = m
      /\ \A i \in 1..Len(messages) : messages'[i] = messages[i]
      /\ Len(posted') = Len(posted) + 1
      /\ posted'[Len(posted) + 1] = m
      /\ \A i \in 1..Len(posted) : posted'[i] = posted[i]
      /\ messages' # <<>>
  BY <1>1, <1>2, <1>4, AppendProperties
<1>6. handedIn' = handedIn + n
  <2>1. handedIn' = m.data[Len(m.data)]
    BY <1>2, <1>5 DEF handedIn
  <2> QED
    BY <1>3, <2>1
<1>7. Elements(m.data) = (handedIn + 1)..(handedIn + n)
  <2>1. \A u \in (handedIn + 1)..(handedIn + n) :
           u - handedIn \in 1..n /\ m.data[u - handedIn] = u
    BY <1>2, <1>3
  <2>2. (handedIn + 1)..(handedIn + n) \subseteq Elements(m.data)
    BY <1>3, <2>1 DEF Elements
  <2>3. \A i \in 1..n : m.data[i] \in (handedIn + 1)..(handedIn + n)
    BY <1>2, <1>3
  <2>4. Elements(m.data) \subseteq (handedIn + 1)..(handedIn + n)
    BY <1>3, <2>3 DEF Elements
  <2> QED
    BY <2>2, <2>4
<1>8. ASSUME NEW s, Elements(s) \subseteq 1..handedIn PROVE Before(s, m.data)
  <2>1. \A u \in Elements(s), v \in Elements(m.data) : u < v
    BY <1>2, <1>7, <1>8
  <2> QED
    BY <2>1, BeforeElements
<1>9. outgoing' = outgoing
  BY <1>1 DEF outgoing
<1>10. Elements(outgoing) \cup Carried(posted) = (1..handedIn) \ (lost \cup dropped)
  BY DEF FInv, FifoOrLost
<1>11. \A i \in 1..Len(posted) : Elements(posted[i].data) \subseteq 1..handedIn
  BY <1>10 DEF Carried
<1>12. PostedBehind'
  <2>1. ASSUME NEW i \in 1..Len(posted')
        PROVE  Ascending(posted'[i].data) /\ Before(outgoing', posted'[i].data)
    <3>1. CASE i = Len(posted) + 1
      <4>1. Ascending(m.data)
        BY <1>2, <1>3 DEF Ascending
      <4>2. Before(outgoing, m.data)
        BY <1>8, <1>10
      <4> QED
        BY <1>5, <1>9, <3>1, <4>1, <4>2
    <3>2. CASE i # Len(posted) + 1
      <4>1. i \in 1..Len(posted) /\ posted'[i] = posted[i]
        BY <1>2, <1>5, <3>2
      <4> QED
        BY <1>9, <4>1 DEF FInv, FifoOrLost, PostedBehind
    <3> QED
      BY <3>1, <3>2
  <2>2. ASSUME NEW i \in 1..Len(posted'), NEW j \in 1..Len(posted'), i < j
        PROVE  Before(posted'[i].data, posted'[j].data)
    <3>1. i \in 1..Len(posted) /\ posted'[i] = posted[i]
      BY <1>2, <1>5, <2>2
    <3>2. CASE j = Len(posted) + 1
      BY <1>5, <1>8, <1>11, <3>1, <3>2
    <3>3. CASE j # Len(posted) + 1
      <4>1. j \in 1..Len(posted) /\ posted'[j] = posted[j]
        BY <1>2, <1>5, <3>3
      <4> QED
        BY <2>2, <3>1, <4>1 DEF FInv, FifoOrLost, PostedBehind
    <3> QED
      BY <3>2, <3>3
  <2> QED
    BY <2>1, <2>2 DEF PostedBehind
<1>13. FifoOrLost'
  <2>1. Carried(posted') = Carried(posted) \cup Elements(m.data)
    BY <1>1, <1>2, <1>4, CarriedAppend
  <2>2. (1..handedIn + n) \ (lost \cup dropped)
           = ((1..handedIn) \ (lost \cup dropped)) \cup (handedIn + 1)..(handedIn + n)
    BY <1>2 DEF FInv, GivenUp
  <2>3. Elements(outgoing') \cup Carried(posted') = (1..handedIn') \ (lost' \cup dropped')
    BY <1>1, <1>6, <1>7, <1>9, <1>10, <2>1, <2>2
  <2> QED
    BY <1>1, <1>9, <1>12, <2>3 DEF FInv, FifoOrLost
<1>14. PostedIsTail'
  <2> SUFFICES ASSUME NEW i \in 1..Len(posted')
               PROVE  posted'[i] = messages'[Len(messages') - Len(posted') + i]
    BY <1>2, <1>5 DEF FInv, PostedIsTail
  <2>1. Len(messages') - Len(posted') = Len(messages) - Len(posted)
    BY <1>2, <1>5
  <2>2. Len(posted) <= Len(messages)
    BY DEF FInv, PostedIsTail
  <2>3. CASE i = Len(posted) + 1
    <3>1. Len(messages) - Len(posted) + i = Len(messages) + 1
      BY <1>2, <2>3
    <3> QED
      BY <1>5, <2>1, <2>3, <3>1
  <2>4. CASE i # Len(posted) + 1
    <3>1. i \in 1..Len(posted) /\ posted'[i] = posted[i]
      BY <1>2, <1>5, <2>4
    <3>2. posted[i] = messages[Len(messages) - Len(posted) + i]
      BY <3>1 DEF FInv, PostedIsTail
    <3>3. Len(messages) - Len(posted) + i \in 1..Len(messages)
      BY <1>2, <2>2, <3>1
    <3> QED
      BY <1>5, <2>1, <3>1, <3>2, <3>3
  <2> QED
    BY <2>3, <2>4
<1>15. Numbered'
  <2>1. ASSUME NEW i \in 1..Len(messages')
        PROVE  Elements(messages'[i].data) \subseteq 1..handedIn'
    <3>1. CASE i = Len(messages) + 1
      BY <1>2, <1>5, <1>6, <1>7, <3>1
    <3>2. CASE i # Len(messages) + 1
      <4>1. i \in 1..Len(messages) /\ messages'[i] = messages[i]
        BY <1>2, <1>5, <3>2
      <4>2. Elements(messages[i].data) \subseteq 1..handedIn
        BY <4>1 DEF FInv, Numbered
      <4> QED
        BY <1>2, <1>6, <4>1, <4>2
    <3> QED
      BY <3>1, <3>2
  <2>2. ASSUME NEW i \in 1..Len(messages'), NEW j \in 1..Len(messages'), i < j
        PROVE  Before(messages'[i].data, messages'[j].data)
    <3>1. i \in 1..Len(messages) /\ messages'[i] = messages[i]
      BY <1>2, <1>5, <2>2
    <3>2. CASE j = Len(messages) + 1
      <4>1. Elements(messages[i].data) \subseteq 1..handedIn
        BY <3>1 DEF FInv, Numbered
      <4> QED
        BY <1>5, <1>8, <3>1, <3>2, <4>1
    <3>3. CASE j # Len(messages) + 1
      <4>1. j \in 1..Len(messages) /\ messages'[j] = messages[j]
        BY <1>2, <1>5, <3>3
      <4> QED
        BY <2>2, <3>1, <4>1 DEF FInv, Numbered
    <3> QED
      BY <3>2, <3>3
  <2> QED
    BY <2>1, <2>2 DEF Numbered
<1>16. GivenUp'
  <2>1. 1..handedIn \subseteq 1..handedIn'
    BY <1>2, <1>6
  <2> QED
    BY <1>1, <2>1 DEF FInv, GivenUp
<1>17. PasteWhole'
  <2> SUFFICES ASSUME faults = 0, NEW i \in 1..Len(messages'), messages'[i].kind = "paste"
               PROVE  dropped = {} /\ lost \cap Elements(messages'[i].data) = {}
    <3>1. faults = 0 => dropped = {}
      BY DEF FInv, PasteWhole
    <3> QED
      BY <1>1, <3>1 DEF PasteWhole
  <2>1. dropped = {}
    BY DEF FInv, PasteWhole
  <2>2. CASE i = Len(messages) + 1
    <3>1. lost \subseteq 1..handedIn
      BY DEF FInv, GivenUp
    <3>2. (1..handedIn) \cap (handedIn + 1)..(handedIn + n) = {}
      BY <1>2
    <3> QED
      BY <1>5, <1>7, <2>1, <2>2, <3>1, <3>2
  <2>3. CASE i # Len(messages) + 1
    <3>1. i \in 1..Len(messages) /\ messages'[i] = messages[i]
      BY <1>2, <1>5, <2>3
    <3> QED
      BY <2>1, <3>1 DEF FInv, PasteWhole
  <2> QED
    BY <2>2, <2>3
<1> QED
  BY <1>13, <1>14, <1>15, <1>16, <1>17 DEF FInv

-----------------------------------------------------------------------------
(* The worker's steps.                                                     *)

\* The end of a longer backlog.
LEMMA FromConcat ==
    ASSUME NEW S, NEW s \in Seq(S), NEW t \in Seq(S), NEW i \in 0..Len(s)
    PROVE  From(s \o t, i) = From(s, i) \o t
<1> DEFINE c == s \o t
           l == From(c, i)
           r == From(s, i) \o t
<1>1. /\ Len(s) \in Nat /\ Len(t) \in Nat
      /\ c \in Seq(S) /\ Len(c) = Len(s) + Len(t)
      /\ \A j \in 1..Len(s) + Len(t) :
            c[j] = IF j <= Len(s) THEN s[j] ELSE t[j - Len(s)]
  BY ConcatProperties, LenProperties
<1>2. /\ From(s, i) \in Seq(S) /\ Len(From(s, i)) = Len(s) - i
      /\ \A j \in 1..Len(s) - i : From(s, i)[j] = s[i + j]
  <2>1. \A j \in (i + 1)..Len(s) : s[j] \in S
    BY <1>1, ElementOfSeq
  <2>2. \A j \in 1..Len(s) - (i + 1) + 1 :
           SubSeq(s, i + 1, Len(s))[j] = s[(i + 1) + j - 1]
    BY <1>1, <2>1, SubSeqProperties
  <2>3. \A j \in 1..Len(s) - i : From(s, i)[j] = s[i + j]
    BY <1>1, <2>2 DEF From
  <2> QED
    BY <2>3, FromFacts
<1>3. /\ r \in Seq(S) /\ Len(r) = Len(s) - i + Len(t)
      /\ \A j \in 1..(Len(s) - i) + Len(t) :
            r[j] = IF j <= Len(s) - i THEN From(s, i)[j] ELSE t[j - (Len(s) - i)]
  <2> DEFINE f == From(s, i)
  <2>1. f \in Seq(S) /\ Len(f) = Len(s) - i
    BY <1>2
  <2> HIDE DEF f
  <2>2. /\ f \o t \in Seq(S) /\ Len(f \o t) = Len(f) + Len(t)
        /\ \A j \in 1..Len(f) + Len(t) :
              (f \o t)[j] = IF j <= Len(f) THEN f[j] ELSE t[j - Len(f)]
    BY <2>1, ConcatProperties
  <2> QED
    BY <2>1, <2>2 DEF f
<1>4. /\ l \in Seq(S) /\ Len(l) = Len(c) - i
      /\ \A j \in 1..Len(c) - i : l[j] = c[i + j]
  <2> HIDE DEF c
  <2>1. \A j \in (i + 1)..Len(c) : c[j] \in S
    BY <1>1, ElementOfSeq
  <2>2. i \in 0..Len(c)
    BY <1>1
  <2>3. \A j \in 1..Len(c) - (i + 1) + 1 :
           SubSeq(c, i + 1, Len(c))[j] = c[(i + 1) + j - 1]
    BY <1>1, <2>1, SubSeqProperties
  <2>4. \A j \in 1..Len(c) - i : l[j] = c[i + j]
    BY <1>1, <2>3 DEF From
  <2> QED
    BY <1>1, <2>2, <2>4, FromFacts
<1> HIDE DEF c, l, r
<1>5. Len(l) = Len(r)
  BY <1>1, <1>3, <1>4
<1>6. ASSUME NEW j \in 1..Len(l) PROVE l[j] = r[j]
  <2>1. /\ i + j \in 1..Len(s) + Len(t) /\ j \in 1..Len(c) - i
        /\ j \in 1..(Len(s) - i) + Len(t)
    BY <1>1, <1>4
  <2>2. CASE j <= Len(s) - i
    <3>1. i + j <= Len(s) /\ j \in 1..Len(s) - i
      BY <1>1, <2>1, <2>2
    <3> QED
      BY <1>1, <1>2, <1>3, <1>4, <2>1, <2>2, <3>1
  <2>3. CASE ~(j <= Len(s) - i)
    <3>1. ~(i + j <= Len(s)) /\ (i + j) - Len(s) = j - (Len(s) - i)
      BY <1>1, <2>1, <2>3
    <3> QED
      BY <1>1, <1>3, <1>4, <2>1, <2>3, <3>1
  <2> QED
    BY <2>2, <2>3
<1>7. l = r
  BY <1>3, <1>4, <1>5, <1>6, SeqEqual
<1> QED
  BY <1>7 DEF l, r, c

\* Two pieces moved to either side.
LEMMA Regroup ==
    \A w, x, y, z \in Seq(Units) : (w \o (x \o y)) \o z = (w \o x) \o (y \o z)
<1> TAKE w, x, y, z \in Seq(Units)
<1>1. (w \o x) \o y = w \o (x \o y)
  BY ConcatAssociative
<1>2. \A c \in Seq(Units) : (c \o y) \o z = c \o (y \o z)
  BY ConcatAssociative
<1>3. w \o x \in Seq(Units)
  BY ConcatProperties
<1> QED
  BY <1>1, <1>2, <1>3

\* Beyond its end nothing of a sequence is left.
LEMMA FromEnd ==
    ASSUME NEW S, NEW s \in Seq(S), NEW i \in Nat, i >= Len(s)
    PROVE  From(s, i) = <<>>
<1>1. Len(s) \in Nat
  BY LenProperties
<1>2. i + 1 \in Int /\ Len(s) \in Int /\ Len(s) < i + 1
  BY <1>1
<1> QED
  BY <1>2, SubSeqEmpty DEF From

\* Pty::write keeps its data or, with a writeLost, gives the end of it up; the
\* latter takes an I/O error, an overfull queue or more data than fit.
LEMMA WriteOutcome ==
    ASSUME TypeOK, NEW data \in Seq(Units), NEW fed, write(data, fed)
    PROVE  /\ faults' = 0 => faults = 0
           /\ \/ /\ delivered' \o pendingWrite' = (delivered \o pendingWrite) \o data
                 /\ lost' = lost /\ dropped' = dropped /\ pasteBacklog' = pasteBacklog
              \/ \E k \in 0..Len(data) :
                 /\ k < Len(data)
                 /\ delivered' \o pendingWrite'
                       = (delivered \o pendingWrite) \o SubSeq(data, 1, k)
                 /\ writeLost(Elements(From(data, k)), fed)
                 /\ faults' = 0 => pendingWrite # <<>> \/ Len(data) > MaxPending
<1>1. /\ pendingWrite \in Seq(Units) /\ Len(pendingWrite) \in Nat
      /\ Len(pendingWrite) <= MaxPending /\ MaxPending \in Nat
      /\ delivered \in Seq(Units) /\ faults \in Nat
      /\ Len(data) \in Nat
  BY LenProperties, WriteAssumption DEF TypeOK
<1>2. CASE /\ pendingWrite # <<>>
           /\ fits(Len(pendingWrite) + Len(data))
           /\ pendingWrite' = pendingWrite \o data
           /\ UNCHANGED <<writeArmed, delivered, faults, lost, dropped, pasteBacklog>>
  <2>1. delivered \o (pendingWrite \o data) = (delivered \o pendingWrite) \o data
    BY <1>1, ConcatAssociative
  <2> QED
    BY <1>2, <2>1
<1>3. CASE /\ pendingWrite # <<>>
           /\ ~fits(Len(pendingWrite) + Len(data))
           /\ writeLost(Elements(data), fed)
           /\ UNCHANGED <<pendingWrite, writeArmed, delivered, faults>>
  <2>1. Len(data) > 0 /\ 0 \in 0..Len(data)
    BY <1>1, <1>3 DEF fits
  <2>2. From(data, 0) = data
    BY SubSeqFull DEF From
  <2>3. SubSeq(data, 1, 0) = <<>>
    BY SubSeqEmpty
  <2>4. (delivered \o pendingWrite) \o <<>> = delivered \o pendingWrite
    BY <1>1, ConcatProperties, ConcatEmptySeq
  <2> QED
    BY <1>3, <2>1, <2>2, <2>3, <2>4
<1>4. CASE /\ pendingWrite = <<>>
           /\ \E k \in 0..Len(data), fatal \in BOOLEAN :
                /\ writeSome(data, k, fatal)
                /\ IF fatal \/ ~fits(Len(From(data, k)))
                   THEN /\ writeLost(Elements(From(data, k)), fed)
                        /\ UNCHANGED <<pendingWrite, writeArmed>>
                   ELSE /\ pendingWrite' = From(data, k)
                        /\ arm(From(data, k))
                        /\ UNCHANGED <<lost, dropped, pasteBacklog>>
  <2>1. PICK k \in 0..Len(data), fatal \in BOOLEAN :
                /\ writeSome(data, k, fatal)
                /\ IF fatal \/ ~fits(Len(From(data, k)))
                   THEN /\ writeLost(Elements(From(data, k)), fed)
                        /\ UNCHANGED <<pendingWrite, writeArmed>>
                   ELSE /\ pendingWrite' = From(data, k)
                        /\ arm(From(data, k))
                        /\ UNCHANGED <<lost, dropped, pasteBacklog>>
    BY <1>4
  <2>2. /\ delivered' = delivered \o SubSeq(data, 1, k)
        /\ fatal => k < Len(data) /\ faults' = faults + 1
        /\ ~fatal => faults' = faults
    BY <2>1 DEF writeSome
  <2>3. /\ SubSeq(data, 1, k) \in Seq(Units)
        /\ From(data, k) \in Seq(Units) /\ Len(From(data, k)) = Len(data) - k
    <3>1. SubSeq(data, 0 + 1, 0 + k) \in Seq(Units)
      BY <1>1, FirstFacts
    <3> QED
      BY <1>1, <3>1, FromFacts
  <2>4. delivered \o pendingWrite = delivered
    BY <1>1, <1>4, ConcatEmptySeq
  <2>5. faults' = 0 => faults = 0
    BY <1>1, <2>2
  <2>6. CASE fatal \/ ~fits(Len(From(data, k)))
    <3>1. k < Len(data)
      BY <1>1, <2>2, <2>3, <2>6 DEF fits
    <3>2. delivered' \o pendingWrite' = delivered \o SubSeq(data, 1, k)
      <4>1. delivered' \in Seq(Units)
        BY <1>1, <2>2, <2>3, ConcatProperties
      <4>2. pendingWrite' = <<>>
        BY <1>4, <2>1, <2>6
      <4> QED
        BY <2>2, <4>1, <4>2, ConcatEmptySeq
    <3>3. writeLost(Elements(From(data, k)), fed)
      BY <2>1, <2>6
    <3>4. faults' = 0 => Len(data) > MaxPending
      BY <1>1, <2>2, <2>3, <2>6 DEF fits
    <3> QED
      BY <2>4, <2>5, <3>1, <3>2, <3>3, <3>4
  <2>7. CASE ~(fatal \/ ~fits(Len(From(data, k))))
    <3>1. /\ pendingWrite' = From(data, k)
          /\ lost' = lost /\ dropped' = dropped /\ pasteBacklog' = pasteBacklog
      BY <2>1, <2>7
    <3>2. (delivered \o SubSeq(data, 1, k)) \o From(data, k)
             = delivered \o (SubSeq(data, 1, k) \o From(data, k))
      <4> DEFINE a == SubSeq(data, 1, k)
                 b == From(data, k)
      <4>1. delivered \in Seq(Units) /\ a \in Seq(Units) /\ b \in Seq(Units)
        BY <1>1, <2>3
      <4> HIDE DEF a, b
      <4>2. (delivered \o a) \o b = delivered \o (a \o b)
        BY <4>1, ConcatAssociative
      <4> QED
        BY <4>2 DEF a, b
    <3>3. SubSeq(data, 1, k) \o From(data, k) = data
      BY CutAt
    <3> QED
      BY <2>2, <2>4, <2>5, <3>1, <3>2, <3>3
  <2> QED
    BY <2>6, <2>7
<1> QED
  BY <1>2, <1>3, <1>4 DEF write

\* What is outgoing is a sequence of units.
LEMMA OutgoingUnits ==
    ASSUME TypeOK
    PROVE  /\ delivered \o pendingWrite \in Seq(Units)
           /\ From(pasteBacklog, pasteOffset) \in Seq(Units)
           /\ outgoing \in Seq(Units)
<1>1. /\ delivered \in Seq(Units) /\ pendingWrite \in Seq(Units)
      /\ pasteBacklog \in Seq(Units) /\ Len(pasteBacklog) \in Nat /\ pasteOffset \in Nat
  BY LenProperties DEF TypeOK
<1>2. delivered \o pendingWrite \in Seq(Units)
  BY <1>1, ConcatProperties
<1>3. From(pasteBacklog, pasteOffset) \in Seq(Units)
  <2>1. CASE pasteOffset <= Len(pasteBacklog)
    BY <1>1, <2>1, FromFacts
  <2>2. CASE pasteOffset > Len(pasteBacklog)
    <3>1. From(pasteBacklog, pasteOffset) = <<>>
      BY <1>1, <2>2, FromEnd
    <3> QED
      BY <3>1, EmptySeq
  <2> QED
    BY <1>1, <2>1, <2>2
<1>4. outgoing \in Seq(Units)
  BY <1>2, <1>3, ConcatProperties DEF outgoing
<1> QED
  BY <1>2, <1>3, <1>4

\* The worker takes messages from the front and changes none.
LEMMA QueueKept ==
    ASSUME TypeOK, PostedIsTail, Numbered, messages' = messages,
           posted' = posted \/ (posted # <<>> /\ posted' = Tail(posted))
    PROVE  PostedIsTail' /\ Numbered'
<1>1. Numbered'
  BY DEF Numbered, handedIn
<1>2. CASE posted' = posted
  BY <1>1, <1>2 DEF PostedIsTail
<1>3. CASE posted # <<>> /\ posted' = Tail(posted)
  <2>1. /\ Len(posted) \in Nat \ {0} /\ Len(posted') = Len(posted) - 1
        /\ \A i \in 1..Len(posted') : posted'[i] = posted[i + 1]
        /\ Len(messages) \in Nat
    BY <1>3, HeadTailProperties, EmptySeq, LenProperties DEF TypeOK
  <2>2. Len(posted') <= Len(messages')
    BY <2>1 DEF PostedIsTail
  <2>3. ASSUME NEW i \in 1..Len(posted')
        PROVE  posted'[i] = messages'[Len(messages') - Len(posted') + i]
    <3>1. i + 1 \in 1..Len(posted)
      BY <2>1
    <3>2. posted[i + 1] = messages[Len(messages) - Len(posted) + (i + 1)]
      BY <3>1 DEF PostedIsTail
    <3>3. Len(messages) - Len(posted') + i = Len(messages) - Len(posted) + (i + 1)
      BY <2>1
    <3> QED
      BY <2>1, <3>2, <3>3
  <2> QED
    BY <1>1, <2>2, <2>3 DEF PostedIsTail
<1> QED
  BY <1>2, <1>3

\* A message that joins the backlog, behind a paste or as a paste.
LEMMA JoinBacklog ==
    ASSUME WInv, FInv, pc = "idle", posted # <<>>,
           pasteBacklog' = pasteBacklog \o Head(posted).data,
           posted' = Tail(posted), messages' = messages,
           pasteOffset' = pasteOffset, pendingWrite' = pendingWrite,
           delivered' = delivered, faults' = faults, lost' = lost, dropped' = dropped
    PROVE  FInv'
<1> DEFINE d == Head(posted).data
           s == delivered \o pendingWrite
           f == From(pasteBacklog, pasteOffset)
<1>1. TypeOK /\ FifoOrLost /\ GivenUp /\ PostedIsTail /\ Numbered /\ PasteWhole
  BY DEF WInv, FInv
<1>2. /\ d \in Seq(Units) /\ pasteBacklog \in Seq(Units)
      /\ pasteOffset \in 0..Len(pasteBacklog)
  BY <1>1, NextMessage, OffsetWithin DEF TypeOK
<1>3. s \in Seq(Units) /\ f \in Seq(Units) /\ outgoing \in Seq(Units)
  BY <1>1, OutgoingUnits
<1>4. From(pasteBacklog \o d, pasteOffset) = f \o d
  <2> HIDE DEF d
  <2> QED
    BY <1>2, FromConcat
<1>5. outgoing = s \o f /\ outgoing' = s \o (f \o d)
  BY <1>4 DEF outgoing
<1>6. d \o <<>> = d /\ <<>> \in Seq(Units)
  BY <1>2, ConcatEmptySeq, EmptySeq
<1> HIDE DEF d, s, f
<1>7. outgoing' = outgoing \o d
  <2>1. d \in Seq(Units)
    BY <1>2
  <2>2. (s \o f) \o d = s \o (f \o d)
    BY <1>3, <2>1, ConcatAssociative
  <2> QED
    BY <1>5, <2>2
<1>8. Elements(<<>>) = {}
  BY ElementsEmpty
<1>9. lost' \cup dropped' = (lost \cup dropped) \cup Elements(<<>>)
  BY <1>8
<1>10. dropped' # {} => lost' # {}
  BY <1>1 DEF FifoOrLost
<1>11. Head(posted).data = d \o <<>>
  BY <1>6 DEF d
<1>12. FifoOrLost' /\ GivenUp'
  BY <1>1, <1>2, <1>3, <1>6, <1>7, <1>9, <1>10, <1>11, TakeFirst
<1>13. PostedIsTail' /\ Numbered'
  BY <1>1, QueueKept
<1>14. PasteWhole'
  BY <1>1 DEF PasteWhole
<1> QED
  BY <1>12, <1>13, <1>14 DEF FInv

\* VtStream::write straight to the Pty.  What it gives up is key data.
LEMMA WriteKeyKeepsFifo ==
    ASSUME WInv, FInv, writeKey
    PROVE  FInv'
<1> DEFINE d == Head(posted).data
           s == delivered \o pendingWrite
<1>1. /\ TypeOK /\ FifoOrLost /\ GivenUp /\ PostedIsTail /\ Numbered /\ PasteWhole
      /\ BacklogReset /\ posted # <<>> /\ Head(posted).kind = "key"
      /\ pc = "idle" /\ ~feeding
  BY DEF WInv, FInv, writeKey
<1>2. /\ pasteBacklog = <<>> /\ pasteOffset = 0
      /\ From(<<>>, 0) = <<>> /\ Elements(<<>>) = {} /\ <<>> \in Seq(Units)
  <2>1. Len(<<>>) = 0 /\ <<>> \in Seq(Units)
    BY EmptySeq
  <2>2. From(<<>>, 0) = <<>>
    BY <2>1, SubSeqEmpty DEF From
  <2> QED
    BY <1>1, <2>1, <2>2, ElementsEmpty DEF BacklogReset
<1>3. d \in Seq(Units) /\ Len(d) \in Nat
  BY <1>1, NextMessage, LenProperties
<1>4. /\ write(d, 0) /\ posted' = Tail(posted) /\ messages' = messages
      /\ pasteOffset' = 0
  BY <1>2 DEF writeKey
<1>5. s \in Seq(Units) /\ outgoing \in Seq(Units) /\ outgoing = s
  BY <1>1, <1>2, OutgoingUnits, ConcatEmptySeq DEF outgoing
<1>6. PostedIsTail' /\ Numbered'
  BY <1>1, <1>4, QueueKept
<1>7. \A i \in 1..Len(messages) :
         messages[i].kind = "paste" => Elements(d) \cap Elements(messages[i].data) = {}
  <2> SUFFICES ASSUME NEW i \in 1..Len(messages), messages[i].kind = "paste"
               PROVE  Elements(d) \cap Elements(messages[i].data) = {}
    OBVIOUS
  <2> DEFINE q == Len(messages) - Len(posted) + 1
  <2>1. /\ Len(posted) \in Nat \ {0} /\ Len(messages) \in Nat
        /\ Head(posted) = posted[1] /\ Len(posted) <= Len(messages)
    BY <1>1, HeadTailProperties, EmptySeq, LenProperties DEF TypeOK, PostedIsTail
  <2>2. 1 \in 1..Len(posted) /\ q \in 1..Len(messages)
    BY <2>1
  <2>3. Head(posted) = messages[q]
    BY <1>1, <2>1, <2>2 DEF PostedIsTail
  <2> HIDE DEF q
  <2>4. i # q
    BY <1>1, <2>3
  <2>5. i < q \/ q < i
    BY <2>1, <2>2, <2>4
  <2>6. Before(messages[i].data, d) \/ Before(d, messages[i].data)
    BY <1>1, <2>2, <2>3, <2>5 DEF Numbered
  <2>7. \A u \in Elements(d) : u \in Nat
    BY <1>3, ElementsIn, WriteAssumption DEF Units
  <2> QED
    BY <2>6, <2>7, BeforeElements
<1>8. faults' = 0 => faults = 0
  BY <1>1, <1>3, <1>4, WriteOutcome
<1>9. Head(posted).data = d
  OBVIOUS
<1> HIDE DEF s, d
<1>10. CASE /\ delivered' \o pendingWrite' = s \o d
           /\ lost' = lost /\ dropped' = dropped /\ pasteBacklog' = pasteBacklog
  <2>1. outgoing' = outgoing \o d
    <3>1. outgoing' = (s \o d) \o <<>>
      BY <1>2, <1>4, <1>10 DEF outgoing
    <3>2. (s \o d) \in Seq(Units)
      BY <1>3, <1>5, ConcatProperties
    <3>3. (s \o d) \o <<>> = s \o d
      BY <3>2, ConcatEmptySeq
    <3> QED
      BY <1>5, <3>1, <3>3
  <2>2. d = d \o <<>>
    BY <1>3, ConcatEmptySeq
  <2>3. lost' \cup dropped' = (lost \cup dropped) \cup Elements(<<>>)
    BY <1>2, <1>10
  <2>4. dropped' # {} => lost' # {}
    BY <1>1, <1>10 DEF FifoOrLost
  <2>5. FifoOrLost' /\ GivenUp'
    BY <1>1, <1>2, <1>3, <1>4, <1>5, <1>9, <2>1, <2>2, <2>3, <2>4, TakeFirst
  <2>6. PasteWhole'
    BY <1>1, <1>4, <1>8, <1>10 DEF PasteWhole
  <2> QED
    BY <1>6, <2>5, <2>6 DEF FInv
<1>11. ASSUME NEW k \in 0..Len(d), k < Len(d),
              delivered' \o pendingWrite' = s \o SubSeq(d, 1, k),
              writeLost(Elements(From(d, k)), 0)
       PROVE  FInv'
  <2> DEFINE a == SubSeq(d, 1, k)
             b == From(d, k)
  <2>1. a \in Seq(Units) /\ b \in Seq(Units) /\ Len(b) = Len(d) - k /\ d = a \o b
    <3>1. SubSeq(d, 0 + 1, 0 + k) \in Seq(Units)
      BY <1>3, <1>11, FirstFacts
    <3>2. From(d, k) \in Seq(Units) /\ Len(From(d, k)) = Len(d) - k
      BY <1>3, FromFacts
    <3>3. SubSeq(d, 1, k) \o From(d, k) = d
      BY <1>3, CutAt
    <3> QED
      BY <3>1, <3>2, <3>3
  <2>2. /\ lost' = lost \cup Elements(b) /\ dropped' = dropped
        /\ pasteBacklog' = <<>>
    BY <1>2, <1>11 DEF writeLost
  <2>3. delivered' \o pendingWrite' = s \o a
    BY <1>11
  <2> HIDE DEF a, b
  <2>4. outgoing' = outgoing \o a
    <3>1. outgoing' = (s \o a) \o <<>>
      BY <1>2, <1>4, <2>2, <2>3 DEF outgoing
    <3>2. (s \o a) \in Seq(Units)
      BY <1>5, <2>1, ConcatProperties
    <3>3. (s \o a) \o <<>> = s \o a
      BY <3>2, ConcatEmptySeq
    <3> QED
      BY <1>5, <3>1, <3>3
  <2>5. Elements(b) # {}
    <3>1. Len(b) > 0
      BY <1>3, <1>11, <2>1
    <3> QED
      BY <2>1, <3>1, ElementsNonempty
  <2>6. lost' \cup dropped' = (lost \cup dropped) \cup Elements(b)
    BY <2>2
  <2>7. dropped' # {} => lost' # {}
    BY <2>2, <2>5
  <2>8. Head(posted).data = a \o b
    BY <1>9, <2>1
  <2>9. FifoOrLost' /\ GivenUp'
    BY <1>1, <1>4, <1>5, <2>1, <2>4, <2>6, <2>7, <2>8, TakeFirst
  <2>10. PasteWhole'
    <3>1. Elements(b) \subseteq Elements(d)
      BY <2>1, ConcatElements
    <3> QED
      BY <1>1, <1>4, <1>7, <1>8, <2>2, <3>1 DEF PasteWhole
  <2> QED
    BY <1>6, <2>9, <2>10 DEF FInv
<1>12. \/ /\ delivered' \o pendingWrite' = s \o d
          /\ lost' = lost /\ dropped' = dropped /\ pasteBacklog' = pasteBacklog
       \/ \E k \in 0..Len(d) :
             /\ k < Len(d) /\ delivered' \o pendingWrite' = s \o SubSeq(d, 1, k)
             /\ writeLost(Elements(From(d, k)), 0)
  BY <1>1, <1>3, <1>4, WriteOutcome DEF s
<1> QED
  BY <1>10, <1>11, <1>12

\* One slice of feedPaste.  Without an I/O error it is never given up: the
\* queue is empty, and a slice fits it.
LEMMA FeedSliceKeepsFifo ==
    ASSUME WInv, FInv, feedSlice
    PROVE  FInv'
<1> DEFINE n == sliceOf(Len(pasteBacklog) - pasteOffset)
           d == SubSeq(pasteBacklog, pasteOffset + 1, pasteOffset + n)
           r == From(pasteBacklog, pasteOffset + n)
           s == delivered \o pendingWrite
<1>1. /\ TypeOK /\ FifoOrLost /\ GivenUp /\ PostedIsTail /\ Numbered /\ PasteWhole
      /\ feeding /\ pendingWrite = <<>>
      /\ pasteBacklog \in Seq(Units) /\ Len(pasteBacklog) \in Nat
      /\ pasteOffset \in Nat
  BY LenProperties DEF WInv, FInv, TypeOK, feedSlice
<1>2. /\ n \in Nat \ {0} /\ n <= SliceUnits /\ n <= Len(pasteBacklog) - pasteOffset
  <2>1. SliceUnits \in Nat \ {0}
    BY WriteAssumption
  <2>2. Len(pasteBacklog) - pasteOffset \in Nat \ {0}
    BY <1>1 DEF feeding
  <2> QED
    BY <2>1, <2>2 DEF sliceOf
<1>3. /\ write(d, pasteOffset + n)
      /\ pasteOffset' = (IF wasLost THEN 0 ELSE pasteOffset) + n
      /\ messages' = messages /\ posted' = posted
  BY DEF feedSlice
<1> HIDE DEF n
<1>4. d \in Seq(Units) /\ Len(d) = n
  BY <1>1, <1>2, FirstFacts
<1>5. r \in Seq(Units)
  BY <1>1, <1>2, FromFacts
<1>6. From(pasteBacklog, pasteOffset) = d \o r
  <2>1. /\ pasteOffset + 1 \in 1..Len(pasteBacklog) + 1
        /\ pasteOffset + n \in (pasteOffset + 1) - 1..Len(pasteBacklog)
        /\ Len(pasteBacklog) \in pasteOffset + n..Len(pasteBacklog)
    BY <1>1, <1>2
  <2> QED
    BY <1>1, <2>1, ConcatAdjacentSubSeq DEF From
<1>7. s \in Seq(Units) /\ outgoing \in Seq(Units) /\ outgoing = s \o (d \o r)
  BY <1>1, <1>6, OutgoingUnits DEF outgoing
<1>8. PostedIsTail' /\ Numbered'
  BY <1>1, <1>3, QueueKept
<1>9. \A u : writeLost(u, pasteOffset + n) =>
          /\ lost' = lost \cup u /\ dropped' = dropped \cup Elements(r)
          /\ pasteBacklog' = <<>>
  BY DEF writeLost
<1>11. \/ /\ delivered' \o pendingWrite' = s \o d
          /\ lost' = lost /\ dropped' = dropped /\ pasteBacklog' = pasteBacklog
          /\ faults' = 0 => faults = 0
       \/ \E k \in 0..Len(d) :
             /\ k < Len(d) /\ delivered' \o pendingWrite' = s \o SubSeq(d, 1, k)
             /\ writeLost(Elements(From(d, k)), pasteOffset + n)
             /\ faults' # 0
  <2> HIDE DEF d, r
  <2>1. n <= MaxPending /\ MaxPending \in Nat
    BY <1>2, WriteAssumption
  <2>2. ~(pendingWrite # <<>> \/ Len(d) > MaxPending)
    BY <1>1, <1>2, <1>4, <2>1
  <2> QED
    BY <1>1, <1>3, <1>4, <2>2, WriteOutcome DEF s
<1>12. From(pasteBacklog, pasteOffset + n) = r
  OBVIOUS
<1> HIDE DEF d, r, s
<1>13. CASE /\ delivered' \o pendingWrite' = s \o d
            /\ lost' = lost /\ dropped' = dropped /\ pasteBacklog' = pasteBacklog
            /\ faults' = 0 => faults = 0
  <2>1. pasteOffset' = pasteOffset + n
    BY <1>3, <1>13 DEF wasLost
  <2>2. outgoing' = (s \o d) \o r
    BY <1>12, <1>13, <2>1 DEF outgoing
  <2>3. (s \o d) \o r = s \o (d \o r)
    BY <1>4, <1>5, <1>7, ConcatAssociative
  <2>4. outgoing' = outgoing /\ outgoing = outgoing \o <<>> /\ <<>> \in Seq(Units)
    BY <1>7, <2>2, <2>3, ConcatEmptySeq, EmptySeq
  <2>5. lost' \cup dropped' = (lost \cup dropped) \cup Elements(<<>>)
    BY <1>13, ElementsEmpty
  <2>6. dropped' # {} => lost' # {}
    BY <1>1, <1>13 DEF FifoOrLost
  <2>7. FifoOrLost' /\ GivenUp'
    BY <1>1, <1>3, <1>7, <2>4, <2>5, <2>6, GiveUpEnd
  <2>8. PasteWhole'
    BY <1>1, <1>3, <1>13 DEF PasteWhole
  <2> QED
    BY <1>8, <2>7, <2>8 DEF FInv
<1>14. ASSUME NEW k \in 0..Len(d), k < Len(d),
              delivered' \o pendingWrite' = s \o SubSeq(d, 1, k),
              writeLost(Elements(From(d, k)), pasteOffset + n),
              faults' # 0
       PROVE  FInv'
  <2> DEFINE a == SubSeq(d, 1, k)
             b == From(d, k)
  <2>1. a \in Seq(Units) /\ b \in Seq(Units) /\ Len(b) = Len(d) - k /\ d = a \o b
    <3>1. SubSeq(d, 0 + 1, 0 + k) \in Seq(Units)
      BY <1>2, <1>4, <1>14, FirstFacts
    <3>2. From(d, k) \in Seq(Units) /\ Len(From(d, k)) = Len(d) - k
      BY <1>4, FromFacts
    <3>3. SubSeq(d, 1, k) \o From(d, k) = d
      BY <1>4, CutAt
    <3> QED
      BY <3>1, <3>2, <3>3
  <2>2. /\ lost' = lost \cup Elements(b)
        /\ dropped' = dropped \cup Elements(r) /\ pasteBacklog' = <<>>
    BY <1>9, <1>14
  <2>3. delivered' \o pendingWrite' = s \o a
    BY <1>14
  <2> HIDE DEF a, b
  <2>4. s \o a \in Seq(Units) /\ b \o r \in Seq(Units)
    BY <1>5, <1>7, <2>1, ConcatProperties
  <2>5. outgoing' = s \o a
    <3>1. From(pasteBacklog', pasteOffset') = <<>>
      <4>1. pasteOffset' \in Nat
        BY <1>1, <1>2, <1>3
      <4>2. Len(<<>>) = 0
        BY EmptySeq
      <4> QED
        BY <2>2, <4>1, <4>2, SubSeqEmpty DEF From
    <3>2. outgoing' = (s \o a) \o <<>>
      BY <2>3, <3>1 DEF outgoing
    <3> QED
      BY <2>4, <3>2, ConcatEmptySeq
  <2>6. outgoing = (s \o a) \o (b \o r)
    <3>1. (s \o (a \o b)) \o r = (s \o a) \o (b \o r)
      <4>1. s \in Seq(Units) /\ a \in Seq(Units) /\ b \in Seq(Units) /\ r \in Seq(Units)
        BY <1>5, <1>7, <2>1
      <4>2. \A x, y, z \in Seq(Units) :
               (s \o (x \o y)) \o z = (s \o x) \o (y \o z)
        BY <4>1, Regroup
      <4>3. \A z \in Seq(Units) :
               (s \o (a \o b)) \o z = (s \o a) \o (b \o z)
        BY <4>1, <4>2
      <4> QED
        BY <4>1, <4>3
    <3>2. (s \o d) \o r = s \o (d \o r)
      BY <1>4, <1>5, <1>7, ConcatAssociative
    <3> QED
      BY <1>7, <2>1, <3>1, <3>2
  <2>7. Elements(b \o r) = Elements(b) \cup Elements(r)
    BY <1>5, <2>1, ConcatElements
  <2>8. Elements(b) # {}
    <3>1. Len(b) > 0
      BY <1>2, <1>4, <1>14, <2>1
    <3> QED
      BY <2>1, <3>1, ElementsNonempty
  <2>9. lost' \cup dropped' = (lost \cup dropped) \cup Elements(b \o r)
    BY <2>2, <2>7
  <2>10. dropped' # {} => lost' # {}
    BY <2>2, <2>8
  <2>11. FifoOrLost' /\ GivenUp'
    BY <1>1, <1>3, <2>4, <2>5, <2>6, <2>9, <2>10, GiveUpEnd
  <2>12. PasteWhole'
    BY <1>14 DEF PasteWhole
  <2> QED
    BY <1>8, <2>11, <2>12 DEF FInv
<1> QED
  BY <1>11, <1>13, <1>14

\* The end of feedPaste: a backlog it lets go of has nothing left to feed.
LEMMA FeedDoneKeepsFifo ==
    ASSUME WInv, FInv, feedDone
    PROVE  FInv'
<1>1. /\ messages' = messages /\ posted' = posted
      /\ pendingWrite' = pendingWrite /\ delivered' = delivered
      /\ faults' = faults /\ lost' = lost /\ dropped' = dropped
  BY DEF feedDone, ptyVars
<1>2. From(pasteBacklog', pasteOffset') = From(pasteBacklog, pasteOffset)
  <2>1. CASE usedUp
    <3>1. pasteBacklog \in Seq(Units) /\ pasteOffset \in Nat
      BY DEF WInv, TypeOK
    <3>2. From(pasteBacklog, pasteOffset) = <<>>
      BY <2>1, <3>1, FromEnd DEF usedUp
    <3>3. pasteBacklog' = <<>> /\ pasteOffset' = 0 /\ Len(<<>>) = 0
      BY <2>1, EmptySeq DEF feedDone
    <3>4. From(<<>>, 0) = <<>>
      BY <3>3, SubSeqEmpty DEF From
    <3> QED
      BY <3>2, <3>3, <3>4
  <2>2. CASE ~usedUp
    BY <2>2 DEF feedDone
  <2> QED
    BY <2>1, <2>2
<1>3. outgoing' = outgoing
  BY <1>1, <1>2 DEF outgoing
<1> QED
  BY <1>1, <1>3 DEF FInv, FifoOrLost, PostedBehind, PostedIsTail, Numbered, GivenUp,
                    PasteWhole, handedIn

\* Pty::onWriteReady: what it gives up is the end of what is outgoing.
LEMMA WriteReadyKeepsFifo ==
    ASSUME WInv, FInv, onWriteReady
    PROVE  FInv'
<1> DEFINE p == pendingWrite
           f == From(pasteBacklog, pasteOffset)
<1>1. /\ TypeOK /\ FifoOrLost /\ GivenUp /\ PostedIsTail /\ Numbered /\ PasteWhole
      /\ delivered \in Seq(Units) /\ p \in Seq(Units) /\ Len(p) \in Nat
      /\ faults \in Nat
      /\ f \in Seq(Units) /\ outgoing \in Seq(Units)
      /\ messages' = messages /\ posted' = posted
  BY LenProperties, OutgoingUnits, WriteAssumption DEF WInv, FInv, TypeOK, onWriteReady
<1>2. PICK k \in 0..Len(p), fatal \in BOOLEAN :
        /\ writeSome(p, k, fatal)
        /\ IF fatal
           THEN /\ writeLost(Elements(From(p, k)), pasteOffset)
                /\ pasteOffset' = 0
                /\ pendingWrite' = <<>>
           ELSE /\ pendingWrite' = From(p, k)
                /\ UNCHANGED <<lost, dropped, pasteBacklog, pasteOffset>>
  BY DEF onWriteReady
<1>3. /\ delivered' = delivered \o SubSeq(p, 1, k)
      /\ fatal => k < Len(p) /\ faults' = faults + 1
      /\ ~fatal => faults' = faults
  BY <1>2 DEF writeSome
<1> DEFINE a == SubSeq(p, 1, k)
           b == From(p, k)
<1>4. a \in Seq(Units) /\ b \in Seq(Units) /\ Len(b) = Len(p) - k /\ p = a \o b
  <2>1. SubSeq(p, 0 + 1, 0 + k) \in Seq(Units)
    BY <1>1, FirstFacts
  <2>2. From(p, k) \in Seq(Units) /\ Len(From(p, k)) = Len(p) - k
    BY <1>1, FromFacts
  <2>3. SubSeq(p, 1, k) \o From(p, k) = p
    BY <1>1, CutAt
  <2> QED
    BY <2>1, <2>2, <2>3
<1>5. PostedIsTail' /\ Numbered'
  BY <1>1, QueueKept
<1>6. outgoing = (delivered \o (a \o b)) \o f
  BY <1>4 DEF outgoing
<1>7. CASE ~fatal
  <2>1. /\ delivered' = delivered \o a /\ pendingWrite' = b
        /\ lost' = lost /\ dropped' = dropped
        /\ From(pasteBacklog', pasteOffset') = f
    BY <1>2, <1>3, <1>7
  <2> HIDE DEF a, b, f, p
  <2>2. (delivered \o a) \o b = delivered \o (a \o b)
    BY <1>1, <1>4, ConcatAssociative
  <2>3. outgoing' = outgoing /\ outgoing = outgoing \o <<>> /\ <<>> \in Seq(Units)
    BY <1>1, <1>6, <2>1, <2>2, ConcatEmptySeq, EmptySeq DEF outgoing
  <2>4. lost' \cup dropped' = (lost \cup dropped) \cup Elements(<<>>)
    BY <2>1, ElementsEmpty
  <2>5. dropped' # {} => lost' # {}
    BY <1>1, <2>1 DEF FifoOrLost
  <2>6. FifoOrLost' /\ GivenUp'
    BY <1>1, <2>3, <2>4, <2>5, GiveUpEnd
  <2>7. PasteWhole'
    BY <1>1, <1>3, <1>7, <2>1 DEF PasteWhole
  <2> QED
    BY <1>5, <2>6, <2>7 DEF FInv
<1>8. CASE fatal
  <2>1. /\ delivered' = delivered \o a /\ pendingWrite' = <<>>
        /\ lost' = lost \cup Elements(b) /\ dropped' = dropped \cup Elements(f)
        /\ pasteBacklog' = <<>> /\ pasteOffset' = 0
    BY <1>2, <1>3, <1>8 DEF writeLost
  <2>2. Len(b) > 0
    BY <1>1, <1>3, <1>4, <1>8
  <2> HIDE DEF a, b, f, p
  <2>3. delivered \o a \in Seq(Units) /\ b \o f \in Seq(Units)
    BY <1>1, <1>4, ConcatProperties
  <2>4. outgoing' = delivered \o a
    <3>1. From(pasteBacklog', pasteOffset') = <<>>
      <4>1. Len(<<>>) = 0
        BY EmptySeq
      <4> QED
        BY <2>1, <4>1, SubSeqEmpty DEF From
    <3>2. outgoing' = ((delivered \o a) \o <<>>) \o <<>>
      BY <2>1, <3>1 DEF outgoing
    <3>3. (delivered \o a) \o <<>> = delivered \o a
      BY <2>3, ConcatEmptySeq
    <3> QED
      BY <3>2, <3>3
  <2>5. outgoing = (delivered \o a) \o (b \o f)
    <3>1. (delivered \o (a \o b)) \o f = (delivered \o a) \o (b \o f)
      <4>1. /\ delivered \in Seq(Units) /\ a \in Seq(Units)
            /\ b \in Seq(Units) /\ f \in Seq(Units)
        BY <1>1, <1>4
      <4>2. \A x, y, z \in Seq(Units) :
               (delivered \o (x \o y)) \o z = (delivered \o x) \o (y \o z)
        BY <4>1, Regroup
      <4>3. \A z \in Seq(Units) :
               (delivered \o (a \o b)) \o z = (delivered \o a) \o (b \o z)
        BY <4>1, <4>2
      <4> QED
        BY <4>1, <4>3
    <3> QED
      BY <1>6, <3>1
  <2>6. Elements(b \o f) = Elements(b) \cup Elements(f)
    BY <1>1, <1>4, ConcatElements
  <2>7. Elements(b) # {}
    BY <1>4, <2>2, ElementsNonempty
  <2>8. lost' \cup dropped' = (lost \cup dropped) \cup Elements(b \o f)
    BY <2>1, <2>6
  <2>9. dropped' # {} => lost' # {}
    BY <2>1, <2>7
  <2>10. FifoOrLost' /\ GivenUp'
    BY <1>1, <2>3, <2>4, <2>5, <2>8, <2>9, GiveUpEnd
  <2>11. PasteWhole'
    <3>1. faults' # 0
      BY <1>1, <1>3, <1>8
    <3> QED
      BY <3>1 DEF PasteWhole
  <2> QED
    BY <1>5, <2>10, <2>11 DEF FInv
<1> QED
  BY <1>7, <1>8

-----------------------------------------------------------------------------
\* Nothing has been handed in yet.
LEMMA InitFInv == Init => FInv
<1> SUFFICES ASSUME Init PROVE FInv
  OBVIOUS
<1>1. /\ Len(<<>>) = 0 /\ <<>> \in Seq(Units) /\ Elements(<<>>) = {}
  BY EmptySeq, ElementsEmpty
<1>2. /\ messages = <<>> /\ posted = <<>> /\ pasteBacklog = <<>> /\ pasteOffset = 0
      /\ pendingWrite = <<>> /\ delivered = <<>> /\ lost = {} /\ dropped = {}
  BY DEF Init
<1>3. outgoing = <<>>
  <2>1. From(<<>>, 0) = <<>>
    BY <1>1, SubSeqEmpty DEF From
  <2>2. <<>> \o <<>> = <<>>
    BY <1>1, ConcatEmptySeq
  <2> QED
    BY <1>2, <2>1, <2>2 DEF outgoing
<1>4. handedIn = 0
  BY <1>2 DEF handedIn
<1>5. Carried(posted) = {}
  BY <1>1, <1>2 DEF Carried
<1>6. FifoOrLost
  <2>1. Ascending(outgoing) /\ PostedBehind
    BY <1>1, <1>2, <1>3 DEF Ascending, PostedBehind
  <2> QED
    BY <1>1, <1>2, <1>3, <1>4, <1>5, <2>1 DEF FifoOrLost
<1>7. PostedIsTail /\ Numbered /\ GivenUp /\ PasteWhole
  BY <1>1, <1>2 DEF PostedIsTail, Numbered, GivenUp, PasteWhole
<1> QED
  BY <1>6, <1>7 DEF FInv

\* Every step keeps order and accounting.
LEMMA NextFInv == WInv /\ FInv /\ [Next]_vars => FInv'
<1> SUFFICES ASSUME WInv, FInv, [Next]_vars PROVE FInv'
  OBVIOUS
<1>1. KeySizes \subseteq Nat \ {0} /\ PasteSizes \subseteq Nat \ {0}
  BY WriteAssumption
<1>2. CASE ptyWrite
  BY <1>1, <1>2, PostKeepsFifo DEF ptyWrite
<1>3. CASE performPaste
  BY <1>1, <1>3, PostKeepsFifo DEF performPaste
<1>4. CASE ChildRead \/ UNCHANGED vars
  <2>1. /\ messages' = messages /\ posted' = posted
        /\ pasteBacklog' = pasteBacklog /\ pasteOffset' = pasteOffset
        /\ pendingWrite' = pendingWrite /\ delivered' = delivered
        /\ faults' = faults /\ lost' = lost /\ dropped' = dropped
    BY <1>4 DEF ChildRead, vars, streamVars, ptyVars
  <2>2. outgoing' = outgoing
    BY <2>1 DEF outgoing
  <2> QED
    BY <2>1, <2>2 DEF FInv, FifoOrLost, PostedBehind, PostedIsTail, Numbered, GivenUp,
                      PasteWhole, handedIn
<1>5. CASE onWriteReady
  BY <1>5, WriteReadyKeepsFifo
<1>6. CASE writeBehindPaste
  BY <1>6, JoinBacklog DEF writeBehindPaste, ptyVars
<1>7. CASE writeKey
  BY <1>7, WriteKeyKeepsFifo
<1>8. CASE writePaste
  BY <1>8, JoinBacklog DEF writePaste, ptyVars
<1>9. CASE feedSlice
  BY <1>9, FeedSliceKeepsFifo
<1>10. CASE feedDone
  BY <1>10, FeedDoneKeepsFifo
<1> QED
  BY <1>2, <1>3, <1>4, <1>5, <1>6, <1>7, <1>8, <1>9, <1>10 DEF Next, Worker

\* Order, numbering and accounting hold in every reachable state.
THEOREM FifoInvariant == Spec => []FInv
BY InitFInv, NextFInv, WriteInvariant, PTL DEF Spec

\* Input reaches the child in the order it was handed in, none of it twice,
\* and what is missing was given up with a writeLost, for every slice, queue
\* and kernel size (VtStream::write, feedPaste, Pty::write, onWriteReady).
THEOREM InputInOrder == Spec => []FifoOrLost
<1>1. FInv => FifoOrLost
  BY DEF FInv
<1> QED
  BY <1>1, FifoInvariant, PTL

\* A paste of any length loses nothing unless a write fails with an error of
\* its own: VtStream::feedPaste never offers Pty::write more than its queue
\* takes.
THEOREM PastesStayWhole == Spec => []PasteWhole
<1>1. FInv => PasteWhole
  BY DEF FInv
<1> QED
  BY <1>1, FifoInvariant, PTL
=============================================================================
