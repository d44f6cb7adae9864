------------------------- MODULE CharDeviceProofs -------------------------
(***************************************************************************)
(* The character devices, proved for CharDevices, where the steps of one   *)
(* device leave the other alone.  The console neither mixes, loses,        *)
(* repeats nor reorders characters: the inductive invariant of module      *)
(* Console.  The serial line hands on every message whole or cut at its    *)
(* end and none twice: the inductive invariant of module Serial.           *)
(***************************************************************************)
EXTENDS CharDevices, SequenceTheorems, TLAPS

-----------------------------------------------------------------------------
(* Sequences *)

\* Moving the first element of b to the end of a keeps a \o b.
LEMMA MoveFirst ==
  ASSUME NEW S, NEW a \in Seq(S), NEW b \in Seq(S), b # <<>>
  PROVE  /\ Head(b) \in S /\ Tail(b) \in Seq(S)
         /\ Append(a, Head(b)) \in Seq(S)
         /\ Append(a, Head(b)) \o Tail(b) = a \o b
<1>1. Head(b) \in S /\ Tail(b) \in Seq(S)
  BY HeadTailProperties
<1>2. Append(a, Head(b)) \in Seq(S) /\ Append(a, Head(b)) = a \o <<Head(b)>>
  BY <1>1, AppendProperties, AppendIsConcat
<1>3. <<Head(b)>> \in Seq(S) /\ <<Head(b)>> \o Tail(b) = b
  <2>1. <<Head(b)>> \in Seq(S)
    BY <1>1
  <2>2. <<Head(b)>> \o Tail(b) \in Seq(S)
    BY <1>1, <2>1, ConcatProperties
  <2>3. Len(<<Head(b)>> \o Tail(b)) = Len(b)
    BY <1>1, <2>1, ConcatProperties, HeadTailProperties
  <2>4. ASSUME NEW i \in 1..Len(b)
        PROVE  (<<Head(b)>> \o Tail(b))[i] = b[i]
    BY <1>1, <2>1, ConcatProperties, HeadTailProperties
  <2> QED BY <2>1, <2>2, <2>3, <2>4, SeqEqual
<1>4. (a \o <<Head(b)>>) \o Tail(b) = a \o (<<Head(b)>> \o Tail(b))
  BY <1>1, <1>3, ConcatAssociative
<1> QED BY <1>1, <1>2, <1>3, <1>4

\* A sequence is a prefix of what continues it.
LEMMA PrefixOfConcat ==
  ASSUME NEW S, NEW a \in Seq(S), NEW b \in Seq(S)
  PROVE  IsPrefix(a, a \o b)
<1>1. Len(a) \in Nat /\ Len(b) \in Nat /\ Len(a) <= Len(a \o b)
  BY LenProperties, ConcatProperties
<1>2. CASE a = <<>>
  BY <1>1, <1>2, SubSeqEmpty DEF IsPrefix
<1>3. CASE a # <<>>
  <2>1. 1 \in 1..Len(a) /\ Len(a) \in 1..Len(a)
    BY <1>1, <1>3, EmptySeq
  <2>2. SubSeq(a \o b, 1, Len(a)) = SubSeq(a, 1, Len(a))
    BY <2>1, SubSeqOfConcat1
  <2> QED BY <1>1, <2>2 DEF IsPrefix
<1> QED BY <1>2, <1>3

-----------------------------------------------------------------------------
(* The inductive invariant *)

\* Console::Console leaves nothing pending and nothing written.
LEMMA ConsoleInitOK ==
  ASSUME ConsoleInit
  PROVE  ConsoleInv
<1>1. ConsoleTypeOK
  <2>1. at \in [Thread -> Step] /\ left \in [Thread -> Seq(Character)]
    BY DEF ConsoleInit, Step
  <2>2. keyboard \in Seq(Character)
    BY CharacterAssumption DEF ConsoleInit
  <2>3. putBusy \in BOOLEAN
    BY Zenon DEF ConsoleInit
  <2>4. /\ mutexput \in Seq(Thread) /\ put \in Nat /\ got \in Seq(Character)
        /\ display \in Seq(Character) /\ written \in Seq(Character)
    BY EmptySeq DEF ConsoleInit
  <2>5. incoming \in Character \cup {EOF}
    BY DEF ConsoleInit
  <2> QED BY <2>1, <2>2, <2>3, <2>4, <2>5 DEF ConsoleTypeOK
<1>2. OneWriter /\ CharacterPending /\ DisplayLacksLeft
  BY DEF ConsoleInit, OneWriter, CharacterPending, DisplayLacksLeft, Writing
<1>3. InputIntact
  <2>1. keyboard = (<<>> \o <<>>) \o keyboard
    BY <1>1, ConcatEmptySeq, EmptySeq DEF ConsoleTypeOK
  <2> QED BY <2>1 DEF ConsoleInit, InputIntact
<1> QED BY <1>1, <1>2, <1>3 DEF ConsoleInv

\* The input does not depend on the output.
LEMMA InputFrame ==
  ASSUME InputIntact, UNCHANGED <<incoming, keyboard, got, get>>
  PROVE  InputIntact'
BY DEF InputIntact

\* The output does not depend on the input.
LEMMA OutputFrame ==
  ASSUME ConsoleInv, UNCHANGED <<left, mutexput, put, putBusy, display, written>>,
         at' \in [Thread -> Step],
         \A t \in Thread : /\ Writing(t)' <=> Writing(t)
                           /\ at'[t] = "PutP" <=> at[t] = "PutP"
  PROVE  OneWriter' /\ CharacterPending' /\ DisplayLacksLeft'
BY DEF ConsoleInv, OneWriter, CharacterPending, DisplayLacksLeft, Writing

\* Of two writers, both would be the first in the queue of the lock.
LEMMA WriterIsAlone ==
  ASSUME OneWriter, NEW t \in Thread, NEW u \in Thread, Writing(t), Writing(u)
  PROVE  t = u
BY DEF OneWriter

\* WRITE: t enters the queue of the lock.
LEMMA SysWriteKeeps ==
  ASSUME ConsoleInv, NEW t \in Thread, SysWriteConsole(t)
  PROVE  ConsoleInv'
<1> USE DEF SysWriteConsole, deviceVars
<1>1. ConsoleTypeOK'
  <2>1. mutexput' \in Seq(Thread)
    BY AppendProperties DEF ConsoleInv, ConsoleTypeOK
  <2>2. left' \in [Thread -> Seq(Character)]
    BY CharacterAssumption DEF ConsoleInv, ConsoleTypeOK
  <2>3. at' \in [Thread -> Step]
    BY DEF ConsoleInv, ConsoleTypeOK, Step
  <2> QED BY <2>1, <2>2, <2>3 DEF ConsoleInv, ConsoleTypeOK
<1>2. \A u \in Thread : /\ Writing(u)' <=> Writing(u)
                        /\ at'[u] = "PutP" <=> at[u] = "PutP"
                        /\ Writing(u) => left'[u] = left[u]
  BY DEF ConsoleInv, ConsoleTypeOK, Writing
<1>3. OneWriter'
  <2>1. mutexput # <<>> => mutexput' # <<>> /\ Head(mutexput') = Head(mutexput)
    <3>1. mutexput \in Seq(Thread) /\ mutexput' = Append(mutexput, t)
      BY DEF ConsoleInv, ConsoleTypeOK
    <3>2. mutexput' # <<>>
      BY <3>1, AppendProperties
    <3>3. mutexput # <<>> => Head(Append(mutexput, t)) = Head(mutexput)
      BY <3>1, HeadTailAppend
    <3> QED BY <3>1, <3>2, <3>3
  <2> QED BY <1>2, <2>1 DEF ConsoleInv, OneWriter
<1>4. CharacterPending'
  BY <1>2 DEF ConsoleInv, CharacterPending
<1>5. DisplayLacksLeft'
  BY <1>2 DEF ConsoleInv, DisplayLacksLeft
<1>6. InputIntact'
  BY InputFrame DEF ConsoleInv
<1> QED BY <1>1, <1>3, <1>4, <1>5, <1>6 DEF ConsoleInv

\* PutString gets the lock: nobody else is in it.
LEMMA PutStringKeeps ==
  ASSUME ConsoleInv, NEW t \in Thread, PutString(t)
  PROVE  ConsoleInv'
<1> USE DEF PutString, LockPut, deviceVars
<1>1. ConsoleTypeOK'
  <2>1. written' \in Seq(Character)
    BY ConcatProperties DEF ConsoleInv, ConsoleTypeOK
  <2>2. at' \in [Thread -> Step]
    BY DEF ConsoleInv, ConsoleTypeOK, Step
  <2> QED BY <2>1, <2>2 DEF ConsoleInv, ConsoleTypeOK
<1>2. \A u \in Thread : ~Writing(u)
  BY DEF ConsoleInv, OneWriter, Writing
<1>3. Writing(t)' /\ at'[t] # "PutP" /\ \A u \in Thread \ {t} : ~Writing(u)'
  BY <1>2 DEF ConsoleInv, ConsoleTypeOK, Writing
<1>4. OneWriter'
  BY <1>3 DEF OneWriter
<1>5. CharacterPending'
  BY <1>2, <1>3 DEF ConsoleInv, CharacterPending, Writing
<1>6. DisplayLacksLeft'
  BY <1>2, <1>3 DEF ConsoleInv, DisplayLacksLeft
<1>7. InputIntact'
  BY InputFrame DEF ConsoleInv
<1> QED BY <1>1, <1>4, <1>5, <1>6, <1>7 DEF ConsoleInv

\* Console::PutChar: the first character left goes to the display.
LEMMA WriteCharKeeps ==
  ASSUME ConsoleInv, NEW t \in Thread, WriteChar(t)
  PROVE  ConsoleInv'
<1> USE DEF WriteChar, syncVars
<1>1. left[t] \in Seq(Character) /\ display \in Seq(Character) /\ left[t] # <<>>
  BY DEF ConsoleInv, ConsoleTypeOK
<1>2. /\ display' \in Seq(Character) /\ Tail(left[t]) \in Seq(Character)
      /\ display' \o Tail(left[t]) = display \o left[t]
  <2>1. display' = Append(display, Head(left[t]))
    OBVIOUS
  <2>2. /\ Tail(left[t]) \in Seq(Character)
        /\ Append(display, Head(left[t])) \in Seq(Character)
        /\ Append(display, Head(left[t])) \o Tail(left[t]) = display \o left[t]
    <3> HIDE DEF WriteChar, syncVars
    <3> QED BY <1>1, MoveFirst, Zenon
  <2> QED BY <2>1, <2>2, Zenon
<1>3. ConsoleTypeOK'
  <2>1. left' \in [Thread -> Seq(Character)]
    BY <1>2 DEF ConsoleInv, ConsoleTypeOK
  <2>2. at' \in [Thread -> Step]
    BY DEF ConsoleInv, ConsoleTypeOK, Step
  <2> QED BY <1>2, <2>1, <2>2 DEF ConsoleInv, ConsoleTypeOK
<1>4. Writing(t) /\ \A u \in Thread \ {t} : ~Writing(u)
  <2>1. Writing(t) /\ OneWriter
    BY DEF ConsoleInv, Writing
  <2> QED BY <2>1, WriterIsAlone
<1>5. Writing(t)' /\ at'[t] = "PutP" /\ \A u \in Thread \ {t} : ~Writing(u)'
  <2>1. at'[t] = "PutP" /\ \A u \in Thread \ {t} : at'[u] = at[u]
    BY DEF ConsoleInv, ConsoleTypeOK
  <2> QED BY <1>4, <2>1 DEF Writing
<1>6. OneWriter'
  BY <1>4, <1>5 DEF ConsoleInv, OneWriter
<1>7. CharacterPending'
  <2>1. put = 0
    BY <1>4 DEF ConsoleInv, CharacterPending, Writing
  <2> QED BY <1>5, <2>1 DEF CharacterPending, Writing
<1>8. DisplayLacksLeft'
  <2>1. left'[t] = Tail(left[t])
    BY DEF ConsoleInv, ConsoleTypeOK
  <2>2. written' = display' \o left'[t]
    BY <1>2, <1>4, <2>1 DEF ConsoleInv, DisplayLacksLeft
  <2> QED BY <1>5, <2>2 DEF DisplayLacksLeft
<1>9. InputIntact'
  BY InputFrame DEF ConsoleInv
<1> QED BY <1>3, <1>6, <1>7, <1>8, <1>9 DEF ConsoleInv

\* put->P(): the device has taken the character.
LEMMA PutPKeeps ==
  ASSUME ConsoleInv, NEW t \in Thread, PutP(t)
  PROVE  ConsoleInv'
<1> USE DEF PutP, deviceVars
<1>1. ConsoleTypeOK'
  <2>1. at' \in [Thread -> Step] /\ put' \in Nat
    BY DEF ConsoleInv, ConsoleTypeOK, Step
  <2> QED BY <2>1 DEF ConsoleInv, ConsoleTypeOK
<1>2. \A u \in Thread : Writing(u)' <=> Writing(u)
  BY DEF ConsoleInv, ConsoleTypeOK, Writing
<1>3. \A u \in Thread : at'[u] # "PutP"
  BY WriterIsAlone DEF ConsoleInv, ConsoleTypeOK, Writing
<1>4. OneWriter'
  BY <1>2 DEF ConsoleInv, OneWriter
<1>5. CharacterPending'
  BY <1>3 DEF ConsoleInv, CharacterPending
<1>6. DisplayLacksLeft'
  BY <1>2 DEF ConsoleInv, DisplayLacksLeft
<1>7. InputIntact'
  BY InputFrame DEF ConsoleInv
<1> QED BY <1>1, <1>4, <1>5, <1>6, <1>7 DEF ConsoleInv

\* The end of PutString: everything is on the display.
LEMMA PutDoneKeeps ==
  ASSUME ConsoleInv, NEW t \in Thread, PutDone(t)
  PROVE  ConsoleInv'
<1> USE DEF PutDone, deviceVars
<1>1. Writing(t) /\ \A u \in Thread \ {t} : ~Writing(u)
  BY WriterIsAlone DEF ConsoleInv, Writing
<1>2. ConsoleTypeOK'
  <2>1. mutexput # <<>>
    BY <1>1 DEF ConsoleInv, OneWriter
  <2>2. mutexput' \in Seq(Thread)
    BY <2>1, HeadTailProperties DEF ConsoleInv, ConsoleTypeOK
  <2>3. at' \in [Thread -> Step]
    BY DEF ConsoleInv, ConsoleTypeOK, Step
  <2> QED BY <2>2, <2>3 DEF ConsoleInv, ConsoleTypeOK
<1>3. \A u \in Thread : ~Writing(u)' /\ at'[u] # "PutP"
  BY <1>1 DEF ConsoleInv, ConsoleTypeOK, Writing
<1>4. OneWriter'
  BY <1>3 DEF OneWriter
<1>5. CharacterPending'
  <2>1. ~putBusy /\ put = 0
    BY <1>1 DEF ConsoleInv, CharacterPending, Writing
  <2> QED BY <1>3, <2>1 DEF CharacterPending
<1>6. DisplayLacksLeft'
  <2>1. display \o <<>> = display
    BY ConcatEmptySeq DEF ConsoleInv, ConsoleTypeOK
  <2>2. written = display
    BY <1>1, <2>1 DEF ConsoleInv, DisplayLacksLeft
  <2> QED BY <1>3, <2>2 DEF DisplayLacksLeft
<1>7. InputIntact'
  BY InputFrame DEF ConsoleInv
<1> QED BY <1>2, <1>4, <1>5, <1>6, <1>7 DEF ConsoleInv

\* Console::WriteDone: the character that was out is now one to wait for.
LEMMA WriteDoneKeeps ==
  ASSUME ConsoleInv, WriteInterrupt
  PROVE  ConsoleInv'
<1> USE DEF WriteInterrupt, WriteDone, threadVars
<1>1. ConsoleTypeOK'
  <2>1. put' \in Nat
    <3>1. put \in Nat /\ put' = put + 1
      BY DEF ConsoleInv, ConsoleTypeOK
    <3> QED BY <3>1
  <2>2. putBusy' \in BOOLEAN
    BY Zenon
  <2>3. UNCHANGED <<at, left, mutexput, incoming, keyboard, got, display, written>>
    OBVIOUS
  <2> QED BY <2>1, <2>2, <2>3 DEF ConsoleInv, ConsoleTypeOK
<1>2. OneWriter' /\ DisplayLacksLeft'
  BY DEF ConsoleInv, OneWriter, DisplayLacksLeft, Writing
<1>3. CharacterPending'
  BY DEF ConsoleInv, CharacterPending
<1>4. InputIntact'
  BY InputFrame DEF ConsoleInv
<1> QED BY <1>1, <1>2, <1>3, <1>4 DEF ConsoleInv

\* A READ that starts, gets its lock or ends moves no character.
LEMMA ReaderMovesKeep ==
  ASSUME ConsoleInv, NEW t \in Thread, SysReadConsole(t) \/ GetString(t) \/ GetDone(t)
  PROVE  ConsoleInv'
<1> USE DEF SysReadConsole, GetString, GetDone, deviceVars, syncVars
<1>1. /\ at' \in [Thread -> Step]
      /\ UNCHANGED <<left, mutexput, put, putBusy, display, written, incoming, keyboard, got, get>>
  BY DEF ConsoleInv, ConsoleTypeOK, Step
<1>2. ConsoleTypeOK'
  BY <1>1 DEF ConsoleInv, ConsoleTypeOK
<1>3. \A u \in Thread : /\ Writing(u)' <=> Writing(u)
                        /\ at'[u] = "PutP" <=> at[u] = "PutP"
  BY DEF ConsoleInv, ConsoleTypeOK, Writing
<1>4. OneWriter' /\ CharacterPending' /\ DisplayLacksLeft'
  BY <1>1, <1>3, OutputFrame
<1>5. InputIntact'
  BY <1>1, InputFrame DEF ConsoleInv
<1> QED BY <1>2, <1>4, <1>5 DEF ConsoleInv

\* get->P() and GetChar: the character goes from the device to the reader.
LEMMA GetPKeeps ==
  ASSUME ConsoleInv, NEW t \in Thread, GetP(t)
  PROVE  ConsoleInv'
<1> USE DEF GetP, ConsoleGetChar
<1>1. incoming # EOF /\ incoming \in Character /\ get = 1
  BY DEF ConsoleInv, ConsoleTypeOK, InputIntact
<1>2. got \in Seq(Character) /\ keyboard \in Seq(Character)
  BY DEF ConsoleInv, ConsoleTypeOK
<1>3. got' \in Seq(Character) /\ got' = got \o <<incoming>>
  BY <1>1, <1>2, AppendProperties, AppendIsConcat
<1>4. ConsoleTypeOK'
  BY <1>3 DEF ConsoleInv, ConsoleTypeOK
<1>5. OneWriter' /\ CharacterPending' /\ DisplayLacksLeft'
  <2>1. /\ at' \in [Thread -> Step]
        /\ \A u \in Thread : /\ Writing(u)' <=> Writing(u)
                             /\ at'[u] = "PutP" <=> at[u] = "PutP"
    BY DEF ConsoleInv, ConsoleTypeOK, Writing
  <2> QED BY <2>1, OutputFrame
<1>6. InputIntact'
  <2>1. PICK typed \in Inputs : typed = (got \o <<incoming>>) \o keyboard
    BY <1>1 DEF ConsoleInv, InputIntact
  <2>2. got' \o <<>> = got'
    BY <1>3, ConcatEmptySeq
  <2>3. typed = (got' \o <<>>) \o keyboard'
    BY <1>3, <2>1, <2>2
  <2>4. get' = 0 /\ incoming' = EOF
    BY <1>1
  <2> QED BY <2>3, <2>4 DEF InputIntact
<1> QED BY <1>4, <1>5, <1>6 DEF ConsoleInv

\* Console::CheckCharAvail: a character goes from the keyboard to the device,
\* if there is one and the device is empty.
LEMMA CheckCharKeeps ==
  ASSUME ConsoleInv, CheckCharAvail
  PROVE  ConsoleInv'
<1> USE DEF CheckCharAvail, threadVars
<1>1. OneWriter' /\ CharacterPending' /\ DisplayLacksLeft'
  <2>1. /\ at' \in [Thread -> Step]
        /\ \A u \in Thread : /\ Writing(u)' <=> Writing(u)
                             /\ at'[u] = "PutP" <=> at[u] = "PutP"
    BY DEF ConsoleInv, ConsoleTypeOK, Writing
  <2> QED BY <2>1, OutputFrame
<1>2. CASE incoming # EOF \/ keyboard = <<>>
  <2>1. UNCHANGED <<incoming, keyboard, get, got>>
    BY <1>2
  <2>2. ConsoleTypeOK'
    BY <2>1 DEF ConsoleInv, ConsoleTypeOK
  <2>3. InputIntact'
    BY <2>1, InputFrame DEF ConsoleInv
  <2> QED BY <1>1, <2>2, <2>3 DEF ConsoleInv
<1>3. CASE ~(incoming # EOF \/ keyboard = <<>>)
  <2>1. /\ incoming = EOF /\ keyboard # <<>>
        /\ incoming' = Head(keyboard) /\ keyboard' = Tail(keyboard)
        /\ get' = get + 1 /\ got' = got
    BY <1>3
  <2>2. got \in Seq(Character) /\ keyboard \in Seq(Character)
    BY DEF ConsoleInv, ConsoleTypeOK
  <2>3. /\ incoming' \in Character /\ keyboard' \in Seq(Character)
        /\ Append(got, incoming') \o keyboard' = got \o keyboard
    BY <2>1, <2>2, MoveFirst
  <2>4. ConsoleTypeOK'
    BY <2>3 DEF ConsoleInv, ConsoleTypeOK
  <2>5. incoming' # EOF
    BY <2>3, CharacterAssumption
  <2>6. Append(got, incoming') = got \o <<incoming'>> /\ got \o <<>> = got
    BY <2>2, <2>3, AppendIsConcat, ConcatEmptySeq
  <2>7. PICK typed \in Inputs : typed = (got \o <<>>) \o keyboard
    BY <2>1 DEF ConsoleInv, InputIntact
  <2>8. typed = (got' \o <<incoming'>>) \o keyboard'
    BY <2>1, <2>3, <2>6, <2>7
  <2>9. get' = 1
    BY <2>1 DEF ConsoleInv, InputIntact
  <2>10. InputIntact'
    BY <2>5, <2>8, <2>9 DEF InputIntact
  <2> QED BY <1>1, <2>4, <2>10 DEF ConsoleInv
<1> QED BY <1>2, <1>3

\* Every step of the console keeps the invariant.
LEMMA ConsoleNextKeeps ==
  ASSUME ConsoleInv, ConsoleNext
  PROVE  ConsoleInv'
<1>1. ASSUME NEW t \in Thread, SysWriteConsole(t) \/ SysReadConsole(t) \/ ConsoleThread(t)
      PROVE  ConsoleInv'
  BY <1>1, SysWriteKeeps, ReaderMovesKeep, PutStringKeeps, WriteCharKeeps, PutPKeeps,
     PutDoneKeeps, GetPKeeps DEF ConsoleThread
<1> QED BY <1>1, WriteDoneKeeps, CheckCharKeeps DEF ConsoleNext

\* The invariant depends on nothing but the console's variables.
LEMMA ConsoleStutters ==
  ASSUME ConsoleInv, UNCHANGED consoleVars
  PROVE  ConsoleInv'
BY DEF ConsoleInv, ConsoleTypeOK, OneWriter, CharacterPending, DisplayLacksLeft, InputIntact,
       Writing, consoleVars, threadVars, deviceVars, syncVars

\* The lock, the semaphore put and the busy flag of the device agree on whose
\* character is out; the display lacks what the writer still has to write.
THEOREM ConsoleInvariant == CharSpec => []ConsoleInv
<1>1. Init => ConsoleInv
  BY ConsoleInitOK DEF Init
<1>2. ConsoleInv /\ [Next]_allVars => ConsoleInv'
  <2> SUFFICES ASSUME ConsoleInv, [Next]_allVars
               PROVE  ConsoleInv'
    OBVIOUS
  <2>1. CASE ConsoleNext
    BY <2>1, ConsoleNextKeeps
  <2>2. CASE UNCHANGED consoleVars
    BY <2>2, ConsoleStutters
  <2> QED BY <2>1, <2>2 DEF Next, allVars
<1> QED BY <1>1, <1>2, PTL DEF CharSpec

\* Console::PutChar never finds the device busy, and the display shows the
\* texts of PutString one after the other, however many threads write.
THEOREM DisplayIsFaithful == CharSpec => []DisplayShowsTexts
<1>1. ConsoleInv => DisplayShowsTexts
  <2> SUFFICES ASSUME ConsoleInv
               PROVE  DisplayShowsTexts
    OBVIOUS
  <2>1. ASSUME NEW t \in Thread, at[t] = "PutChar"
        PROVE  ~putBusy
    <3>1. \A u \in Thread : at[u] # "PutP"
      BY <2>1, WriterIsAlone DEF ConsoleInv, Writing
    <3> QED BY <3>1 DEF ConsoleInv, CharacterPending
  <2>2. IsPrefix(display, written)
    <3>1. display \in Seq(Character) /\ \A t \in Thread : left[t] \in Seq(Character)
      BY DEF ConsoleInv, ConsoleTypeOK
    <3>2. CASE \E t \in Thread : Writing(t)
      BY <3>1, <3>2, PrefixOfConcat DEF ConsoleInv, DisplayLacksLeft
    <3>3. CASE \A t \in Thread : ~Writing(t)
      <4>1. written = display \o <<>>
        BY <3>1, <3>3, ConcatEmptySeq DEF ConsoleInv, DisplayLacksLeft
      <4> QED BY <3>1, <4>1, PrefixOfConcat, EmptySeq
    <3> QED BY <3>2, <3>3
  <2> QED BY <2>1, <2>2 DEF DisplayShowsTexts
<1> QED BY <1>1, ConsoleInvariant, PTL

\* GetString gets every character that is typed once and in its order.
THEOREM InputIsFaithful == CharSpec => []InputIntact
<1>1. ConsoleInv => InputIntact
  BY DEF ConsoleInv
<1> QED BY <1>1, ConsoleInvariant, PTL

-----------------------------------------------------------------------------
(* Characters of the serial line *)

\* A character is the number of its message and its place in it.
LEMMA CodeIs ==
  ASSUME NEW c \in Code
  PROVE  /\ c \in Nat /\ c >= 10 /\ c # 0
         /\ c % 10 \in 0..9 /\ c \div 10 \in Nat /\ c = 10 * (c \div 10) + (c % 10)
         /\ Place(c) \in Nat
         /\ IsZero(0)
<1>1. c \in Nat /\ c >= 10
  BY DEF Code
<1>2. c % 10 \in 0..9 /\ c \div 10 \in Nat /\ c = 10 * (c \div 10) + (c % 10)
  BY <1>1
<1>3. Place(c) \in Nat
  BY <1>1 DEF Place
<1>4. IsZero(0)
  BY DEF IsZero
<1> QED BY <1>1, <1>2, <1>3, <1>4

\* '\0' is the number 0 of a message, and 0 itself what a cut leaves.
LEMMA ZeroIs == IsZero(0)
BY DEF IsZero

\* A function from 1..n is a sequence, and a sequence one.
LEMMA FunIsSequence ==
  ASSUME NEW S, NEW n \in Nat, NEW q \in [1..n -> S]
  PROVE  q \in Seq(S) /\ Len(q) = n
<1> DEFINE e(i) == q[i]
<1>1. \A i \in 1..n : e(i) \in S
  OBVIOUS
<1>2. [i \in 1..n |-> e(i)] \in Seq(S)
  <2> HIDE DEF e
  <2> QED BY <1>1, IsASeq
<1>3. q = [i \in 1..n |-> e(i)]
  OBVIOUS
<1>4. q \in Seq(S)
  BY <1>2, <1>3
<1>5. DOMAIN q = 1..n /\ DOMAIN q = 1..Len(q) /\ Len(q) \in Nat
  BY <1>4, LenProperties
<1> QED BY <1>4, <1>5

\* A sequence of characters is one of numbers.
LEMMA SeqOfNat ==
  ASSUME NEW s \in Seq(Code)
  PROVE  s \in Seq(Nat)
<1>1. Len(s) \in Nat /\ s \in [1..Len(s) -> Code]
  BY LenProperties
<1>2. s \in [1..Len(s) -> Nat]
  BY <1>1 DEF Code
<1> QED BY <1>1, <1>2, FunIsSequence

\* What follows a character in its message is one further or the '\0'.
LEMMA FollowsIs ==
  ASSUME NEW c \in Code, NEW d \in Code, ~IsZero(c), Follows(c, d)
  PROVE  /\ d \div 10 = c \div 10
         /\ ~IsZero(d) => d = c + 1 /\ d % 10 = (c % 10) + 1
         /\ IsZero(d) => d = 10 * (c \div 10)
<1>1. /\ c \in Nat /\ c % 10 \in 0..9 /\ c \div 10 \in Nat /\ c = 10 * (c \div 10) + (c % 10)
      /\ d \in Nat /\ d % 10 \in 0..9 /\ d \div 10 \in Nat /\ d = 10 * (d \div 10) + (d % 10)
  BY CodeIs
<1>2. d \div 10 = c \div 10 /\ (d = c + 1 \/ d = 10 * (c \div 10))
  BY DEF Follows
<1>3. c % 10 # 0
  BY DEF IsZero
<1>4. CASE IsZero(d)
  <2>1. d % 10 = 0
    BY <1>4 DEF IsZero
  <2> QED BY <1>1, <1>2, <1>4, <2>1
<1>5. CASE ~IsZero(d)
  <2>1. d % 10 # 0
    BY <1>5 DEF IsZero
  <2>2. d # 10 * (c \div 10)
    BY <1>1, <1>2, <2>1
  <2>3. d = c + 1
    BY <1>2, <2>2
  <2>4. d % 10 = (c % 10) + 1
    BY <1>1, <1>2, <2>3
  <2> QED BY <1>2, <1>5, <2>3, <2>4
<1> QED BY <1>4, <1>5

\* What is left of the socket when a character has come
LEMMA SocketTail ==
  ASSUME SocketOK, socket # <<>>
  PROVE  /\ Head(socket) \in Code /\ Head(socket) % 10 < BUFFER_SIZE
         /\ Tail(socket) \in Seq(Code) /\ Ordered(Tail(socket)) /\ Speaks(Tail(socket))
         /\ \A i \in DOMAIN Tail(socket) : Tail(socket)[i] % 10 < BUFFER_SIZE
         /\ \A i \in DOMAIN Tail(socket) :
              /\ Place(Head(socket)) < Place(Tail(socket)[i])
              /\ i + 1 \in DOMAIN socket /\ Tail(socket)[i] = socket[i + 1]
         /\ Tail(socket) # <<>> /\ ~IsZero(Head(socket)) => Follows(Head(socket), Tail(socket)[1])
         /\ 1 \in DOMAIN socket /\ Head(socket) = socket[1]
<1>1. PICK s \in Seq(Code) : s = socket
  BY DEF SocketOK
<1>2. Ordered(s) /\ Speaks(s) /\ \A i \in DOMAIN s : s[i] % 10 < BUFFER_SIZE
  BY <1>1 DEF SocketOK
<1>3. PICK r \in Seq(Code) : r = Tail(s)
  BY <1>1, HeadTailProperties
<1>4. Len(s) \in Nat \ {0} /\ DOMAIN s = 1..Len(s) /\ Len(r) = Len(s) - 1
      /\ DOMAIN r = 1..Len(r) /\ Len(r) \in Nat
  BY <1>1, <1>3, HeadTailProperties, EmptySeq, LenProperties
<1>5. \A i \in 1..Len(r) : i + 1 \in DOMAIN s /\ r[i] = s[i + 1]
  BY <1>1, <1>3, <1>4, HeadTailProperties
<1>6. 1 \in DOMAIN s /\ Head(s) = s[1] /\ s[1] \in Code
  BY <1>1, <1>4, HeadTailProperties, ElementOfSeq
<1>7. ASSUME NEW i \in DOMAIN r
      PROVE  Place(s[1]) < Place(r[i])
  <2>1. i + 1 \in DOMAIN s /\ r[i] = s[i + 1] /\ 1 < i + 1
    BY <1>4, <1>5
  <2> QED BY <1>2, <1>6, <2>1 DEF Ordered
<1>8. Ordered(r)
  <2> SUFFICES ASSUME NEW i \in DOMAIN r, NEW j \in DOMAIN r, i < j
               PROVE  Place(r[i]) < Place(r[j])
    BY DEF Ordered
  <2>1. i + 1 \in DOMAIN s /\ j + 1 \in DOMAIN s /\ i + 1 < j + 1
        /\ r[i] = s[i + 1] /\ r[j] = s[j + 1]
    BY <1>4, <1>5
  <2> QED BY <1>2, <2>1 DEF Ordered
<1>9. Speaks(r)
  <2> SUFFICES ASSUME NEW i \in 1..(Len(r) - 1), ~IsZero(r[i]) PROVE Follows(r[i], r[i + 1])
    BY DEF Speaks
  <2>1. i + 1 \in 1..(Len(s) - 1) /\ r[i] = s[i + 1] /\ r[i + 1] = s[(i + 1) + 1]
    BY <1>4, <1>5
  <2> QED BY <1>2, <2>1 DEF Speaks
<1>10. \A i \in DOMAIN r : r[i] % 10 < BUFFER_SIZE
  BY <1>2, <1>4, <1>5
<1>11. r # <<>> /\ ~IsZero(s[1]) => Follows(s[1], r[1])
  <2> SUFFICES ASSUME r # <<>>, ~IsZero(s[1]) PROVE Follows(s[1], r[1])
    OBVIOUS
  <2>1. 1 \in 1..Len(r) /\ 1 \in 1..(Len(s) - 1)
    BY <1>4, EmptySeq
  <2>2. r[1] = s[1 + 1]
    BY <1>5, <2>1
  <2> QED BY <1>2, <2>1, <2>2 DEF Speaks
<1> QED BY <1>1, <1>2, <1>3, <1>4, <1>5, <1>6, <1>7, <1>8, <1>9, <1>10, <1>11

\* A sequence of characters that is one message, without its beginning perhaps
Whole(s) ==
  /\ s \in Seq(Code) /\ s # <<>>
  /\ IsZero(s[Len(s)]) /\ s[Len(s)] = 10 * (s[1] \div 10)
  /\ \A i \in 1..(Len(s) - 1) : ~IsZero(s[i])
  /\ \A i \in 2..(Len(s) - 1) : s[i] = s[i - 1] + 1

\* TtyReceive makes of it one message that is cut.
LEMMA CopiedIs ==
  ASSUME NEW s, Whole(s), NEW n \in Int, n > 0
  PROVE  /\ Copied(s, n) \in Seq(Nat)
         /\ OneMessage(Copied(s, n))
         /\ Copied(s, n) # << 0 >> => Copied(s, n)[1] = s[1]
<1>1. s \in Seq(Code) /\ Len(s) \in Nat \ {0} /\ DOMAIN s = 1..Len(s)
  BY EmptySeq, LenProperties DEF Whole
<1>2. \A i \in 1..Len(s) : s[i] \in Nat /\ s[i] # 0
  BY <1>1, ElementOfSeq, CodeIs
<1>3. CASE Len(s) <= n
  <2>1. Copied(s, n) = s
    BY <1>3 DEF Copied, Terminated, Last, Whole
  <2>2. s \in Seq(Nat)
    BY <1>1, <1>2, SeqOfNat
  <2>3. OneMessage(s)
    BY <1>1 DEF OneMessage, Last, Whole
  <2> QED BY <2>1, <2>2, <2>3
<1>4. CASE ~(Len(s) <= n)
  <2>1. PICK q : q = SubSeq(s, 1, n)
    OBVIOUS
  <2>2. q \in Seq(Code) /\ Len(q) = n /\ n \in 1..(Len(s) - 1) /\ \A i \in 1..n : q[i] = s[i]
    BY <1>1, <1>4, <2>1, SubSeqProperties
  <2>3. DOMAIN q = 1..n
    BY <2>2, LenProperties
  <2>4. ~IsZero(Last(q))
    BY <1>1, <1>4, <2>2 DEF Last, Whole
  <2>5. PICK r : r = [q EXCEPT ![n] = 0]
    OBVIOUS
  <2>6. Copied(s, n) = r
    BY <1>4, <2>1, <2>2, <2>4, <2>5 DEF Copied, Terminated
  <2>7. r \in [1..n -> Nat] /\ r[n] = 0 /\ \A i \in 1..(n - 1) : r[i] = s[i]
    BY <1>1, <1>2, <2>2, <2>3, <2>5
  <2>8. r \in Seq(Nat) /\ Len(r) = n
    BY <2>2, <2>7, FunIsSequence
  <2>9. OneMessage(r)
    <3>1. IsZero(Last(r)) /\ Last(r) = 0
      BY <2>7, <2>8, CodeIs, ZeroIs DEF Last
    <3>2. \A i \in 1..(Len(r) - 1) : ~IsZero(r[i])
      BY <1>1, <2>2, <2>7, <2>8 DEF Whole
    <3>3. ASSUME NEW i \in 2..(Len(r) - 1)
          PROVE  r[i] = r[i - 1] + 1
      <4>1. i \in 1..(n - 1) /\ i - 1 \in 1..(n - 1) /\ i \in 2..(Len(s) - 1)
        BY <2>2, <2>8
      <4>2. r[i] = s[i] /\ r[i - 1] = s[i - 1]
        BY <2>7, <4>1
      <4> QED BY <4>1, <4>2 DEF Whole
    <3> QED BY <3>1, <3>2, <3>3 DEF OneMessage
  <2>10. CASE n = 1
    <3>1. r = << 0 >>
      BY <2>7, <2>8, <2>10
    <3> QED BY <2>6, <2>8, <2>9, <3>1
  <2>11. CASE n # 1
    <3>1. r[1] = s[1]
      BY <2>2, <2>7, <2>11
    <3> QED BY <2>6, <2>8, <2>9, <3>1
  <2> QED BY <2>10, <2>11
<1> QED BY <1>3, <1>4

-----------------------------------------------------------------------------
(* The buffer of the driver *)

\* The first n characters of b are part of one message.
Part(b, n) ==
  /\ \A i \in 0..(n - 1) : b[i] \in Code
  /\ \A i \in 0..(n - 2) : ~IsZero(b[i])
  /\ \A i \in 0..(n - 1) : b[i] \div 10 = b[0] \div 10
  /\ \A i \in 1..(n - 1) : ~IsZero(b[i]) => b[i] = b[i - 1] + 1

\* b with character c of the same message put at n, which is e
GrowsTo(b, n, c, e) ==
  /\ n \in Nat /\ n \in DOMAIN b /\ c \in Code /\ e = [b EXCEPT ![n] = c]
  /\ Part(b, n)
  /\ n > 0 => ~IsZero(b[n - 1]) /\ Follows(b[n - 1], c)

\* InterruptReceive adds what follows.
LEMMA PartGrows ==
  \A b, n, c, e : GrowsTo(b, n, c, e) =>
    Part(e, n + 1) /\ e[n] = c /\ (n > 0 => e[0] = b[0])
<1> SUFFICES ASSUME NEW b, NEW n, NEW c, NEW e, GrowsTo(b, n, c, e)
             PROVE  Part(e, n + 1) /\ e[n] = c /\ (n > 0 => e[0] = b[0])
  OBVIOUS
<1>8. n \in Nat /\ n \in DOMAIN b /\ c \in Code /\ e = [b EXCEPT ![n] = c]
  BY DEF GrowsTo
<1>9. Part(b, n) /\ (n > 0 => ~IsZero(b[n - 1]) /\ Follows(b[n - 1], c))
  BY DEF GrowsTo
<1> USE <1>8, <1>9
<1>1. e[n] = c /\ \A i \in 0..(n - 1) : e[i] = b[i]
  OBVIOUS
<1>2. n > 0 => e[0] = b[0]
  BY <1>1
<1>3. n > 0 => /\ b[n - 1] \in Code /\ c \div 10 = b[n - 1] \div 10
               /\ ~IsZero(c) => c = b[n - 1] + 1
               /\ b[n - 1] \div 10 = b[0] \div 10
  <2> SUFFICES ASSUME n > 0
               PROVE  /\ b[n - 1] \in Code /\ c \div 10 = b[n - 1] \div 10
                      /\ ~IsZero(c) => c = b[n - 1] + 1
                      /\ b[n - 1] \div 10 = b[0] \div 10
    OBVIOUS
  <2>1. n - 1 \in 0..(n - 1)
    OBVIOUS
  <2>2. b[n - 1] \in Code /\ b[n - 1] \div 10 = b[0] \div 10
    BY <2>1 DEF Part
  <2>3. PICK d \in Code : d = b[n - 1]
    BY <2>2
  <2>4. ~IsZero(d) /\ Follows(d, c)
    BY <2>3
  <2>5. c \div 10 = d \div 10 /\ (~IsZero(c) => c = d + 1)
    BY <2>4, FollowsIs
  <2> QED BY <2>2, <2>3, <2>5
<1>4. \A i \in 0..((n + 1) - 1) : e[i] \in Code
  BY <1>1 DEF Part
<1>5. \A i \in 0..((n + 1) - 2) : ~IsZero(e[i])
  <2> SUFFICES ASSUME NEW i \in 0..((n + 1) - 2) PROVE ~IsZero(e[i])
    OBVIOUS
  <2>1. i \in 0..(n - 1) /\ (i = n - 1 \/ i \in 0..(n - 2)) /\ n > 0
    OBVIOUS
  <2> QED BY <1>1, <2>1 DEF Part
<1>6. ASSUME NEW i \in 0..((n + 1) - 1)
      PROVE  e[i] \div 10 = e[0] \div 10
  <2>1. CASE i = n
    BY <1>1, <1>2, <1>3, <2>1
  <2>2. CASE i # n
    <3>1. i \in 0..(n - 1) /\ n > 0
      BY <2>2
    <3>2. b[i] \div 10 = b[0] \div 10
      BY <3>1 DEF Part
    <3> QED BY <1>1, <1>2, <3>1, <3>2
  <2> QED BY <2>1, <2>2
<1>7. ASSUME NEW i \in 1..((n + 1) - 1), ~IsZero(e[i])
      PROVE  e[i] = e[i - 1] + 1
  <2>1. i - 1 \in 0..(n - 1) /\ n > 0 /\ e[i - 1] = b[i - 1]
    BY <1>1
  <2>2. CASE i = n
    BY <1>1, <1>3, <1>7, <2>1, <2>2
  <2>3. CASE i # n
    <3>1. i \in 1..(n - 1) /\ i \in 0..(n - 1)
      BY <2>3
    <3>2. e[i] = b[i]
      BY <1>1, <3>1
    <3>3. b[i] = b[i - 1] + 1
      BY <1>7, <3>1, <3>2 DEF Part
    <3> QED BY <2>1, <3>2, <3>3
  <2> QED BY <2>2, <2>3
<1> QED BY <1>1, <1>2, <1>4, <1>5, <1>6, <1>7 DEF Part

\* With its '\0' it is what TtyReceive copies.
LEMMA PartIsWhole ==
  ASSUME NEW n \in Nat, n > 0, NEW b, Part(b, n), IsZero(b[n - 1])
  PROVE  Whole([i \in 1..n |-> b[i - 1]])
<1>1. PICK s : s = [i \in 1..n |-> b[i - 1]]
  OBVIOUS
<1>2. \A i \in 1..n : i - 1 \in 0..(n - 1) /\ s[i] = b[i - 1] /\ s[i] \in Code
  BY <1>1 DEF Part
<1>3. s \in [1..n -> Code]
  BY <1>1, <1>2
<1>4. s \in Seq(Code) /\ Len(s) = n
  BY <1>3, FunIsSequence
<1>5. s # <<>>
  BY <1>4, EmptySeq
<1>6. IsZero(s[n]) /\ s[n] = 10 * (s[1] \div 10)
  <2>1. n \in 1..n /\ 1 \in 1..n /\ n - 1 \in 0..(n - 1) /\ 1 - 1 = 0
    OBVIOUS
  <2>2. s[n] = b[n - 1] /\ s[1] = b[0] /\ s[n] \in Code
    BY <1>2, <2>1
  <2>3. s[n] \div 10 = s[1] \div 10
    BY <2>1, <2>2 DEF Part
  <2>4. s[n] % 10 = 0 /\ s[n] = 10 * (s[n] \div 10) + (s[n] % 10) /\ s[n] \div 10 \in Nat
    BY <2>2, CodeIs DEF IsZero
  <2> QED BY <2>2, <2>3, <2>4
<1>7. \A i \in 1..(n - 1) : ~IsZero(s[i])
  <2> SUFFICES ASSUME NEW i \in 1..(n - 1) PROVE ~IsZero(s[i])
    OBVIOUS
  <2>1. i - 1 \in 0..(n - 2) /\ s[i] = b[i - 1]
    BY <1>2
  <2> QED BY <2>1 DEF Part
<1>8. \A i \in 2..(n - 1) : s[i] = s[i - 1] + 1
  <2> SUFFICES ASSUME NEW i \in 2..(n - 1) PROVE s[i] = s[i - 1] + 1
    OBVIOUS
  <2>1. i \in 1..(n - 1) /\ i - 1 \in 1..(n - 1) /\ i \in 1..n /\ i - 1 \in 1..n
    OBVIOUS
  <2>2. s[i] = b[i - 1] /\ s[i - 1] = b[(i - 1) - 1] /\ ~IsZero(s[i])
    BY <1>2, <1>7, <2>1
  <2>3. b[i - 1] = b[(i - 1) - 1] + 1
    BY <2>1, <2>2 DEF Part
  <2> QED BY <2>2, <2>3
<1> QED BY <1>1, <1>4, <1>5, <1>6, <1>7, <1>8 DEF Whole

\* A complete message is what Buffered finds.
LEMMA BufferedIs ==
  ASSUME LineTypeOK, BufferOK, mode = {SEND}
  PROVE  Whole(Buffered) /\ Buffered[1] = receive_buffer[0]
<1>1. /\ ind_rec \in Nat /\ ind_rec > 0 /\ ind_rec - 1 \in DOMAIN receive_buffer
      /\ DOMAIN receive_buffer \subseteq Nat
      /\ IsZero(receive_buffer[ind_rec - 1])
      /\ \A j \in 0..(ind_rec - 2) : ~IsZero(receive_buffer[j])
  BY SerialAssumption DEF LineTypeOK, BufferOK
<1> DEFINE End(i) == IsZero(receive_buffer[i]) /\ \A j \in 0..(i - 1) : ~IsZero(receive_buffer[j])
<1>2. End(ind_rec - 1)
  BY <1>1
<1>3. ASSUME NEW i \in DOMAIN receive_buffer, End(i)
      PROVE  i = ind_rec - 1
  <2>1. i \in Nat
    BY <1>1
  <2>2. ~(i < ind_rec - 1)
    <3> SUFFICES ASSUME i < ind_rec - 1 PROVE FALSE
      OBVIOUS
    <3>1. i \in 0..(ind_rec - 2)
      BY <1>1, <2>1
    <3> QED BY <1>1, <1>3, <3>1
  <2>3. ~(i > ind_rec - 1)
    <3> SUFFICES ASSUME i > ind_rec - 1 PROVE FALSE
      OBVIOUS
    <3>1. ind_rec - 1 \in 0..(i - 1)
      BY <1>1, <2>1
    <3> QED BY <1>1, <1>3, <3>1
  <2> QED BY <1>1, <2>1, <2>2, <2>3
<1>4. PICK end : end = CHOOSE i \in DOMAIN receive_buffer : End(i)
  OBVIOUS
<1>5. end = ind_rec - 1
  <2>1. end \in DOMAIN receive_buffer /\ End(end)
    <3> HIDE DEF End
    <3> QED BY <1>1, <1>2, <1>4
  <2> QED BY <1>3, <2>1
<1>6. Buffered = [i \in 1..(end + 1) |-> receive_buffer[i - 1]]
  BY <1>4 DEF Buffered
<1>7. Buffered = [i \in 1..ind_rec |-> receive_buffer[i - 1]]
  BY <1>1, <1>5, <1>6
<1>8. Part(receive_buffer, ind_rec)
  BY DEF Part, BufferOK
<1>9. Whole(Buffered)
  BY <1>1, <1>7, <1>8, PartIsWhole
<1>10. 1 \in 1..ind_rec /\ 1 - 1 = 0
  BY <1>1
<1> QED BY <1>7, <1>9, <1>10

-----------------------------------------------------------------------------
(* The steps of the serial line *)

\* The working modes differ in their flags.
LEMMA ModesAre ==
  /\ {REC, SEND} # {SEND} /\ BUSY_WAITING # {SEND} /\ BUSY_WAITING # {REC, SEND}
  /\ {REC, SEND} \ {REC} = {SEND} /\ REC \in {REC, SEND} /\ REC \notin {SEND}
  /\ REC \notin BUSY_WAITING
<1>1. REC # SEND
  BY DEF REC, SEND
<1> QED BY <1>1 DEF BUSY_WAITING

\* The buffers are empty, and nothing has been read.
LEMMA LineInitOK ==
  ASSUME NEW m, m \in {BUSY_WAITING, {REC, SEND}}, NEW g, SerialInit(m, g)
  PROVE  LineInv
<1>1. LineTypeOK
  <2>1. taken \in Seq(Code)
    BY EmptySeq DEF SerialInit
  <2>2. stage \in [Users -> Stages] /\ lg \in [Users -> Int]
    BY DEF SerialInit, Stages
  <2>3. DOMAIN receive_buffer = 0..(BUFFER_SIZE - 1) /\ ind_rec \in 0..BUFFER_SIZE
    BY SerialAssumption DEF SerialInit
  <2> QED BY <2>1, <2>2, <2>3 DEF SerialInit, LineTypeOK
<1>2. CallsOK
  BY DEF SerialInit, CallsOK
<1>3. SocketOK
  BY SerialAssumption DEF SerialInit, SocketOK
<1>4. DOMAIN taken = {} /\ DOMAIN results = {}
  BY DEF SerialInit
<1>5. TakenOK
  BY <1>4 DEF SerialInit, TakenOK, ReceivesInOrder
<1>6. BufferOK
  <2>1. mode # {SEND}
    BY ModesAre DEF SerialInit
  <2> QED BY <2>1 DEF SerialInit, BufferOK
<1>7. ResultsOK
  <2>1. results \in Seq(Seq(Nat))
    BY EmptySeq DEF SerialInit
  <2> QED BY <1>4, <2>1 DEF SerialInit, ResultsOK, ReceivesOneMessage, Older
<1> QED BY <1>1, <1>2, <1>3, <1>5, <1>6, <1>7 DEF LineInv

\* What reception depends on
lineVars == <<mode, inputRegister, inputState, receive_buffer, ind_rec, socket, taken, results>>

\* A thread that does not receive changes only its own place.
LEMMA LineFrame ==
  ASSUME LineInv, UNCHANGED lineVars, stage' \in [Users -> Stages], lg' \in [Users -> Int],
         \A t \in Users :
           /\ stage'[t] \in {"ReceiveP", "ReceiveAsleep"} => lg'[t] > 0
           /\ stage'[t] \in {"PutChar", "GetChar"} => mode = BUSY_WAITING
  PROVE  LineInv'
<1> USE DEF lineVars
<1>1. LineTypeOK'
  BY DEF LineInv, LineTypeOK
<1>2. CallsOK'
  BY DEF CallsOK
<1>3. SocketOK' /\ TakenOK'
  BY DEF LineInv, SocketOK, TakenOK, ReceivesInOrder
<1>4. mode' # BUSY_WAITING => BufferOK'
  BY DEF LineInv, BufferOK
<1>5. mode' # BUSY_WAITING => ResultsOK'
  BY DEF LineInv, ResultsOK, ReceivesOneMessage, Older
<1> QED BY <1>1, <1>2, <1>3, <1>4, <1>5 DEF LineInv

\* The same, where only thread t moves.
LEMMA StageFrame ==
  ASSUME LineInv, UNCHANGED <<lineVars, lg>>, NEW t \in Users, NEW next \in Stages,
         stage' = [stage EXCEPT ![t] = next],
         next \in {"ReceiveP", "ReceiveAsleep"} => lg[t] > 0,
         next \in {"PutChar", "GetChar"} => mode = BUSY_WAITING
  PROVE  LineInv'
<1>1. stage \in [Users -> Stages] /\ lg \in [Users -> Int]
  BY DEF LineInv, LineTypeOK
<1>2. stage' \in [Users -> Stages]
  BY <1>1
<1>3. ASSUME NEW u \in Users
      PROVE  /\ stage'[u] \in {"ReceiveP", "ReceiveAsleep"} => lg'[u] > 0
             /\ stage'[u] \in {"PutChar", "GetChar"} => mode = BUSY_WAITING
  BY <1>1 DEF LineInv, CallsOK
<1> QED BY <1>1, <1>2, <1>3, LineFrame

\* TTY_SEND and TtySend
LEMMA SendKeeps ==
  ASSUME LineInv, NEW t \in Users,
         \/ SysTtySend(t) \/ TtySendWaits(t) \/ TtySendBusy(t) \/ TtySendChar(t)
         \/ TtySendInterrupt(t) \/ TtySendExit(t)
  PROVE  LineInv'
<1> USE DEF lineVars, Stages
<1>1. CASE SysTtySend(t)
  BY <1>1, StageFrame DEF SysTtySend, aciaVars, driverVars, historyVars
<1>2. CASE TtySendWaits(t)
  BY <1>2, StageFrame DEF TtySendWaits, aciaVars, historyVars
<1>3. CASE TtySendBusy(t)
  BY <1>3, StageFrame DEF TtySendBusy, aciaVars
<1>4. CASE TtySendChar(t)
  <2>1. CASE stage' = [stage EXCEPT ![t] = "none"]
    BY <1>4, <2>1, StageFrame DEF TtySendChar, Transmit, historyVars
  <2>2. CASE UNCHANGED stage
    <3>1. stage[t] \in Stages /\ stage' = [stage EXCEPT ![t] = stage[t]]
      BY <2>2 DEF LineInv, LineTypeOK
    <3> QED BY <1>4, <2>2, <3>1, StageFrame DEF TtySendChar, Transmit, historyVars, LineInv, CallsOK
  <2> QED BY <1>4, <2>1, <2>2 DEF TtySendChar
<1>5. CASE TtySendInterrupt(t)
  BY <1>5, StageFrame DEF TtySendInterrupt, Transmit
<1>6. CASE TtySendExit(t)
  BY <1>6, LineFrame DEF TtySendExit, aciaVars, driverVars, historyVars, LineInv, LineTypeOK, CallsOK
<1> QED BY <1>1, <1>2, <1>3, <1>4, <1>5, <1>6

\* TTY_RECEIVE and what TtyReceive does before it has the semaphore
LEMMA ReceiveWaitsKeeps ==
  ASSUME LineInv, NEW t \in Users,
         \/ SysTtyReceive(t) \/ TtyReceiveWaits(t) \/ TtyReceiveBusy(t) \/ TtyReceiveExit(t)
  PROVE  LineInv'
<1> USE DEF lineVars, Stages
<1>1. CASE SysTtyReceive(t)
  <2>1. PICK n \in Capacities :
          /\ lg' = [lg EXCEPT ![t] = n]
          /\ stage' = [stage EXCEPT ![t] = IF n <= 0 THEN "none" ELSE "ReceiveP"]
    BY <1>1 DEF SysTtyReceive
  <2>2. n \in Int /\ stage \in [Users -> Stages] /\ lg \in [Users -> Int]
    BY SerialAssumption DEF LineInv, LineTypeOK
  <2>3. stage' \in [Users -> Stages] /\ lg' \in [Users -> Int]
    BY <2>1, <2>2
  <2>4. ASSUME NEW u \in Users
        PROVE  /\ stage'[u] \in {"ReceiveP", "ReceiveAsleep"} => lg'[u] > 0
               /\ stage'[u] \in {"PutChar", "GetChar"} => mode = BUSY_WAITING
    BY <2>1, <2>2 DEF LineInv, CallsOK
  <2>5. UNCHANGED lineVars
    BY <1>1 DEF SysTtyReceive, aciaVars, driverVars, historyVars
  <2> QED BY <2>3, <2>4, <2>5, LineFrame
<1>2. CASE TtyReceiveWaits(t)
  <2>1. lg[t] > 0
    BY <1>2 DEF TtyReceiveWaits, LineInv, CallsOK
  <2> QED BY <1>2, <2>1, StageFrame DEF TtyReceiveWaits, aciaVars, historyVars
<1>3. CASE TtyReceiveBusy(t)
  BY <1>3, StageFrame DEF TtyReceiveBusy, aciaVars, historyVars
<1>4. CASE TtyReceiveExit(t)
  BY <1>4, LineFrame DEF TtyReceiveExit, aciaVars, driverVars, historyVars, LineInv, LineTypeOK, CallsOK
<1> QED BY <1>1, <1>2, <1>3, <1>4

\* Emission leaves reception alone.
LEMMA EmissionKeeps ==
  ASSUME LineInv, InterruptEm
  PROVE  LineInv'
BY LineFrame DEF InterruptEm, InterruptSend, lineVars, callVars, historyVars, LineInv, LineTypeOK, CallsOK

\* A thread that polls takes the character in the register.
LEMMA ReceiveCharKeeps ==
  ASSUME LineInv, NEW t \in Users, TtyReceiveChar(t)
  PROVE  LineInv'
<1>1. mode = BUSY_WAITING /\ inputState # "EMPTY" /\ stage \in [Users -> Stages]
      /\ UNCHANGED <<mode, socket, receive_buffer, ind_rec, lg>>
  BY DEF LineInv, LineTypeOK, CallsOK, TtyReceiveChar
<1>2. PICK c \in Code : c = inputRegister
  BY <1>1 DEF LineInv, TakenOK
<1>3. taken \in Seq(Code) /\ taken' = Append(taken, c) /\ inputState' = "EMPTY" /\ inputRegister' = 0
  BY <1>2 DEF LineInv, LineTypeOK, TtyReceiveChar, DrainInput
<1>4. stage' = stage \/ stage' = [stage EXCEPT ![t] = "none"]
  BY DEF TtyReceiveChar
<1>5. /\ taken' \in Seq(Code) /\ Len(taken) \in Nat
      /\ DOMAIN taken = 1..Len(taken) /\ DOMAIN taken' = 1..(Len(taken) + 1)
      /\ taken'[Len(taken) + 1] = c
      /\ \A i \in 1..Len(taken) : taken'[i] = taken[i]
  BY <1>3, LenProperties, AppendProperties
<1>6. LineTypeOK'
  BY <1>1, <1>3, <1>4, <1>5 DEF LineInv, LineTypeOK, Stages
<1>7. CallsOK'
  BY <1>1, <1>4 DEF LineInv, CallsOK
<1>8. SocketOK'
  BY <1>1 DEF LineInv, SocketOK
<1>9. /\ \A i \in DOMAIN taken : Place(taken[i]) < Place(c)
      /\ \A j \in DOMAIN socket : Place(c) < Place(socket[j])
      /\ \A i \in DOMAIN taken, j \in DOMAIN socket : Place(taken[i]) < Place(socket[j])
      /\ \A i, j \in DOMAIN taken : i < j => Place(taken[i]) < Place(taken[j])
  BY <1>1, <1>2 DEF LineInv, TakenOK, ReceivesInOrder
<1>10. ReceivesInOrder'
  <2> SUFFICES ASSUME NEW i \in DOMAIN taken', NEW j \in DOMAIN taken', i < j
               PROVE  Place(taken'[i]) < Place(taken'[j])
    BY DEF ReceivesInOrder
  <2>1. i \in DOMAIN taken /\ taken'[i] = taken[i]
    BY <1>5
  <2>2. CASE j = Len(taken) + 1
    BY <1>5, <1>9, <2>1, <2>2
  <2>3. CASE j # Len(taken) + 1
    <3>1. j \in DOMAIN taken /\ taken'[j] = taken[j]
      BY <1>5, <2>3
    <3> QED BY <1>9, <2>1, <3>1
  <2> QED BY <2>2, <2>3
<1>11. ASSUME NEW i \in DOMAIN taken', NEW j \in DOMAIN socket'
       PROVE  Place(taken'[i]) < Place(socket'[j])
  <2>1. j \in DOMAIN socket /\ socket'[j] = socket[j]
    BY <1>1
  <2>2. CASE i = Len(taken) + 1
    BY <1>5, <1>9, <2>1, <2>2
  <2>3. CASE i # Len(taken) + 1
    <3>1. i \in DOMAIN taken /\ taken'[i] = taken[i]
      BY <1>5, <2>3
    <3> QED BY <1>9, <2>1, <3>1
  <2> QED BY <2>2, <2>3
<1>12. TakenOK'
  BY <1>3, <1>10, <1>11 DEF TakenOK
<1> QED BY <1>1, <1>6, <1>7, <1>8, <1>12 DEF LineInv

\* TtyReceive copies the message and makes room for the next one.
LEMMA ReceiveInterruptKeeps ==
  ASSUME LineInv, NEW t \in Users, TtyReceiveInterrupt(t)
  PROVE  LineInv'
<1>1. /\ mode = {SEND} /\ mode' = {REC, SEND} /\ ind_rec' = 0
      /\ UNCHANGED <<inputRegister, inputState, receive_buffer, socket, lg, taken>>
      /\ stage' = [stage EXCEPT ![t] = "none"]
      /\ stage[t] \in {"ReceiveP", "ReceiveAsleep"}
  BY DEF TtyReceiveInterrupt, Restart, MayReceive, Passes
<1>2. stage \in [Users -> Stages] /\ lg \in [Users -> Int] /\ lg[t] > 0 /\ lg[t] \in Int
  BY <1>1 DEF LineInv, LineTypeOK, CallsOK
<1>3. LineTypeOK /\ BufferOK /\ ResultsOK /\ ind_rec > 0
  BY <1>1, ModesAre DEF LineInv, BufferOK
<1>4. PICK r : r = Copied(Buffered, lg[t])
  OBVIOUS
<1>5. results' = Append(results, r)
  BY <1>4 DEF TtyReceiveInterrupt
<1>6. /\ r \in Seq(Nat) /\ OneMessage(r)
      /\ r # << 0 >> => r[1] = receive_buffer[0]
  <2>1. PICK s : s = Buffered
    OBVIOUS
  <2>2. Whole(s) /\ s[1] = receive_buffer[0]
    BY <1>1, <1>3, <2>1, BufferedIs
  <2>3. PICK n \in Int : n = lg[t] /\ n > 0
    BY <1>2
  <2>4. /\ Copied(s, n) \in Seq(Nat) /\ OneMessage(Copied(s, n))
        /\ Copied(s, n) # << 0 >> => Copied(s, n)[1] = s[1]
    BY <2>2, <2>3, CopiedIs
  <2> QED BY <1>4, <2>1, <2>2, <2>3, <2>4
<1>7. /\ results \in Seq(Seq(Nat)) /\ results' \in Seq(Seq(Nat)) /\ Len(results) \in Nat
      /\ DOMAIN results = 1..Len(results) /\ DOMAIN results' = 1..(Len(results) + 1)
      /\ results'[Len(results) + 1] = r
      /\ \A i \in 1..Len(results) : results'[i] = results[i]
  <2>1. results \in Seq(Seq(Nat))
    BY <1>3 DEF ResultsOK
  <2> QED BY <1>5, <1>6, <2>1, LenProperties, AppendProperties
<1>8. /\ \A i \in DOMAIN results : OneMessage(results[i])
      /\ \A i, j \in DOMAIN results : i < j /\ << 0 >> \notin {results[i], results[j]} =>
           Place(results[i][1]) < Place(results[j][1])
  BY <1>1, <1>3, ModesAre DEF ResultsOK, ReceivesOneMessage
<1>9. \A i \in DOMAIN results : results[i] # << 0 >> =>
        /\ Place(results[i][1]) < Place(receive_buffer[0])
        /\ \A j \in DOMAIN socket : Place(results[i][1]) < Place(socket[j])
  BY <1>3 DEF ResultsOK, Older
<1>10. \A j \in DOMAIN socket : Place(receive_buffer[0]) < Place(socket[j])
  BY <1>3 DEF ResultsOK
<1>11. ReceivesOneMessage'
  <2>1. ASSUME NEW i \in DOMAIN results'
        PROVE  OneMessage(results'[i])
    <3>1. CASE i = Len(results) + 1
      BY <1>6, <1>7, <3>1
    <3>2. CASE i # Len(results) + 1
      <4>1. i \in DOMAIN results /\ results'[i] = results[i]
        BY <1>7, <3>2
      <4> QED BY <1>8, <4>1
    <3> QED BY <3>1, <3>2
  <2>2. ASSUME NEW i \in DOMAIN results', NEW j \in DOMAIN results', i < j,
               << 0 >> \notin {results'[i], results'[j]}
        PROVE  Place(results'[i][1]) < Place(results'[j][1])
    <3>0. i \in 1..Len(results) /\ results'[i] # << 0 >>
      BY <1>7, <2>2
    <3>1. i \in DOMAIN results /\ results'[i] = results[i] /\ results[i] # << 0 >>
      BY <1>7, <3>0
    <3>2. CASE j = Len(results) + 1
      <4>1. results'[j] = r /\ r # << 0 >>
        BY <1>7, <2>2, <3>2
      <4> QED BY <1>6, <1>9, <3>1, <4>1
    <3>3. CASE j # Len(results) + 1
      <4>1. j \in DOMAIN results /\ results'[j] = results[j]
        BY <1>7, <3>3
      <4> QED BY <1>8, <2>2, <3>1, <4>1
    <3> QED BY <3>2, <3>3
  <2> QED BY <2>1, <2>2 DEF ReceivesOneMessage
<1>12. ASSUME NEW i \in DOMAIN results', results'[i] # << 0 >>
       PROVE  Older(Place(results[i][1]))'
  <2>1. ASSUME NEW j \in DOMAIN socket
        PROVE  Place(results'[i][1]) < Place(socket[j])
    <3>1. CASE i = Len(results) + 1
      <4>1. results'[i] = r
        BY <1>7, <3>1
      <4> QED BY <1>6, <1>10, <1>12, <4>1
    <3>2. CASE i # Len(results) + 1
      <4>1. i \in DOMAIN results /\ results'[i] = results[i]
        BY <1>7, <3>2
      <4> QED BY <1>9, <1>12, <4>1
    <3> QED BY <3>1, <3>2
  <2> QED BY <1>1, <2>1 DEF Older
<1>13. ResultsOK'
  BY <1>1, <1>7, <1>11, <1>12 DEF ResultsOK
<1>14. BufferOK'
  BY <1>1, ModesAre DEF BufferOK
<1>15. LineTypeOK'
  BY <1>1, <1>2, <1>3, SerialAssumption DEF LineTypeOK, Stages
<1>16. CallsOK'
  <2> SUFFICES ASSUME NEW u \in Users
               PROVE  /\ stage'[u] \in {"ReceiveP", "ReceiveAsleep"} => lg'[u] > 0
                      /\ stage'[u] \notin {"PutChar", "GetChar"}
    BY DEF CallsOK
  <2>1. /\ stage[u] \in {"ReceiveP", "ReceiveAsleep"} => lg[u] > 0
        /\ stage[u] \notin {"PutChar", "GetChar"}
    BY <1>1, ModesAre DEF LineInv, CallsOK
  <2>2. stage'[u] = stage[u] \/ stage'[u] = "none"
    BY <1>1, <1>2
  <2> QED BY <1>1, <2>1, <2>2
<1>17. SocketOK' /\ TakenOK'
  BY <1>1, ModesAre DEF LineInv, SocketOK, TakenOK, ReceivesInOrder
<1> QED BY <1>13, <1>14, <1>15, <1>16, <1>17 DEF LineInv

\* InterruptRec with reception allowed: InterruptReceive adds the character
\* to the buffer.
LEMMA ReceiveKeeps ==
  ASSUME LineInv, InterruptRec, REC \in mode
  PROVE  LineInv'
<1>1. /\ mode = {REC, SEND} /\ BufferOK /\ ResultsOK /\ LineTypeOK /\ SocketOK /\ socket # <<>>
      /\ CallsOK /\ TakenOK
  BY ModesAre DEF LineInv, LineTypeOK, InterruptRec
<1>2. PICK c \in Code : c = Head(socket)
  BY <1>1, SocketTail
<1>3. PICK s \in Seq(Code) : s = Tail(socket)
  BY <1>1, SocketTail
<1>4. /\ c % 10 < BUFFER_SIZE /\ Ordered(s) /\ Speaks(s)
      /\ \A i \in DOMAIN s : s[i] % 10 < BUFFER_SIZE
      /\ \A i \in DOMAIN s : /\ Place(c) < Place(s[i])
                             /\ i + 1 \in DOMAIN socket /\ s[i] = socket[i + 1]
      /\ s # <<>> /\ ~IsZero(c) => Follows(c, s[1])
      /\ 1 \in DOMAIN socket /\ c = socket[1]
  BY <1>1, <1>2, <1>3, SocketTail
<1>5. PICK n \in Nat : n = ind_rec
  BY <1>1 DEF LineTypeOK
<1>6. PICK b : b = receive_buffer
  OBVIOUS
<1>7. PICK e : e = [b EXCEPT ![n] = c]
  OBVIOUS
<1>8. /\ socket' = s /\ ind_rec' = n + 1 /\ receive_buffer' = e
      /\ inputState' = "EMPTY" /\ inputRegister' = 0
      /\ IF IsZero(c) THEN mode' = {SEND} ELSE mode' = {REC, SEND}
      /\ UNCHANGED <<stage, lg, taken, results>>
  BY <1>1, <1>2, <1>3, <1>5, <1>6, <1>7, ModesAre
  DEF InterruptRec, InterruptReceive, DrainInput, callVars, historyVars
<1>9. Part(b, n) /\ DOMAIN b = 0..(BUFFER_SIZE - 1) /\ n \in 0..BUFFER_SIZE /\ BUFFER_SIZE \in Nat
  BY <1>1, <1>5, <1>6, SerialAssumption DEF BufferOK, Part, LineTypeOK
<1>10. n > 0 => /\ b[n - 1] \in Code /\ n <= b[n - 1] % 10 /\ b[n - 1] % 10 < BUFFER_SIZE
                /\ Follows(b[n - 1], c)
  <2> SUFFICES ASSUME n > 0
               PROVE  /\ b[n - 1] \in Code /\ n <= b[n - 1] % 10 /\ b[n - 1] % 10 < BUFFER_SIZE
                      /\ Follows(b[n - 1], c)
    OBVIOUS
  <2>1. b[n - 1] \in Code
    BY <1>9 DEF Part
  <2>2. n <= b[n - 1] % 10 /\ b[n - 1] % 10 < BUFFER_SIZE /\ Follows(b[n - 1], socket[1])
    BY <1>1, <1>5, <1>6 DEF BufferOK
  <2> QED BY <1>4, <2>1, <2>2
<1>11. c % 10 \in 0..9 /\ (~IsZero(c) => c % 10 > 0)
  BY CodeIs DEF IsZero
<1>12. n > 0 => /\ ~IsZero(b[n - 1]) /\ n < BUFFER_SIZE
                /\ ~IsZero(c) => n + 1 <= c % 10
  <2> SUFFICES ASSUME n > 0
               PROVE  /\ ~IsZero(b[n - 1]) /\ n < BUFFER_SIZE
                      /\ ~IsZero(c) => n + 1 <= c % 10
    OBVIOUS
  <2>1. PICK d \in Code : d = b[n - 1]
    BY <1>10
  <2>2. n <= d % 10 /\ d % 10 < BUFFER_SIZE /\ Follows(d, c) /\ d % 10 \in 0..9
    BY <1>10, <2>1, CodeIs
  <2>3. ~IsZero(d)
    BY <2>2 DEF IsZero
  <2>4. ~IsZero(c) => c % 10 = (d % 10) + 1
    BY <2>2, <2>3, FollowsIs
  <2> QED BY <1>9, <1>11, <2>1, <2>2, <2>3, <2>4
<1>13. n \in DOMAIN b
  BY <1>4, <1>9, <1>11, <1>12
<1>14. Part(e, n + 1) /\ e[n] = c /\ (n > 0 => e[0] = b[0])
  <2>1. n > 0 => ~IsZero(b[n - 1]) /\ Follows(b[n - 1], c)
    BY <1>10, <1>12
  <2>2. Part(b, n)
    BY <1>9
  <2>3. n \in Nat /\ n \in DOMAIN b /\ c \in Code /\ e = [b EXCEPT ![n] = c]
    BY <1>7, <1>13
  <2>4. GrowsTo(b, n, c, e)
    BY <2>1, <2>2, <2>3 DEF GrowsTo
  <2> QED BY <2>4, PartGrows
<1>15. LineTypeOK'
  <2>1. DOMAIN e = 0..(BUFFER_SIZE - 1) /\ n + 1 \in 0..BUFFER_SIZE
    BY <1>7, <1>9, <1>13
  <2> QED BY <1>1, <1>8, <2>1 DEF LineTypeOK
<1>16. CallsOK'
  BY <1>1, <1>8, ModesAre DEF CallsOK
<1>17. SocketOK'
  BY <1>4, <1>8 DEF SocketOK
<1>18. TakenOK'
  BY <1>1, <1>4, <1>8 DEF TakenOK, ReceivesInOrder
<1>19. BufferOK'
  <2>1. (n + 1) - 1 = n /\ n + 1 > 0
    OBVIOUS
  <2>2. mode' = {SEND} => IsZero(e[n])
    BY <1>8, <1>14, ModesAre
  <2>3. mode' = {REC, SEND} => n + 1 <= e[n] % 10 /\ e[n] % 10 < BUFFER_SIZE
    BY <1>4, <1>8, <1>11, <1>12, <1>14, ModesAre
  <2>4. mode' = {REC, SEND} /\ s # <<>> => Follows(e[n], s[1])
    BY <1>4, <1>8, <1>14, ModesAre
  <2> QED BY <1>8, <1>14, <2>1, <2>2, <2>3, <2>4 DEF BufferOK, Part
<1>20. \A j \in DOMAIN s : Place(e[0]) < Place(s[j])
  <2>1. CASE n = 0
    BY <1>4, <1>14, <2>1
  <2>2. CASE n # 0
    <3>1. \A j \in DOMAIN socket : Place(b[0]) < Place(socket[j])
      BY <1>1, <1>5, <1>6, <2>2 DEF ResultsOK
    <3> QED BY <1>4, <1>14, <2>2, <3>1
  <2> QED BY <2>1, <2>2
<1>21. ASSUME NEW r \in DOMAIN results, results[r] # << 0 >>
       PROVE  /\ Place(results[r][1]) < Place(e[0])
              /\ \A j \in DOMAIN s : Place(results[r][1]) < Place(s[j])
  <2>1. /\ n > 0 => Place(results[r][1]) < Place(b[0])
        /\ \A j \in DOMAIN socket : Place(results[r][1]) < Place(socket[j])
    BY <1>1, <1>5, <1>6, <1>21 DEF ResultsOK, Older
  <2>2. n = 0 \/ n > 0
    OBVIOUS
  <2> QED BY <1>4, <1>14, <2>1, <2>2
<1>22. ResultsOK'
  <2>1. ReceivesOneMessage'
    BY <1>1, <1>8, ModesAre DEF ResultsOK, ReceivesOneMessage
  <2>2. results' \in Seq(Seq(Nat))
    BY <1>1, <1>8 DEF ResultsOK
  <2> QED BY <1>8, <1>20, <1>21, <2>1, <2>2 DEF ResultsOK, Older
<1> QED BY <1>15, <1>16, <1>17, <1>18, <1>19, <1>22 DEF LineInv

\* InterruptRec otherwise: the register is overwritten.
LEMMA OverwriteKeeps ==
  ASSUME LineInv, InterruptRec, REC \notin mode
  PROVE  LineInv'
<1>1. /\ mode \in {BUSY_WAITING, {SEND}} /\ LineTypeOK /\ SocketOK /\ socket # <<>>
      /\ CallsOK /\ TakenOK
  BY ModesAre DEF LineInv, LineTypeOK, InterruptRec
<1>2. PICK c \in Code : c = Head(socket)
  BY <1>1, SocketTail
<1>3. PICK s \in Seq(Code) : s = Tail(socket)
  BY <1>1, SocketTail
<1>4. /\ Ordered(s) /\ Speaks(s)
      /\ \A i \in DOMAIN s : s[i] % 10 < BUFFER_SIZE
      /\ \A i \in DOMAIN s : /\ Place(c) < Place(s[i])
                             /\ i + 1 \in DOMAIN socket /\ s[i] = socket[i + 1]
      /\ 1 \in DOMAIN socket /\ c = socket[1]
  BY <1>1, <1>2, <1>3, SocketTail
<1>5. /\ socket' = s /\ inputRegister' = c /\ inputState' = "FULL"
      /\ UNCHANGED <<mode, ind_rec, receive_buffer, stage, lg, taken, results>>
  BY <1>2, <1>3 DEF InterruptRec, callVars, historyVars
<1>6. LineTypeOK'
  BY <1>1, <1>5, CodeIs DEF LineTypeOK
<1>7. CallsOK' /\ SocketOK'
  BY <1>1, <1>4, <1>5 DEF CallsOK, SocketOK
<1>8. TakenOK'
  BY <1>1, <1>4, <1>5 DEF TakenOK, ReceivesInOrder
<1>9. mode' # BUSY_WAITING => BufferOK' /\ ResultsOK'
  <2> SUFFICES ASSUME mode # BUSY_WAITING PROVE BufferOK' /\ ResultsOK'
    BY <1>5
  <2>1. mode = {SEND} /\ BufferOK /\ ResultsOK
    BY <1>1 DEF LineInv
  <2>2. BufferOK'
    BY <1>5, <2>1, ModesAre DEF BufferOK
  <2>3. ReceivesOneMessage'
    BY <1>5, <2>1 DEF ResultsOK, ReceivesOneMessage
  <2>4. ResultsOK'
    BY <1>4, <1>5, <2>1, <2>3 DEF ResultsOK, Older
  <2> QED BY <2>2, <2>4
<1> QED BY <1>6, <1>7, <1>8, <1>9 DEF LineInv

\* Every step of the serial line keeps the invariant.
LEMMA SerialNextKeeps ==
  ASSUME LineInv, SerialNext
  PROVE  LineInv'
<1>1. ASSUME NEW t \in Users,
             \/ SysTtySend(t) \/ TtySendWaits(t) \/ TtySendBusy(t) \/ TtySendChar(t)
             \/ TtySendInterrupt(t) \/ TtySendExit(t)
             \/ SysTtyReceive(t) \/ TtyReceiveWaits(t) \/ TtyReceiveBusy(t) \/ TtyReceiveChar(t)
             \/ TtyReceiveInterrupt(t) \/ TtyReceiveExit(t)
      PROVE  LineInv'
  BY <1>1, SendKeeps, ReceiveWaitsKeeps, ReceiveCharKeeps, ReceiveInterruptKeeps
<1>2. CASE InterruptRec
  BY <1>2, ReceiveKeeps, OverwriteKeeps
<1>3. CASE InterruptEm
  BY <1>3, EmissionKeeps
<1> QED BY <1>1, <1>2, <1>3 DEF SerialNext

\* The buffer of the driver has part of one message, whoever receives, and
\* what has been received is older than what is still to come.
THEOREM LineInvariant == CharSpec => []LineInv
<1>1. Init => LineInv
  BY LineInitOK DEF Init
<1>2. LineInv /\ [Next]_allVars => LineInv'
  <2> SUFFICES ASSUME LineInv, [Next]_allVars
               PROVE  LineInv'
    OBVIOUS
  <2>1. CASE SerialNext
    BY <2>1, SerialNextKeeps
  <2>2. CASE UNCHANGED serialVars
    BY <2>2, LineFrame DEF serialVars, aciaVars, driverVars, callVars, historyVars, lineVars,
       LineInv, LineTypeOK, CallsOK
  <2> QED BY <2>1, <2>2 DEF Next, allVars
<1> QED BY <1>1, <1>2, PTL DEF CharSpec

\* TtyReceive returns parts of one message and nothing twice with interrupts,
\* and characters in their order while polling.
THEOREM MessagesAreReceived == CharSpec => []MessagesArrive
<1>1. LineInv => MessagesArrive
  BY DEF LineInv, MessagesArrive, ResultsOK, TakenOK, ReceivesOneMessage
<1> QED BY <1>1, LineInvariant, PTL

=============================================================================
