---------------------------- MODULE DriverProofs ----------------------------
(***************************************************************************)
(* Proofs about the clock, the keyboard, the boot with its interrupts, the *)
(* mouse, the enumeration of PCI and the kernel's stop, which share no     *)
(* state.  First, of the clock: the time that RTC::Update shows, for every *)
(* length of the fields and of the period.  The invariant looks inside an  *)
(* Update at the time it would show if the clock stood still from now on:  *)
(* the registers read so far and the clock's own fields for the rest.      *)
(***************************************************************************)
EXTENDS Clock, KeyBoard, Interrupts, Mouse, PCI, Panic, TLAPS

(* Inside of an Update, the time it would show with a stopped clock.       *)
Merged == [k \in Field |-> IF k < next THEN Converted(reg[k]) ELSE now[k]]

Near(t) == \A k \in Field : t[k] \in {began[k], (began[k] + 1) % Radix[k]}

Inside == next # 0 => /\ Merged = began \/ Earlier(began, Merged)
                      /\ ~ticked => Merged = began /\ now = began
                      /\ Near(Merged) /\ Near(now)

IInv == TypeOK /\ Inside /\ QuietIsExact /\ NeverBehind /\ Torn /\ Fresh

(* BCD and back, or binary, is the number that the clock counts.           *)
LEMMA ConvertedBack == ASSUME NEW n \in Nat PROVE Converted(Coded(n)) = n /\ Coded(n) \in Nat
BY DEF Converted, Coded

LEMMA ConvertedNat == ASSUME NEW n \in Nat PROVE Converted(n) \in Nat
BY DEF Converted

LEMMA RadixPositive == \A k \in Field : Radix[k] \in Nat \ {0}
BY RadixAssumption DEF Field

-----------------------------------------------------------------------------
(* Only the clock's own seconds move it, and only forward.                 *)
LEMMA SecondForward ==
    ASSUME TypeOK, Second
    PROVE  /\ now' \in Times /\ Earlier(now, now')
           /\ \A k \in Field : now'[k] < Radix[k]
           /\ \A k \in Field : now'[k] \in {now[k], (now[k] + 1) % Radix[k]}
<1>1. PICK c \in Field : /\ now[c] < Radix[c] - 1
                         /\ \A k \in 1 .. c - 1 : now[k] = Radix[k] - 1
                         /\ now' = [k \in Field |-> IF k < c THEN 0 ELSE IF k = c THEN now[c] + 1 ELSE now[k]]
  BY DEF Second
<1>2. now \in [Field -> Nat] /\ \A k \in Field : now[k] < Radix[k]
  BY DEF TypeOK, Times
<1>3. c \in 1 .. 6
  BY DEF Field
<1>4. now' \in Times
  BY <1>1, <1>2, <1>3 DEF Times
<1>5. Earlier(now, now')
  <2>1. now[c] < now'[c]
    BY <1>1, <1>2, <1>3 DEF Field
  <2>2. \A k \in c + 1 .. 6 : now[k] = now'[k]
    BY <1>1, <1>2, <1>3 DEF Field
  <2> QED BY <2>1, <2>2 DEF Earlier
<1>6. ASSUME NEW k \in Field
      PROVE  now'[k] < Radix[k] /\ now'[k] \in {now[k], (now[k] + 1) % Radix[k]}
  <2>0. Radix[k] \in Nat \ {0} /\ Radix[c] \in Nat \ {0} /\ now[k] \in Nat /\ k \in 1 .. 6 /\ now[k] < Radix[k]
    BY RadixPositive, <1>2 DEF Field
  <2>1. CASE k < c
    <3>1. k \in 1 .. c - 1
      BY <2>0, <2>1, <1>3
    <3>2. now[k] = Radix[k] - 1 /\ now'[k] = 0
      BY <3>1, <2>1, <1>1
    <3>3. (now[k] + 1) % Radix[k] = 0
      BY <3>2, <2>0
    <3> QED BY <3>2, <3>3, <2>0
  <2>2. CASE k = c
    <3>1. now'[k] = now[k] + 1 /\ now[k] + 1 < Radix[k]
      BY <2>2, <1>1, <2>0
    <3>2. (now[k] + 1) % Radix[k] = now[k] + 1
      BY <3>1, <2>0
    <3> QED BY <3>1, <3>2
  <2>3. CASE k > c
    <3>1. now'[k] = now[k]
      BY <2>3, <1>1, <1>3, <2>0
    <3> QED BY <3>1, <2>0
  <2> QED BY <2>1, <2>2, <2>3, <2>0, <1>3
<1> QED BY <1>4, <1>5, <1>6

(* A time that is not before began stays so when the fields from n up move *)
(* on and those below it are kept.                                         *)
LEMMA MergedForward ==
    ASSUME NEW a \in Times, NEW b \in Times, NEW r \in Times, NEW s \in Times, NEW n \in Nat,
           NEW m, m = [k \in Field |-> IF k < n THEN r[k] ELSE a[k]],
           NEW w, w = [k \in Field |-> IF k < n THEN r[k] ELSE b[k]],
           Earlier(a, b),
           m = s \/ Earlier(s, m)
    PROVE  w = s \/ Earlier(s, w)
<1>1. PICK c \in Field : a[c] < b[c] /\ \A k \in c + 1 .. 6 : a[k] = b[k]
  BY DEF Earlier
<1>2. m \in Times /\ w \in Times
  BY DEF Times
<1>3. c \in 1 .. 6
  BY DEF Field
<1>4. CASE c < n
  <2>1. \A k \in Field : m[k] = w[k]
    BY <1>1, <1>3, <1>4 DEF Field
  <2>2. m = w
    BY <2>1
  <2> QED BY <2>2
<1>5. CASE ~(c < n)
  <2>1. m[c] < w[c] /\ \A k \in c + 1 .. 6 : m[k] = w[k]
    BY <1>1, <1>3, <1>5 DEF Field
  <2>2. CASE m = s
    BY <2>1, <2>2, <1>1 DEF Earlier
  <2>3. CASE Earlier(s, m)
    <3>1. PICK d \in Field : s[d] < m[d] /\ \A k \in d + 1 .. 6 : s[k] = m[k]
      BY <2>3 DEF Earlier
    <3>2. d \in 1 .. 6
      BY DEF Field
    <3>3. \A k \in Field : s[k] \in Nat /\ m[k] \in Nat /\ w[k] \in Nat
      BY <1>2 DEF Times
    <3>4. CASE d < c
      <4>0. c \in d + 1 .. 6
        BY <3>2, <3>4, <1>3
      <4>1. s[c] = m[c]
        BY <3>1, <4>0
      <4>2. s[c] < w[c]
        <5>1. m[c] < w[c]
          BY <2>1
        <5> QED BY <4>1, <5>1
      <4>3. \A k \in c + 1 .. 6 : s[k] = w[k]
        BY <3>1, <3>2, <3>4, <1>3, <2>1
      <4> QED BY <4>2, <4>3 DEF Earlier
    <3>5. CASE d >= c
      <4>1. s[d] < w[d]
        <5>1. CASE d = c
          BY <5>1, <3>1, <3>3, <2>1
        <5>2. CASE d > c
          <6>1. d \in c + 1 .. 6
            BY <5>2, <3>2, <1>3
          <6>2. m[d] = w[d]
            BY <6>1, <2>1
          <6> QED BY <6>2, <3>1
        <5> QED BY <5>1, <5>2, <3>5, <3>2, <1>3
      <4>2. ASSUME NEW k \in d + 1 .. 6 PROVE s[k] = w[k]
        <5>1. k \in c + 1 .. 6
          BY <3>2, <3>5, <1>3
        <5> QED BY <5>1, <3>1, <2>1
      <4> QED BY <4>1, <4>2 DEF Earlier
    <3> QED BY <3>4, <3>5, <3>2, <1>3
  <2> QED BY <2>2, <2>3
<1> QED BY <1>4, <1>5

-----------------------------------------------------------------------------
LEMMA InitHolds == Init => IInv
<1> SUFFICES ASSUME Init PROVE IInv
  OBVIOUS
<1> USE DEF Init
<1>0. Zero \in Times /\ \A k \in Field : Zero[k] = 0
  BY DEF Zero, Times
<1>1. TypeOK
  <2>1. \A k \in Field : Zero[k] < Radix[k]
    BY <1>0, RadixPositive
  <2>2. 0 \in 0 .. MaxTicks
    BY TicksAssumption
  <2> HIDE DEF Init
  <2>3. now = Zero /\ time = Zero /\ reg = Zero /\ began = Zero /\ printed = Zero
    BY DEF Init
  <2>4. bcd \in BOOLEAN /\ ticked \in BOOLEAN /\ changed \in BOOLEAN
    BY DEF Init
  <2>5. Ticks = 0 /\ OldRTCTick = 0 /\ next \in 0 .. 6 /\ printing \in 0 .. 3
    BY DEF Init
  <2> QED BY <1>0, <2>1, <2>2, <2>3, <2>4, <2>5 DEF TypeOK
<1>2. Merged = now
  <2>1. \A k \in Field : ~(k < next)
    BY DEF Field
  <2>2. Merged = [k \in Field |-> now[k]]
    BY <2>1 DEF Merged
  <2> QED BY <2>2 DEF Zero
<1>3. Near(now)
  BY <1>0 DEF Near
<1>4. Inside
  BY <1>2, <1>3 DEF Inside
<1>5. Fresh
  BY PeriodAssumption DEF Fresh
<1> QED BY <1>1, <1>4, <1>5 DEF IInv, QuietIsExact, NeverBehind, Torn

LEMMA SecondKeeps == ASSUME IInv, Second PROVE IInv'
<1> USE DEF IInv
<1>0. /\ UNCHANGED <<bcd, Ticks, OldRTCTick, time, reg, next, began, printing, printed, changed>>
      /\ next # 0 => ~ticked
      /\ ticked' = (ticked \/ next # 0)
  BY DEF Second
<1>1. TypeOK
  OBVIOUS
<1>2. /\ now' \in Times /\ Earlier(now, now')
      /\ \A k \in Field : now'[k] < Radix[k]
      /\ \A k \in Field : now'[k] \in {now[k], (now[k] + 1) % Radix[k]}
  BY <1>1, SecondForward
<1>3. TypeOK'
  BY <1>0, <1>1, <1>2 DEF TypeOK
<1>4. ASSUME next # 0 PROVE Inside'
  <2>0. next' # 0 /\ ticked' /\ ~ticked
    BY <1>4, <1>0
  <2>1. Merged = began /\ now = began
    BY <1>4, <2>0 DEF Inside
  <2> DEFINE r == [k \in Field |-> Converted(reg[k])]
  <2>2. r \in Times
    BY <1>1, ConvertedNat DEF TypeOK, Times
  <2>3. Merged = [k \in Field |-> IF k < next THEN r[k] ELSE now[k]]
    BY DEF Merged
  <2>4. Merged' = [k \in Field |-> IF k < next THEN r[k] ELSE now'[k]]
    BY <1>0 DEF Merged, Converted
  <2>5. now \in Times /\ began \in Times /\ next \in Nat
    BY <1>1 DEF TypeOK
  <2>6. Merged' = began \/ Earlier(began, Merged')
    <3> HIDE DEF r
    <3> QED BY <2>1, <2>2, <2>3, <2>4, <2>5, <1>2, MergedForward
  <2>7. Near(now)'
    BY <2>1, <1>2, <1>0 DEF Near
  <2>8. Near(Merged)'
    <3> SUFFICES ASSUME NEW k \in Field
                 PROVE  Merged'[k] \in {began[k], (began[k] + 1) % Radix[k]}
      BY <1>0 DEF Near
    <3>1. CASE k < next
      <4>1. Merged'[k] = Merged[k]
        BY <3>1, <2>3, <2>4
      <4> QED BY <4>1, <2>1
    <3>2. CASE ~(k < next)
      <4>1. Merged'[k] = now'[k]
        BY <3>2, <2>4
      <4> QED BY <4>1, <2>7, <1>0 DEF Near
    <3> QED BY <3>1, <3>2
  <2>9. Earlier(began, Merged)' <=> Earlier(began, Merged')
    BY <1>0 DEF Earlier
  <2> QED BY <2>0, <2>6, <2>7, <2>8, <2>9, <1>0 DEF Inside
<1>5. Inside'
  BY <1>4, <1>0 DEF Inside
<1>6. QuietIsExact' /\ NeverBehind' /\ Torn' /\ Fresh'
  BY <1>0 DEF QuietIsExact, NeverBehind, Torn, Fresh, Earlier
<1> QED BY <1>3, <1>5, <1>6

LEMMA PITKeeps == ASSUME IInv, PIT PROVE IInv'
<1> USE DEF IInv
<1>0. /\ UNCHANGED <<now, bcd, time, reg, printing, printed, changed>>
      /\ next = 0 /\ Ticks < MaxTicks /\ Ticks' = Ticks + 1
  BY DEF PIT
<1>1. TypeOK
  OBVIOUS
<1>2. Ticks' \in 0 .. MaxTicks
  BY <1>0, <1>1, TicksAssumption DEF TypeOK
<1>3. CASE Due
  <2>0. next' = 1 /\ began' = now /\ ticked' = FALSE /\ OldRTCTick' = Ticks + 1
    BY <1>3 DEF PIT
  <2>1. TypeOK'
    <3>0. ticked' \in BOOLEAN
      BY <2>0
    <3>1. OldRTCTick' \in 0 .. MaxTicks /\ next' \in 0 .. 6
      <4>1. OldRTCTick' = Ticks' /\ next' = 1
        BY <1>0, <2>0
      <4> QED BY <4>1, <1>2
    <3>2. began' \in Times /\ \A k \in Field : began'[k] < Radix[k]
      BY <1>1, <2>0 DEF TypeOK
    <3> QED BY <1>0, <1>1, <1>2, <3>0, <3>1, <3>2 DEF TypeOK
  <2>2. Merged' = now'
    <3>1. \A k \in Field : ~(k < next')
      BY <2>0 DEF Field
    <3>2. Merged' = [k \in Field |-> now'[k]]
      BY <3>1 DEF Merged
    <3>3. now' \in Times
      BY <2>1 DEF TypeOK
    <3> QED BY <3>2, <3>3 DEF Times
  <2>3. Near(now)' /\ Near(Merged)'
    BY <2>0, <2>2, <1>0 DEF Near
  <2>4. Inside'
    BY <2>0, <2>2, <2>3, <1>0 DEF Inside
  <2>5. Fresh'
    BY <1>0, <2>0, <1>1, PeriodAssumption DEF Fresh, TypeOK
  <2> QED BY <2>0, <2>1, <2>4, <2>5 DEF QuietIsExact, NeverBehind, Torn
<1>4. CASE ~Due
  <2>0. UNCHANGED <<next, began, ticked, OldRTCTick>>
    BY <1>4 DEF PIT
  <2>1. TypeOK'
    BY <1>0, <1>1, <1>2, <2>0 DEF TypeOK
  <2>2. Fresh'
    BY <1>0, <1>1, <1>4, <2>0, PeriodAssumption DEF Fresh, Due, TypeOK
  <2>3. Inside' /\ QuietIsExact' /\ NeverBehind' /\ Torn'
    BY <1>0, <2>0 DEF Inside, QuietIsExact, NeverBehind, Torn, Earlier
  <2> QED BY <2>1, <2>2, <2>3
<1> QED BY <1>3, <1>4

LEMMA UpdateKeeps == ASSUME IInv, Update PROVE IInv'
<1> USE DEF IInv
<1> DEFINE r == [reg EXCEPT ![Register(next)] = Coded(now[Register(next)])]
<1>0. /\ UNCHANGED <<now, bcd, Ticks, OldRTCTick, began, ticked, printing, printed>>
      /\ next # 0 /\ reg' = r /\ next' = After(next)
      /\ time' = IF next = 6 THEN [k \in Field |-> Converted(r[k])] ELSE time
      /\ changed' \in BOOLEAN
  BY DEF Update
<1>1. TypeOK
  OBVIOUS
<1>2. /\ next \in 1 .. 6 /\ now \in [Field -> Nat] /\ reg \in [Field -> Nat]
      /\ next \in Field /\ Register(next) = next
  BY <1>0, <1>1 DEF TypeOK, Times, Field, Register
<1>3. /\ r \in [Field -> Nat]
      /\ \A k \in Field : r[k] = IF k = next THEN Coded(now[next]) ELSE reg[k]
  BY <1>2, ConvertedBack
<1>4. \A k \in Field : Converted(r[k]) \in Nat
  BY <1>3, ConvertedNat
<1> DEFINE m == [k \in Field |-> IF k <= next THEN Converted(r[k]) ELSE now[k]]
<1>5. m = Merged
  <2> SUFFICES ASSUME NEW k \in Field
               PROVE  m[k] = IF k < next THEN Converted(reg[k]) ELSE now[k]
    BY DEF Merged
  <2>1. k \in 1 .. 6
    BY DEF Field
  <2>2. CASE k = next
    BY <2>2, <1>2, <1>3, ConvertedBack
  <2>3. CASE k # next
    <3>1. r[k] = reg[k]
      BY <2>3, <1>3
    <3>2. k <= next <=> k < next
      BY <2>1, <2>3, <1>2
    <3> HIDE DEF r
    <3> QED BY <3>1, <3>2
  <2> QED BY <2>2, <2>3
<1> HIDE DEF r
<1>6. TypeOK'
  <2>1. next' \in 0 .. 6
    BY <1>0, <1>2 DEF After
  <2>2. time' \in Times
    BY <1>0, <1>1, <1>4 DEF TypeOK, Times
  <2>3. reg' \in Times
    BY <1>0, <1>3 DEF Times
  <2> QED BY <1>0, <1>1, <2>1, <2>2, <2>3 DEF TypeOK
<1>7. /\ m = began \/ Earlier(began, m)
      /\ ~ticked => m = began /\ now = began
      /\ Near(m) /\ Near(now)
  BY <1>0, <1>5 DEF Inside
<1>8. Fresh'
  BY <1>0 DEF Fresh
<1>9. CASE next = 6
  <2>1. \A k \in Field : k <= next
    BY <1>9 DEF Field
  <2>2. m = [k \in Field |-> Converted(r[k])]
    BY <2>1
  <2>3. time' = m /\ next' = 0
    BY <2>2, <1>0, <1>9 DEF After
  <2>4. QuietIsExact' /\ NeverBehind' /\ Torn' /\ Inside'
    BY <2>3, <1>7, <1>0 DEF QuietIsExact, NeverBehind, Torn, Inside, Near, Earlier
  <2> QED BY <2>4, <1>6, <1>8
<1>10. CASE next # 6
  <2>1. next' = next + 1 /\ time' = time
    BY <1>10, <1>0 DEF After
  <2>2. Merged' = m
    <3>1. \A k \in Field : k < next' <=> k <= next
      BY <2>1, <1>2 DEF Field
    <3>2. Merged' = [k \in Field |-> IF k < next' THEN Converted(r[k]) ELSE now[k]]
      BY <1>0 DEF Merged, Converted
    <3> QED BY <3>1, <3>2
  <2>3. Inside'
    BY <2>2, <1>7, <1>0 DEF Inside, Near, Earlier
  <2>4. QuietIsExact' /\ NeverBehind' /\ Torn'
    BY <2>1, <1>2 DEF QuietIsExact, NeverBehind, Torn
  <2> QED BY <2>3, <2>4, <1>6, <1>8
<1> QED BY <1>9, <1>10

(* Printing only reads.                                                    *)
LEMMA PrintingKeeps ==
    ASSUME IInv, CommandTime \/ ReadField \/ UNCHANGED vars
    PROVE  IInv'
<1> USE DEF IInv
<1>1. UNCHANGED <<now, bcd, Ticks, OldRTCTick, time, reg, next, began, ticked>>
  BY DEF CommandTime, ReadField, vars
<1>2. printing' \in 0 .. 3 /\ printed' \in Times /\ changed' \in BOOLEAN
  <2>0. /\ printing \in 0 .. 3 /\ printed \in Times /\ changed \in BOOLEAN /\ time \in Times
        /\ Zero \in Times
    BY DEF TypeOK, Zero, Times
  <2>1. CASE CommandTime
    <3>1. printing' = 3 /\ printed' = Zero /\ changed' = FALSE
      BY <2>1 DEF CommandTime
    <3>2. changed' \in BOOLEAN
      BY <3>1
    <3> QED BY <2>0, <3>1, <3>2
  <2>2. CASE ReadField
    BY <2>0, <2>2 DEF ReadField, Read, Times, Field
  <2>3. CASE UNCHANGED vars
    BY <2>0, <2>3 DEF vars
  <2> QED BY <2>1, <2>2, <2>3
<1>3. TypeOK'
  BY <1>1, <1>2 DEF TypeOK
<1>4. Inside' /\ QuietIsExact' /\ NeverBehind' /\ Torn' /\ Fresh'
  BY <1>1 DEF Inside, Merged, Near, Converted, Earlier, QuietIsExact, NeverBehind, Torn, Fresh
<1> QED BY <1>3, <1>4

LEMMA Invariant == Spec => []IInv
<1>1. IInv /\ [Next]_vars => IInv'
  BY SecondKeeps, PITKeeps, UpdateKeeps, PrintingKeeps DEF Next
<1> QED BY <1>1, InitHolds, PTL DEF Spec

-----------------------------------------------------------------------------
(* The clock's state is well typed for all lengths of its fields.          *)
THEOREM TypeCorrect == Spec => []TypeOK
<1>1. IInv => TypeOK
  BY DEF IInv
<1> QED BY <1>1, Invariant, PTL

(* An Update never shows a time before the one it began at, though the     *)
(* clock runs on and carries over between the registers it reads.          *)
THEOREM TimeNeverBehind == Spec => []NeverBehind
<1>1. IInv => NeverBehind
  BY DEF IInv
<1> QED BY <1>1, Invariant, PTL

(* An Update during which no second passed shows the clock's time, in      *)
(* binary and in BCD.                                                      *)
THEOREM QuietUpdateExact == Spec => []QuietIsExact
<1>1. IInv => QuietIsExact
  BY DEF IInv
<1> QED BY <1>1, Invariant, PTL

(* A second inside of an Update moves each field shown by one at most.     *)
THEOREM TornByOne == Spec => []Torn
<1>1. IInv => Torn
  BY DEF IInv
<1> QED BY <1>1, Invariant, PTL

(* The time shown is never older than a period.                            *)
THEOREM TimeFresh == Spec => []Fresh
<1>1. IInv => Fresh
  BY DEF IInv
<1> QED BY <1>1, Invariant, PTL

-----------------------------------------------------------------------------
(* What main code has printed of the time is what is shown, as long as no  *)
(* Update changed the minute or the hour.                                  *)
Printing == printing # 0 /\ ~changed => \A k \in printing + 1 .. 3 : printed[k] = time[k]

LEMMA PrintingInit == Init => Printing
BY DEF Init, Printing

LEMMA PrintingNext == ASSUME IInv, Printing, [Next]_vars PROVE Printing'
<1>0. /\ printing \in 0 .. 3 /\ next \in 0 .. 6
      /\ printed \in [Field -> Nat] /\ time \in [Field -> Nat]
  BY DEF IInv, TypeOK, Times
<1>1. CASE Second \/ PIT \/ UNCHANGED vars
  BY <1>1 DEF Second, PIT, vars, Printing
<1>2. CASE Update
  <2>1. /\ changed' = (changed \/ (printing # 0 /\ \E k \in 2 .. 3 : time'[k] # time[k]))
        /\ printing' = printing /\ printed' = printed
    BY <1>2 DEF Update
  <2> SUFFICES ASSUME printing # 0, ~changed', NEW k \in printing + 1 .. 3
               PROVE  printed[k] = time'[k]
    BY <2>1 DEF Printing
  <2>2. k \in 2 .. 3
    BY <1>0
  <2>3. ~changed /\ time'[k] = time[k]
    BY <2>1, <2>2
  <2> QED BY <2>3 DEF Printing
<1>3. CASE CommandTime
  BY <1>3 DEF CommandTime, Printing
<1>4. CASE ReadField
  <2>1. /\ printing \in 1 .. 3 /\ printing \in Field
        /\ printed' = [printed EXCEPT ![printing] = time[printing]]
        /\ printing' = printing - 1 /\ time' = time /\ changed' = changed
    BY <1>0, <1>4 DEF ReadField, Read, Field
  <2> SUFFICES ASSUME ~changed, NEW k \in printing .. 3
               PROVE  printed'[k] = time[k]
    BY <2>1 DEF Printing
  <2>2. CASE k = printing
    BY <2>1, <2>2, <1>0
  <2>3. CASE k # printing
    <3>1. k \in printing + 1 .. 3 /\ k \in Field
      BY <2>1, <2>3 DEF Field
    <3> QED BY <2>1, <2>3, <3>1, <1>0 DEF Printing
  <2> QED BY <2>2, <2>3
<1> QED BY <1>1, <1>2, <1>3, <1>4 DEF Next

LEMMA PrintedStep ==
    ASSUME IInv, Printing, [Next]_vars, printing = 1, printing' = 0, ~changed
    PROVE  \A k \in 1 .. 3 : printed'[k] = time[k]
<1>1. ReadField
  BY DEF Next, Second, PIT, Update, CommandTime, vars
<1>2. /\ printed \in [Field -> Nat] /\ 1 \in Field
      /\ printed' = [printed EXCEPT ![1] = time[1]]
  BY <1>1 DEF IInv, TypeOK, Times, ReadField, Read, Field
<1>3. \A k \in 2 .. 3 : printed[k] = time[k] /\ k \in Field
  BY DEF Printing, Field
<1> QED BY <1>2, <1>3

(* The time that is shown is never behind, torn by one second at most and  *)
(* as old as a period, and what is printed of it was shown.                *)
THEOREM TimeIsRight == Spec => TimeRight
<1>1. IInv => TypeOK /\ QuietIsExact /\ NeverBehind /\ Torn /\ Fresh
  BY DEF IInv
<1>2. IInv /\ Printing /\ [Next]_vars => Printing'
  BY PrintingNext
<1>3. IInv /\ Printing /\ [Next]_vars =>
          [printing = 1 /\ printing' = 0 /\ ~changed =>
              \A k \in 1 .. 3 : printed'[k] = time[k]]_vars
  BY PrintedStep
<1> QED BY <1>1, <1>2, <1>3, Invariant, PrintingInit, PTL DEF Spec, TimeRight, PrintedWasShown

-----------------------------------------------------------------------------
(***************************************************************************)
(* The keyboard driver, for any set of the keys: the shift state never     *)
(* sticks, and no character outlives the press that gave it.               *)
(***************************************************************************)
(* The two tables agree on which keys are modifiers.                       *)
LEMMA Rows == \A k \in Keys : /\ Table[k].plain \in Character /\ Table[k].shifted \in Character
                              /\ Char(k) \in {Table[k].plain, Table[k].shifted}
                              /\ Modifier(Table[k].plain) <=> Modifier(Table[k].shifted)
                              /\ Modifier(Char(k)) <=> Modifier(Table[k].plain)
                              /\ Char(k) = "LEFT_SHIFT" <=> k \in {"shift", "star"}
  BY KeysAssumption DEF Table, Row, Char, Modifier, Character

KeyInv == /\ KeyTypeOK
        /\ ShiftNeverSticks
        /\ WaitingKeyIsDown
        /\ \A k \in waiting : ~Modifier(Table[k].plain)

LEMMA KeyInvInit == KeyInit => KeyInv
  BY DEF KeyInit, KeyInv, KeyTypeOK, ShiftNeverSticks, WaitingKeyIsDown, None, Character

LEMMA KeyInvNext == KeyInv /\ [KeyNext]_keyVars => KeyInv'
<1>. SUFFICES ASSUME KeyInv, [KeyNext]_keyVars PROVE KeyInv'
  OBVIOUS
<1>1. CASE UNCHANGED keyVars \/ Focus
  BY <1>1 DEF keyVars, Focus, KeyInv, KeyTypeOK, ShiftNeverSticks, WaitingKeyIsDown
<1>2. ASSUME NEW k \in Keys, Press(k) PROVE KeyInv'
  <2>. DEFINE c == Char(k)
  <2>0. /\ c \in Character /\ c \in {Table[k].plain, Table[k].shifted}
        /\ Modifier(c) <=> Modifier(Table[k].plain)
        /\ c = "LEFT_SHIFT" <=> k \in {"shift", "star"}
    BY Rows
  <2>. HIDE DEF c
  <2>1. /\ HandleScanCode(c, FALSE) /\ down' = down \cup {k} /\ typing' = typing
        /\ IF typing
           THEN message' = KeyLeft(c, FALSE) /\ CurrentKey' = None /\ waiting' = {}
           ELSE CurrentKey' = KeyLeft(c, FALSE) /\ waiting' = Waits(c, k, FALSE) /\ message' = message
    BY <1>2 DEF Press, c
  <2>2. KeyTypeOK'
    BY <2>0, <2>1 DEF KeyInv, KeyTypeOK, HandleScanCode, Cached, KeyLeft, Current, Waits, Character, None
  <2>3. ShiftNeverSticks'
    BY <2>0, <2>1 DEF KeyInv, KeyTypeOK, ShiftNeverSticks, HandleScanCode, Cached, Character
  <2>4. WaitingKeyIsDown'
    BY <2>0, <2>1 DEF KeyInv, WaitingKeyIsDown, KeyLeft, Current, Waits, Character
  <2>5. \A j \in waiting' : ~Modifier(Table[j].plain)
    BY <2>0, <2>1 DEF KeyInv, Waits
  <2>. QED  BY <2>2, <2>3, <2>4, <2>5 DEF KeyInv
<1>3. ASSUME NEW k \in Keys, Release(k) PROVE KeyInv'
  <2>. DEFINE c == Char(k)
  <2>0. /\ c \in Character
        /\ Modifier(c) <=> Modifier(Table[k].plain)
        /\ c = "LEFT_SHIFT" <=> k \in {"shift", "star"}
    BY Rows
  <2>. HIDE DEF c
  <2>1. /\ HandleScanCode(c, TRUE) /\ down' = down \ {k} /\ UNCHANGED <<typing, message>>
        /\ CurrentKey' = KeyLeft(c, TRUE) /\ waiting' = Waits(c, k, TRUE)
    BY <1>3 DEF Release, c
  <2>2. KeyTypeOK'
    BY <2>0, <2>1 DEF KeyInv, KeyTypeOK, HandleScanCode, Cached, KeyLeft, Current, Waits, Character, None
  <2>3. ShiftNeverSticks'
    BY <2>0, <2>1 DEF KeyInv, KeyTypeOK, ShiftNeverSticks, HandleScanCode, Cached, Character
  <2>4. WaitingKeyIsDown'
    BY <2>0, <2>1 DEF KeyInv, WaitingKeyIsDown, KeyLeft, Current, Waits, Character
  <2>5. \A j \in waiting' : ~Modifier(Table[j].plain)
    BY <2>0, <2>1 DEF KeyInv, Waits
  <2>. QED  BY <2>2, <2>3, <2>4, <2>5 DEF KeyInv
<1>4. ASSUME NEW c \in Character, Prefix,
             HandleScanCode(c, TRUE), CurrentKey' = KeyLeft(c, TRUE),
             waiting' = IF Modifier(c) THEN waiting ELSE {}, UNCHANGED <<down, typing, message>>
      PROVE  KeyInv'
  <2>2. KeyTypeOK'
    BY <1>4 DEF KeyInv, KeyTypeOK, HandleScanCode, Cached, KeyLeft, Current, Character, None
  <2>3. ShiftNeverSticks'
    BY <1>4 DEF KeyInv, KeyTypeOK, ShiftNeverSticks, HandleScanCode, Cached, Character
  <2>4. WaitingKeyIsDown'
    BY <1>4 DEF KeyInv, WaitingKeyIsDown, KeyLeft, Current, Character
  <2>. QED  BY <1>4, <2>2, <2>3, <2>4 DEF KeyInv
<1>. QED  BY <1>1, <1>2, <1>3, <1>4 DEF KeyNext, Prefix

LEMMA KeyInvAlways == KeySpec => []KeyInv
  BY KeyInvInit, KeyInvNext, PTL DEF KeySpec

(* The keyboard's state is well typed for any set of keys.                 *)
THEOREM KeysTypeCorrect == KeySpec => []KeyTypeOK
  BY KeyInvAlways, PTL DEF KeyInv

(* LEFT_SHIFT is set in KeyCache only while a key that sets it is down,    *)
(* whatever the order of presses, releases, prefixes and changes of focus. *)
THEOREM ShiftIsReleased == KeySpec => []ShiftNeverSticks
  BY KeyInvAlways, PTL DEF KeyInv

(* CurrentKey never holds the character of a key that was let go.          *)
THEOREM NoKeyOutlivesItsPress == KeySpec => []WaitingKeyIsDown
  BY KeyInvAlways, PTL DEF KeyInv

(* A KEYPRESS message is sent by a press only: with the character of the   *)
(* key pressed, or, by a modifier, with what waits in CurrentKey.          *)
LEMMA DeliveredStep ==
    ASSUME KeyInv, [KeyNext]_keyVars, message' \notin {message, None}
    PROVE  \E k \in down' : message' \in {Table[k].plain, Table[k].shifted}
<1>1. PICK k \in Keys : Press(k)
  BY DEF KeyNext, keyVars, Release, Prefix, Focus
<1>. DEFINE c == Char(k)
<1>2. c \in {Table[k].plain, Table[k].shifted}
  BY Rows
<1>. HIDE DEF c
<1>3. down' = down \cup {k} /\ message' = KeyLeft(c, FALSE)
  BY <1>1 DEF Press, c
<1>4. CASE Modifier(c)
  <2>1. message' = CurrentKey /\ CurrentKey # None
    BY <1>3, <1>4 DEF KeyLeft
  <2>2. PICK j \in waiting \cap down : CurrentKey \in {Table[j].plain, Table[j].shifted}
    BY <2>1 DEF KeyInv, WaitingKeyIsDown
  <2>. QED  BY <1>3, <2>1, <2>2
<1>5. CASE ~Modifier(c)
  BY <1>2, <1>3, <1>5 DEF KeyLeft, Current
<1>. QED  BY <1>4, <1>5

(* No key outlives its release, in the shift state, in CurrentKey or in a  *)
(* message, for any set of keys.                                           *)
THEOREM KeysAreReleased == KeySpec => KeysReleased
<1>1. KeyInv => KeyTypeOK /\ ShiftNeverSticks /\ WaitingKeyIsDown
  BY DEF KeyInv
<1>2. KeyInv /\ [KeyNext]_keyVars =>
          [message' \notin {message, None} =>
              \E k \in down' : message' \in {Table[k].plain, Table[k].shifted}]_keyVars
  BY DeliveredStep
<1>. QED  BY <1>1, <1>2, KeyInvAlways, PTL DEF KeySpec, KeysReleased, DeliveredIsDown
-----------------------------------------------------------------------------
(***************************************************************************)
(* The boot and its interrupts.  A handler runs only once interrupts are   *)
(* on, for a request that is not masked, and is in service where it was    *)
(* raised, until it acknowledges it.                                       *)
(***************************************************************************)
InService ==
    IF handler = NoByte THEN isr1 = {} /\ isr2 = {}
    ELSE /\ flag /\ handler.irq \in {0, 1, 12} /\ isr1 = {Cascade(handler.irq)}
         /\ isr2 = IF handler.irq = 12 /\ handler.at # "eoi1" THEN {12} ELSE {}
         /\ handler.at = "eoi2" => handler.irq = 12
         /\ handler.at = "read" => handler.irq # 0

(* The mouse says nothing before it is spoken to: what InitPS2 takes for   *)
(* the answer to its question is that, or a scan code.                     *)
Polled ==
    /\ acks > 0 => "Defaults" \in Done
    /\ acks > 1 => "Report" \in Done
    /\ stream => "Report" \in Done
    /\ out # NoByte /\ "Defaults" \notin Done =>
          out.bits \in Configuration /\ out.from \in {"controller", "key"}
    /\ "ReadStatus" \in Done =>
          status # NoByte /\ status.bits \in Configuration /\ status.from \in {"controller", "key"}

(* The answer is the configuration as it is.                               *)
Unasked ==
    /\ "AskStatus" \notin Done => ~answer /\ (out # NoByte => out.from # "controller")
    /\ "ReadStatus" \notin Done /\ out # NoByte => out.from # "controller" \/ out.bits = config
    /\ At("WriteStatus") => status.from = "key" \/ status.bits = [config EXCEPT !.irq12 = TRUE]

BootInv == /\ BootTypeOK /\ InService /\ Polled
           /\ flag => "STI" \in Done
           /\ "EnableInterrupts" \in Done => imr = Masked
           /\ Unasked

-----------------------------------------------------------------------------
(* KernelMain's order, by numbers.                                         *)
LEMMA OrderLength == Len(BootOrder) = 28
  BY DEF BootOrder

LEMMA OrderNumbers ==
  /\ BootOrder[1] = "GDT" /\ BootOrder[2] = "UEFI" /\ BootOrder[3] = "PageAllocator"
  /\ BootOrder[4] = "PageTable" /\ BootOrder[5] = "Heap" /\ BootOrder[6] = "Fonts"
  /\ BootOrder[7] = "Renderer" /\ BootOrder[8] = "PIT" /\ BootOrder[9] = "RTC"
  /\ BootOrder[10] = "LIDT" /\ BootOrder[11] = "ReadMasks" /\ BootOrder[12] = "ICW"
  /\ BootOrder[13] = "WriteMasks" /\ BootOrder[14] = "EnableMouse" /\ BootOrder[15] = "AskStatus"
  /\ BootOrder[16] = "ReadStatus" /\ BootOrder[17] = "WriteStatus" /\ BootOrder[18] = "Defaults"
  /\ BootOrder[19] = "ReadAck" /\ BootOrder[20] = "Report" /\ BootOrder[21] = "ReadAck"
  /\ BootOrder[22] = "EnableInterrupts" /\ BootOrder[23] = "STI" /\ BootOrder[24] = "ACPI"
  /\ BootOrder[25] = "PCI" /\ BootOrder[26] = "AHCI" /\ BootOrder[27] = "Compositor"
  /\ BootOrder[28] = "Loop"
  BY DEF BootOrder

(* What is done once KernelMain has come to step n.                        *)
Counted(n, done) ==
    /\ "PIT" \in done <=> n > 8
    /\ "RTC" \in done <=> n > 9
    /\ "Renderer" \in done <=> n > 7
    /\ "LIDT" \in done <=> n > 10
    /\ "AskStatus" \in done <=> n > 15
    /\ "ReadStatus" \in done <=> n > 16
    /\ "Defaults" \in done <=> n > 18
    /\ "Report" \in done <=> n > 20
    /\ "EnableInterrupts" \in done <=> n > 22
    /\ "STI" \in done <=> n > 23

LEMMA DoneCounted == \A n \in 1 .. 29 : Counted(n, {BootOrder[i] : i \in 1 .. n - 1})
<1> SUFFICES ASSUME NEW n \in 1 .. 29 PROVE Counted(n, {BootOrder[i] : i \in 1 .. n - 1})
  OBVIOUS
<1> DEFINE done == {BootOrder[i] : i \in 1 .. n - 1}
<1>1. /\ "PIT" \in done <=> n > 8
      /\ "RTC" \in done <=> n > 9
      /\ "Renderer" \in done <=> n > 7
      /\ "LIDT" \in done <=> n > 10
      /\ "AskStatus" \in done <=> n > 15
  BY OrderNumbers
<1>2. /\ "ReadStatus" \in done <=> n > 16
      /\ "Defaults" \in done <=> n > 18
      /\ "Report" \in done <=> n > 20
  BY OrderNumbers
<1>3. /\ "EnableInterrupts" \in done <=> n > 22
      /\ "STI" \in done <=> n > 23
  BY OrderNumbers
<1> QED BY <1>1, <1>2, <1>3 DEF Counted

(* And which steps there are only once or twice.                           *)
Placed ==
    /\ At("ReadMasks") <=> pc = 11
    /\ At("ICW") <=> pc = 12
    /\ At("WriteMasks") <=> pc = 13
    /\ At("EnableMouse") <=> pc = 14
    /\ At("AskStatus") <=> pc = 15
    /\ At("ReadStatus") <=> pc = 16
    /\ At("WriteStatus") <=> pc = 17
    /\ At("Defaults") <=> pc = 18
    /\ At("ReadAck") <=> pc \in {19, 21}
    /\ At("Report") <=> pc = 20
    /\ At("EnableInterrupts") <=> pc = 22
    /\ At("STI") <=> pc = 23

LEMMA PassedNow ==
  ASSUME pc \in 1 .. 29
  PROVE  Counted(pc, Done) /\ Placed
<1>1. Counted(pc, Done)
  BY DoneCounted DEF Done
<1> QED BY <1>1, OrderNumbers, OrderLength DEF At, Placed

LEMMA PassedThen ==
  ASSUME pc' \in 1 .. 29
  PROVE  Counted(pc', Done') /\ (At("WriteStatus")' <=> pc' = 17)
<1>1. Counted(pc', Done')
  BY DoneCounted DEF Done
<1>2. At("WriteStatus")' <=> pc' = 17
  BY OrderNumbers, OrderLength DEF At
<1> QED BY <1>1, <1>2

LEMMA Raises ==
  ASSUME NEW b, NEW c
  PROVE  Raised(b, c) \in {{}, {1}, {12}}
<1>1. Raised(b, c) \subseteq {1, 12}
  BY DEF Raised
<1>2. 1 \notin Raised(b, c) \/ 12 \notin Raised(b, c)
  BY DEF Raised
<1> QED BY <1>1, <1>2

LEMMA Latched ==
  ASSUME NEW r \in SUBSET IRQs, Latch(r)
  PROVE  irr' \in SUBSET IRQs
  BY Raises DEF Latch, IRQs

LEMMA BootInvInit == BootInit => BootInv
<1> SUFFICES ASSUME BootInit PROVE BootInv
  OBVIOUS
<1>1. pc = 1 /\ Counted(pc, Done) /\ ~At("WriteStatus")
  BY PassedNow DEF BootInit, Placed
<1>2. Stale \in Bytes
  BY DEF Stale, Byte, Bytes
<1>3. BootTypeOK
  <2>1. pc \in 1 .. Len(BootOrder) + 1
    BY <1>1, OrderLength
  <2>4. irr \subseteq IRQs /\ masks \subseteq IRQs /\ isr1 \subseteq {0, 1, 2, 3} /\ isr2 \subseteq {12}
    BY DEF BootInit
  <2>5. acks \in 0 .. 2
    BY DEF BootInit
  <2>6. flag \in BOOLEAN /\ answer \in BOOLEAN /\ stream \in BOOLEAN
    BY DEF BootInit
  <2>2. imr \subseteq IRQs
    BY DEF BootInit, IRQs
  <2>3. config \in Configuration
    BY BootAssumption DEF BootInit
  <2> QED BY <1>2, <2>1, <2>2, <2>3, <2>4, <2>5, <2>6 DEF BootInit, BootTypeOK
<1> QED BY <1>1, <1>3 DEF BootInit, BootInv, InService, Polled, Unasked, Counted

(* The steps of KernelMain: one is done more, and no handler runs.         *)
LEMMA KernelMainKeeps == BootInv /\ KernelMain => BootInv'
<1> SUFFICES ASSUME BootInv, KernelMain PROVE BootInv'
  OBVIOUS
<1> USE DEF BootInv, BootTypeOK
<1>1. handler = NoByte /\ pc' = pc + 1 /\ pc \in 1 .. 28 /\ handler' = handler
  BY OrderLength DEF KernelMain, Plain, ReadMasks, ICW, WriteMasks, EnableInterrupts, STI, EnableMouse,
     AskStatus, ReadStatus, WriteStatus, Defaults, Report, ReadAck, Advance, At
<1>2. /\ Counted(pc, Done) /\ Counted(pc + 1, Done') /\ Placed
      /\ pc' \in 1 .. Len(BootOrder) + 1
      /\ At("WriteStatus")' <=> pc' = 17
  BY <1>1, PassedNow, PassedThen, OrderLength
<1>3. CASE Plain
  <2>2. pc # 22 /\ pc # 23 /\ pc # 15 /\ pc # 16 /\ pc # 17
    BY <1>2, <1>3 DEF Plain, At, InitPS2, Placed
  <2>3. UNCHANGED <<flag, masks, status, irr, imr, isr1, isr2, config, out, last, acks, answer, stream>>
    BY <1>3 DEF Plain, pic, ps2
  <2>4. BootTypeOK' /\ InService'
    BY <1>1, <1>2, <2>3 DEF InService
  <2>5. Polled' /\ Unasked'
    BY <1>1, <1>2, <2>2, <2>3 DEF Polled, Unasked, Counted
  <2> QED BY <1>1, <1>2, <2>2, <2>3, <2>4, <2>5 DEF Counted
<1>4. CASE ReadMasks
  BY <1>1, <1>2, <1>4 DEF ReadMasks, pic, ps2, InService, Polled, Unasked, Counted, Placed
<1>5. CASE ICW
  BY <1>1, <1>2, <1>5 DEF ICW, ps2, InService, Polled, Unasked, Counted, Placed
<1>6. CASE WriteMasks
  BY <1>1, <1>2, <1>6 DEF WriteMasks, ps2, InService, Polled, Unasked, Counted, Placed
<1>7. CASE EnableInterrupts
  BY <1>1, <1>2, <1>7 DEF EnableInterrupts, ps2, InService, Polled, Unasked, Counted, Placed, Masked, IRQs
<1>8. CASE STI
  BY <1>1, <1>2, <1>8 DEF STI, pic, ps2, InService, Polled, Unasked, Counted, Placed
<1>9. CASE EnableMouse
  <2>1. pc = 14 /\ config' \in Configuration
    BY <1>2, <1>9 DEF EnableMouse, Placed, Configuration
  <2>2. UNCHANGED <<flag, masks, status, irr, imr, isr1, isr2, out, last, acks, answer, stream>>
    BY <1>9 DEF EnableMouse, pic
  <2>3. BootTypeOK' /\ InService'
    BY <1>1, <1>2, <2>1, <2>2 DEF InService
  <2>4. Polled' /\ Unasked'
    BY <1>1, <1>2, <2>1, <2>2 DEF Polled, Unasked, Counted
  <2> QED BY <1>1, <1>2, <2>1, <2>2, <2>3, <2>4 DEF Counted
<1>10. CASE AskStatus
  BY <1>1, <1>2, <1>10 DEF AskStatus, pic, InService, Polled, Unasked, Counted, Placed
<1>11. CASE ReadStatus
  <2>1. out # NoByte /\ out \in Bytes /\ out.bits \in Configuration /\ out.from \in {"controller", "key"}
    BY <1>2, <1>11, <1>1 DEF ReadStatus, Polled, Counted, Placed
  <2>8. [out.bits EXCEPT !.irq12 = TRUE] \in Configuration
    BY <2>1 DEF Configuration
  <2>9. status' = Byte(out.from, [out.bits EXCEPT !.irq12 = TRUE])
    BY <1>11 DEF ReadStatus
  <2>10. \A b \in Configuration : /\ Byte(out.from, b) \in Bytes
                                 /\ Byte(out.from, b).from = out.from /\ Byte(out.from, b).bits = b
    BY <2>1 DEF Byte, Bytes
  <2>2. /\ status' \in Bytes /\ status' # NoByte /\ status'.from = out.from
        /\ status'.bits = [out.bits EXCEPT !.irq12 = TRUE]
    BY <2>8, <2>9, <2>10, BootAssumption
  <2>3. irr' \in SUBSET IRQs /\ last' \in Bytes /\ out' = NoByte
    BY <1>11, Latched, <2>1 DEF ReadStatus, ReadPort, Given
  <2>4. pc = 16 /\ UNCHANGED <<flag, masks, imr, isr1, isr2, config, acks, answer, stream>>
    BY <1>2, <1>11 DEF ReadStatus, Placed
  <2>5. BootTypeOK' /\ InService'
    BY <1>1, <1>2, <2>2, <2>3, <2>4 DEF InService
  <2>6. Polled'
    BY <1>1, <1>2, <2>1, <2>2, <2>3, <2>4, <2>8 DEF Polled, Counted
  <2>7. Unasked'
    <3>1. pc + 1 = 17 /\ pc' = 17 /\ "AskStatus" \in Done' /\ "ReadStatus" \in Done'
      BY <1>1, <1>2, <2>4 DEF Counted
    <3>2. out.from = "key" \/ out.bits = config
      BY <1>2, <2>1, <2>4, <2>8 DEF Unasked, Counted
    <3>3. status'.from = "key" \/ status'.bits = [config' EXCEPT !.irq12 = TRUE]
      BY <2>2, <2>4, <3>2
    <3> QED BY <3>1, <3>3, <2>3 DEF Unasked
  <2> QED BY <1>1, <1>2, <2>4, <2>5, <2>6, <2>7 DEF Counted
<1>12. CASE WriteStatus
  <2>1. status.bits \in Configuration /\ irr' \in SUBSET IRQs
    BY <1>2, <1>12, Latched DEF WriteStatus, Polled, Counted, Placed
  <2> QED BY <1>1, <1>2, <1>12, <2>1 DEF WriteStatus, InService, Polled, Unasked, Counted, Placed
<1>13. CASE Defaults
  BY <1>1, <1>2, <1>13 DEF Defaults, pic, InService, Polled, Unasked, Counted, Placed
<1>14. CASE Report
  BY <1>1, <1>2, <1>14 DEF Report, pic, InService, Polled, Unasked, Counted, Placed
<1>15. CASE ReadAck
  <2>1. irr' \in SUBSET IRQs /\ last' \in Bytes /\ out' = NoByte
    BY <1>15, Latched DEF ReadAck, ReadPort, Given
  <2>2. pc > 18 /\ UNCHANGED <<flag, masks, status, imr, isr1, isr2, config, acks, answer, stream>>
    BY <1>2, <1>15 DEF ReadAck, Placed
  <2>3. BootTypeOK' /\ InService'
    BY <1>1, <1>2, <2>1, <2>2 DEF InService
  <2>4. Polled' /\ Unasked'
    BY <1>1, <1>2, <2>1, <2>2 DEF Polled, Unasked, Counted
  <2> QED BY <1>1, <1>2, <1>15, <2>2, <2>3, <2>4 DEF Counted, Placed, ReadAck
<1> QED BY <1>3, <1>4, <1>5, <1>6, <1>7, <1>8, <1>9, <1>10, <1>11, <1>12, <1>13, <1>14, <1>15 DEF KernelMain

(* The devices: a byte in the buffer, or a request.                        *)
LEMMA HardwareKeeps == BootInv /\ Hardware => BootInv'
<1> SUFFICES ASSUME BootInv, Hardware PROVE BootInv'
  OBVIOUS
<1> USE DEF BootInv, BootTypeOK
<1>1. /\ UNCHANGED <<pc, flag, masks, status, imr, isr1, isr2, handler, config, last, stream>>
      /\ Done' = Done /\ \A s : At(s)' = At(s)
  BY DEF Hardware, Answer, Ack, Movement, KeyHit, Pulse, boot, ps2, Done, At
<1>2. Counted(pc, Done) /\ pc \in 1 .. 29
  BY PassedNow, OrderLength
<1>3. CASE Answer
  <2>1. /\ out' = Byte("controller", config) /\ out' \in Bytes /\ out'.bits = config
        /\ out'.from = "controller"
    BY <1>3 DEF Answer, Byte, Bytes
  <2>2. irr' \in SUBSET IRQs
    BY <1>3, Latched DEF Answer
  <2>3. answer /\ answer' = FALSE /\ acks' = acks
    BY <1>3 DEF Answer
  <2>4. BootTypeOK' /\ InService'
    BY <1>1, <2>1, <2>2, <2>3 DEF InService
  <2>5. Polled'
    BY <1>1, <2>1, <2>3 DEF Polled
  <2>6. Unasked'
    BY <1>1, <2>1, <2>3 DEF Unasked
  <2> QED BY <1>1, <2>4, <2>5, <2>6
<1>4. CASE Ack \/ Movement
  <2>1. out' = Byte("mouse", NoByte) /\ out' \in Bytes
    BY <1>4 DEF Ack, Movement, Byte, Bytes
  <2>2. irr' \in SUBSET IRQs
    BY <1>4, Latched DEF Ack, Movement
  <2>3. acks' \in 0 .. acks /\ answer' = answer /\ pc > 18
    BY <1>4, <1>2 DEF Ack, Movement, Polled, Counted
  <2> QED BY <1>1, <1>2, <1>4, <2>1, <2>2, <2>3 DEF InService, Polled, Unasked, Counted
<1>5. CASE KeyHit
  <2>1. PICK bits \in KeyBytes : out' = Byte("key", bits)
    BY <1>5 DEF KeyHit
  <2>2. out' \in Bytes /\ out'.bits \in Configuration /\ out'.from = "key"
    BY <2>1, BootAssumption DEF Byte, Bytes
  <2>3. irr' \in SUBSET IRQs
    BY <1>5, Latched DEF KeyHit
  <2> QED BY <1>1, <1>2, <1>5, <2>2, <2>3 DEF KeyHit, InService, Polled, Unasked, Counted
<1>6. CASE Pulse
  BY <1>1, <1>6 DEF Pulse, ps2, IRQs, InService, Polled, Unasked
<1> QED BY <1>3, <1>4, <1>5, <1>6 DEF Hardware

(* An interrupt is taken between the steps of KernelMain, its handler is   *)
(* in the controllers what InService says.                                 *)
LEMMA MinOne == \A x \in Nat : Ended({x}) = {}
  BY DEF Ended, Min

LEMMA DeliverKeeps ==
  ASSUME BootInv, NEW irq \in IRQs, Deliver(irq)
  PROVE  BootInv'
<1> USE DEF BootInv, BootTypeOK
<1>1. /\ UNCHANGED <<pc, flag, masks, status, imr, config, out, last, acks, answer, stream>>
      /\ Done' = Done /\ At("WriteStatus")' = At("WriteStatus")
  BY DEF Deliver, boot, ps2, Done, At
<1>2. flag /\ handler = NoByte /\ irq \in {0, 1, 12}
  <2>1. Counted(pc, Done) /\ imr = Masked
    BY PassedNow, OrderLength DEF Deliver, Counted
  <2> QED BY <2>1 DEF Deliver, Masked, IRQs
<1>3. handler' = Body(irq) /\ handler' \in Running /\ handler' # NoByte
  BY BootAssumption DEF Deliver, Body, Running
<1>4. isr1' = {Cascade(irq)} /\ isr2' = IF irq = 12 THEN {12} ELSE {}
  <2>1. isr1 = {} /\ isr2 = {}
    BY <1>2 DEF InService
  <2>2. isr1' = isr1 \cup {Cascade(irq)} /\ isr2' = IF irq < 8 THEN isr2 ELSE isr2 \cup {irq}
    BY DEF Deliver
  <2>3. isr1' = {Cascade(irq)}
    BY <2>1, <2>2
  <2>4. irq = 12 => isr2' = {12}
    BY <2>1, <2>2
  <2>5. irq # 12 => isr2' = {}
    BY <1>2, <2>1, <2>2
  <2> QED BY <2>3, <2>4, <2>5
<1>5. InService'
  BY <1>1, <1>2, <1>3, <1>4 DEF InService, Body
<1>6. BootTypeOK'
  BY <1>1, <1>2, <1>3, <1>4 DEF Deliver, Cascade
<1>7. Polled' /\ Unasked'
  BY <1>1 DEF Polled, Unasked
<1> QED BY <1>1, <1>5, <1>6, <1>7

LEMMA HandlerKeeps == BootInv /\ Handler => BootInv'
<1> SUFFICES ASSUME BootInv, Handler PROVE BootInv'
  OBVIOUS
<1> USE DEF BootInv, BootTypeOK
<1>1. /\ UNCHANGED <<pc, flag, masks, status, imr, config, acks, answer, stream>>
      /\ Done' = Done /\ At("WriteStatus")' = At("WriteStatus")
  BY DEF Handler, HandlerReads, HandlerBody, EOI2, EOI1, boot, pic, ps2, Done, At
<1>2. /\ handler \in Running /\ handler # NoByte
      /\ flag /\ handler.irq \in {0, 1, 12} /\ isr1 = {Cascade(handler.irq)}
      /\ isr2 = IF handler.irq = 12 /\ handler.at # "eoi1" THEN {12} ELSE {}
      /\ handler.at = "eoi2" => handler.irq = 12
      /\ handler.at = "read" => handler.irq # 0
  BY DEF Handler, HandlerReads, HandlerBody, EOI2, EOI1, InService
<1>3. Counted(pc, Done) /\ pc > 23
  BY <1>2, PassedNow, OrderLength DEF Counted
<1>4. CASE HandlerReads
  <2>1. out' = NoByte /\ last' \in Bytes /\ irr' \in SUBSET IRQs
    BY <1>4, Latched DEF HandlerReads, ReadPort, Given
  <2>2. UNCHANGED <<isr1, isr2>> /\ handler.at = "read" /\ handler' = [handler EXCEPT !.at = "body"]
    BY <1>4 DEF HandlerReads
  <2>3. handler' \in Running /\ handler' # NoByte /\ handler'.irq = handler.irq /\ handler'.at = "body"
    BY <1>2, <2>2, BootAssumption DEF Running
  <2>4. InService'
    BY <1>1, <1>2, <2>2, <2>3 DEF InService
  <2>5. BootTypeOK'
    BY <1>1, <2>1, <2>2, <2>3
  <2>6. Polled' /\ Unasked'
    BY <1>1, <1>3, <2>1 DEF Polled, Unasked, Counted
  <2> QED BY <1>1, <2>4, <2>5, <2>6
<1>5. CASE HandlerBody
  <2>1. /\ UNCHANGED <<irr, isr1, isr2, out, last>> /\ handler.at = "body"
        /\ handler' = [handler EXCEPT !.at = IF handler.irq = 12 THEN "eoi2" ELSE "eoi1"]
    BY <1>5 DEF HandlerBody, pic, ps2
  <2>2. /\ handler' \in Running /\ handler' # NoByte /\ handler'.irq = handler.irq
        /\ handler'.at = IF handler.irq = 12 THEN "eoi2" ELSE "eoi1"
    BY <1>2, <2>1, BootAssumption DEF Running
  <2>3. InService'
    BY <1>1, <1>2, <2>1, <2>2 DEF InService
  <2>4. Polled' /\ Unasked'
    BY <1>1, <2>1 DEF Polled, Unasked
  <2> QED BY <1>1, <2>1, <2>2, <2>3, <2>4
<1>6. CASE EOI2
  <2>1. /\ UNCHANGED <<irr, isr1, out, last>> /\ handler.irq = 12 /\ handler.at = "eoi2"
        /\ handler' = [handler EXCEPT !.at = "eoi1"]
    BY <1>2, <1>6 DEF EOI2, ps2
  <2>2. isr2' = {}
    BY <1>2, <1>6, <2>1, MinOne DEF EOI2
  <2>3. handler' \in Running /\ handler' # NoByte /\ handler'.irq = handler.irq /\ handler'.at = "eoi1"
    BY <1>2, <2>1, BootAssumption DEF Running
  <2>4. InService'
    BY <1>1, <1>2, <2>1, <2>2, <2>3 DEF InService
  <2>5. Polled' /\ Unasked'
    BY <1>1, <2>1 DEF Polled, Unasked
  <2> QED BY <1>1, <2>1, <2>2, <2>3, <2>4, <2>5
<1>7. CASE EOI1
  <2>1. UNCHANGED <<irr, isr2, out, last>> /\ handler.at = "eoi1" /\ handler' = NoByte
    BY <1>7 DEF EOI1, ps2
  <2>2. Cascade(handler.irq) \in Nat
    BY <1>2 DEF Cascade
  <2>3. isr1' = {} /\ isr2' = {}
    BY <1>2, <1>7, <2>1, <2>2, MinOne DEF EOI1
  <2>4. InService'
    BY <2>1, <2>3 DEF InService
  <2>5. Polled' /\ Unasked'
    BY <1>1, <2>1 DEF Polled, Unasked
  <2> QED BY <1>1, <2>1, <2>3, <2>4, <2>5
<1> QED BY <1>4, <1>5, <1>6, <1>7 DEF Handler

LEMMA BootInvNext == BootInv /\ [BootNext]_bootVars => BootInv'
<1> SUFFICES ASSUME BootInv, [BootNext]_bootVars PROVE BootInv'
  OBVIOUS
<1>1. CASE UNCHANGED bootVars
  BY <1>1 DEF bootVars, boot, pic, ps2, BootInv, BootTypeOK, InService, Polled, Unasked, Done, At
<1> QED BY <1>1, KernelMainKeeps, HandlerKeeps, HardwareKeeps, DeliverKeeps DEF BootNext

LEMMA BootInvAlways == BootSpec => []BootInv
  BY BootInvInit, BootInvNext, PTL DEF BootSpec

-----------------------------------------------------------------------------
LEMMA UsesDone == pc \in 1 .. 28 => Uses(BootOrder[pc]) \subseteq Done
<1> SUFFICES ASSUME pc \in 1 .. 28 PROVE Uses(BootOrder[pc]) \subseteq Done
  OBVIOUS
<1>1. \A i \in 1 .. 27 : i < pc => BootOrder[i] \in Done
  BY DEF Done
<1>2. /\ pc > 1 => "GDT" \in Done
      /\ pc > 3 => "PageAllocator" \in Done
      /\ pc > 4 => "PageTable" \in Done
      /\ pc > 5 => "Heap" \in Done
      /\ pc > 6 => "Fonts" \in Done
      /\ pc > 7 => "Renderer" \in Done
  BY <1>1, OrderNumbers
<1>3. /\ pc > 23 => "STI" \in Done
      /\ pc > 24 => "ACPI" \in Done
      /\ pc > 25 => "PCI" \in Done
      /\ pc > 27 => "Compositor" \in Done
  BY <1>1, OrderNumbers
<1>4. CASE pc \in {4, 5, 10, 25, 26, 27, 28}
  <2>1. /\ pc = 4 => BootOrder[pc] = "PageTable"
        /\ pc = 5 => BootOrder[pc] = "Heap"
        /\ pc = 10 => BootOrder[pc] = "LIDT"
        /\ pc = 25 => BootOrder[pc] = "PCI"
        /\ pc = 26 => BootOrder[pc] = "AHCI"
        /\ pc = 27 => BootOrder[pc] = "Compositor"
        /\ pc = 28 => BootOrder[pc] = "Loop"
    BY OrderNumbers
  <2> QED BY <1>2, <1>3, <1>4, <2>1 DEF Uses
<1>5. CASE pc \notin {4, 5, 10, 25, 26, 27, 28}
  <2>1. BootOrder[pc] \notin {"PageTable", "Heap", "LIDT", "PCI", "AHCI", "Compositor", "Loop"}
    BY <1>5, OrderNumbers
  <2> QED BY <2>1 DEF Uses
<1> QED BY <1>4, <1>5

(* While the kernel boots, and ever after: an interrupt finds its gate, its *)
(* handler what it uses, each step of KernelMain what it builds on, and     *)
(* each controller is told of the end of what it raised, and of that only.  *)
THEOREM BootIsOrderly == BootSpec => []BootOrderly
<1>1. BootInv => BootOrderly
  <2> SUFFICES ASSUME BootInv PROVE GatedOnly /\ NothingEarly /\ Acknowledged
    BY DEF BootInv, BootOrderly
  <2>1. Counted(pc, Done) /\ pc \in 1 .. 29
    BY PassedNow, OrderLength DEF BootInv, BootTypeOK
  <2>2. handler # NoByte => handler.irq \in {0, 1, 12} /\ pc > 23
    BY <2>1 DEF BootInv, InService, Counted
  <2>3. GatedOnly
    BY <2>1, <2>2 DEF GatedOnly, Counted, Vector, Gates
  <2>4. NothingEarly
    BY <2>1, <2>2, UsesDone, OrderLength DEF NothingEarly, Counted, HandlerUses
  <2> QED BY <2>3, <2>4 DEF BootInv, InService, Acknowledged
<1> QED BY <1>1, BootInvAlways, PTL

-----------------------------------------------------------------------------
(* What there is to read, and who is going to: a request or a handler, not *)
(* both.                                                                   *)
Asks(k) == k \in irr
Runs(k) == handler = [irq |-> k, at |-> "read"]
Holds(k) == k \in Raised(out, config)

Matched(k) == IF Holds(k) THEN Asks(k) <=> ~Runs(k) ELSE ~Asks(k) /\ ~Runs(k)

LEMMA InStepNow == InStep <=> "STI" \in Done /\ Matched(1) /\ Matched(12)
<1>1. ASSUME NEW k \in {1, 12}
      PROVE  Owed(k) = (IF k \in Raised(out, config) THEN 1 ELSE 0) <=> Matched(k)
  <2>1. Owed(k) = (IF Asks(k) THEN 1 ELSE 0) + (IF Runs(k) THEN 1 ELSE 0)
    BY DEF Owed, Asks, Runs
  <2>2. CASE Holds(k)
    BY <2>1, <2>2 DEF Matched, Holds
  <2>3. CASE ~Holds(k)
    BY <2>1, <2>3 DEF Matched, Holds
  <2> QED BY <2>2, <2>3
<1> QED BY <1>1 DEF InStep

LEMMA InStepThen == InStep' <=> ("STI" \in Done)' /\ Matched(1)' /\ Matched(12)'
  BY InStepNow, PTL

LEMMA RaisedNone == ASSUME NEW c PROVE Raised(NoByte, c) = {}
  BY DEF Raised

(* A byte arrives, and its request with it.                                *)
LEMMA ArrivalMatches ==
  ASSUME BootInv, NEW k \in {1, 12}, Matched(k), out = NoByte, Latch(irr), UNCHANGED handler
  PROVE  Matched(k)'
<1>1. Raised(out, config) = {}
  BY RaisedNone
<1>2. irr' = irr \cup Raised(out', config')
  BY <1>1 DEF Latch
<1>3. ~Holds(k) /\ ~Asks(k) /\ ~Runs(k)
  BY <1>1 DEF Matched, Holds
<1>4. Runs(k)' <=> Runs(k)
  BY DEF Runs
<1>5. Asks(k)' <=> Holds(k)'
  BY <1>2, <1>3 DEF Asks, Holds
<1> QED BY <1>3, <1>4, <1>5 DEF Matched

LEMMA OtherMatches ==
  ASSUME NEW k, Matched(k), k \in irr' <=> k \in irr, UNCHANGED <<out, config>>,
         Runs(k)' <=> Runs(k)
  PROVE  Matched(k)'
<1>1. (Asks(k)' <=> Asks(k)) /\ (Holds(k)' <=> Holds(k))
  BY DEF Asks, Holds
<1> QED BY <1>1 DEF Matched

LEMMA DeliverMatches ==
  ASSUME BootInv, NEW irq \in IRQs, Deliver(irq), NEW k \in {1, 12}, Matched(k)
  PROVE  Matched(k)'
<1>1. handler = NoByte /\ irq \in irr /\ irr' = irr \ {irq} /\ handler' = Body(irq) /\ UNCHANGED <<out, config>>
  BY DEF Deliver, ps2
<1>2. ~Runs(k)
  <2>1. [irq |-> k, at |-> "read"] \in Running
    BY DEF Running, IRQs
  <2> QED BY <1>1, <2>1, BootAssumption DEF Runs
<1>3. CASE k = irq
  <2>1. Asks(k) /\ ~Asks(k)' /\ Runs(k)'
    BY <1>1, <1>3 DEF Asks, Runs, Body
  <2>2. Holds(k)' <=> Holds(k)
    BY <1>1 DEF Holds
  <2> QED BY <1>2, <2>1, <2>2 DEF Matched
<1>4. CASE k # irq
  <2>1. ~Runs(k)'
    BY <1>1, <1>4 DEF Runs, Body
  <2> QED BY <1>1, <1>2, <1>4, <2>1, OtherMatches
<1> QED BY <1>3, <1>4

(* The handler that reads is the one that the byte asked for.              *)
LEMMA ReadMatches ==
  ASSUME BootInv, Matched(1), Matched(12), HandlerReads
  PROVE  Matched(1)' /\ Matched(12)'
<1>1. /\ handler # NoByte /\ handler.at = "read" /\ out' = NoByte /\ UNCHANGED config /\ Latch(irr)
      /\ handler' = [handler EXCEPT !.at = "body"]
  BY DEF HandlerReads, ReadPort
<1>2. handler \in Running /\ handler.irq \in {1, 12}
  BY <1>1 DEF BootInv, BootTypeOK, InService
<1> DEFINE k == handler.irq
<1>3. handler = [irq |-> k, at |-> "read"]
  BY <1>1, <1>2 DEF Running
<1>4. Holds(k) /\ ~Asks(k)
  BY <1>2, <1>3 DEF Matched, Runs
<1>5. ASSUME NEW n \in {1, 12} PROVE ~Asks(n) /\ ~Runs(n)' /\ ~Holds(n)'
  <2>1. n # k => ~Holds(n)
    BY <1>2, <1>4, Raises DEF Holds
  <2>2. n # k => ~Asks(n)
    BY <2>1 DEF Matched
  <2>3. ~Runs(n)'
    BY <1>1, <1>2 DEF Runs, Running
  <2>4. ~Holds(n)'
    BY <1>1, RaisedNone DEF Holds
  <2> QED BY <1>4, <2>2, <2>3, <2>4
<1>6. Raised(out', config') = {}
  BY <1>1, RaisedNone
<1>7. irr' \subseteq irr
  BY <1>1, <1>6 DEF Latch
<1>8. ~Asks(1)' /\ ~Asks(12)'
  BY <1>5, <1>7 DEF Asks
<1> QED BY <1>5, <1>8 DEF Matched

LEMMA StepMatches ==
  ASSUME BootInv, InStep, [BootNext]_bootVars
  PROVE  InStep'
<1>0. Matched(1) /\ Matched(12) /\ "STI" \in Done
  BY InStepNow
<1>1. pc > 23 /\ pc \in 1 .. 29 /\ Placed
  BY <1>0, PassedNow, OrderLength DEF Counted, BootInv, BootTypeOK
<1>2. pc' \in {pc, pc + 1}
  BY DEF BootNext, KernelMain, Plain, ReadMasks, ICW, WriteMasks, EnableInterrupts, STI, EnableMouse,
     AskStatus, ReadStatus, WriteStatus, Defaults, Report, ReadAck, Advance, Handler, HandlerReads,
     HandlerBody, EOI1, EOI2, Hardware, Answer, Ack, Movement, KeyHit, Pulse, Deliver, bootVars, boot
<1>3. ("STI" \in Done)'
  <2>0. pc' \in Nat /\ pc' > 23
    BY <1>1, <1>2
  <2>1. \A n \in Nat : n > 23 => 23 \in 1 .. n - 1
    OBVIOUS
  <2>2. BootOrder[23] \in Done'
    BY <2>0, <2>1 DEF Done
  <2> QED BY <2>2, OrderNumbers
<1> SUFFICES Matched(1)' /\ Matched(12)'
  BY <1>3, InStepThen
<1>4. CASE UNCHANGED <<irr, handler, out, config>>
  BY <1>0, <1>4, OtherMatches DEF Runs
<1>5. CASE KernelMain
  <2>1. Plain
    BY <1>1, <1>5 DEF KernelMain, ReadMasks, ICW, WriteMasks, EnableInterrupts, STI, EnableMouse,
       AskStatus, ReadStatus, WriteStatus, Defaults, Report, ReadAck, Placed
  <2> QED BY <2>1, <1>4 DEF Plain, pic, ps2
<1>6. CASE HandlerReads
  BY <1>0, <1>6, ReadMatches
<1>7. CASE HandlerBody \/ EOI2 \/ EOI1
  <2>1. UNCHANGED <<irr, out, config>>
    BY <1>7 DEF HandlerBody, EOI2, EOI1, pic, ps2
  <2>2. handler # NoByte /\ handler.at # "read" /\ handler \in Running
    BY <1>7 DEF HandlerBody, EOI2, EOI1, BootInv, BootTypeOK
  <2>3. handler' = NoByte \/ handler'.at # "read"
    BY <1>7, <2>2 DEF HandlerBody, EOI2, EOI1, Running
  <2>4. \A k \in {1, 12} : [irq |-> k, at |-> "read"] # NoByte
    BY BootAssumption DEF Running, IRQs
  <2>5. \A k \in {1, 12} : ~Runs(k) /\ ~Runs(k)'
    BY <2>2, <2>3, <2>4 DEF Runs
  <2> QED BY <1>0, <2>1, <2>5, OtherMatches
<1>8. CASE Answer \/ Ack \/ Movement \/ KeyHit
  BY <1>0, <1>8, ArrivalMatches DEF Answer, Ack, Movement, KeyHit
<1>9. CASE Pulse
  BY <1>0, <1>9, OtherMatches DEF Pulse, ps2, Runs
<1>10. ASSUME NEW irq \in IRQs, Deliver(irq) PROVE Matched(1)' /\ Matched(12)'
  BY <1>0, <1>10, DeliverMatches
<1>11. CASE UNCHANGED bootVars
  BY <1>4, <1>11 DEF bootVars, pic, ps2
<1> QED BY <1>4, <1>5, <1>6, <1>7, <1>8, <1>9, <1>10, <1>11 DEF BootNext, Handler, Hardware

(* Once each request belongs to the byte in the 8042, every handler reads  *)
(* the byte it was called for, with keys hit at any time.                  *)
THEOREM HandlersStayInStep == BootSpec => StaysInStep
<1>1. BootInv /\ [BootNext]_bootVars => [InStep => InStep']_bootVars
  BY StepMatches
<1> QED BY <1>1, BootInvAlways, PTL DEF BootSpec, StaysInStep

(* InitPS2 changes the two bits it means to change, unless it has read a   *)
(* scan code in the place of the answer.                                   *)
THEOREM CompaqBitOnly == BootSpec => OnlyCompaqBit
<1> DEFINE Step == \/ config' \in {config, [config EXCEPT !.irq12 = TRUE], [config EXCEPT !.mouseOff = FALSE]}
                   \/ Misread
<1>1. BootInv /\ [BootNext]_bootVars => [Step]_bootVars
  <2> SUFFICES ASSUME BootInv, BootNext PROVE Step
    OBVIOUS
  <2>1. CASE WriteStatus
    <3>1. /\ At("WriteStatus") /\ config' = status.bits
          /\ status.from = "key" \/ status.bits = [config EXCEPT !.irq12 = TRUE]
      BY <2>1 DEF BootInv, Unasked, WriteStatus
    <3>2. status # NoByte
      <4>1. pc = 17
        BY <3>1, PassedNow, OrderLength DEF BootInv, BootTypeOK, Placed
      <4>2. "ReadStatus" \in Done
        BY <4>1, PassedNow, OrderLength DEF BootInv, BootTypeOK, Counted
      <4> QED BY <4>2 DEF BootInv, Polled
    <3> QED BY <3>1, <3>2 DEF Misread
  <2>2. CASE EnableMouse
    BY <2>2 DEF EnableMouse
  <2>3. CASE ~WriteStatus /\ ~EnableMouse
    BY <2>3 DEF BootNext, KernelMain, Plain, ReadMasks, ICW, WriteMasks, EnableInterrupts, STI,
       AskStatus, ReadStatus, Defaults, Report, ReadAck, Handler, HandlerReads, HandlerBody, EOI1,
       EOI2, Hardware, Answer, Ack, Movement, KeyHit, Pulse, Deliver, ps2
  <2> QED BY <2>1, <2>2, <2>3
<1> QED BY <1>1, BootInvAlways, PTL DEF BootSpec, OnlyCompaqBit

(* The byte that keyboard, mouse and 8042 share, with keys hit at any time: *)
(* who is called for it reads it, and InitPS2 writes back what the 8042     *)
(* answered, unless a scan code came before the answer.                     *)
THEOREM SharedByteHandled == BootSpec => SharedByte
BY HandlersStayInStep, CompaqBitOnly DEF SharedByte

-----------------------------------------------------------------------------
(* The mouse.                                                              *)

(* Without a lost or late byte the handler has the bytes of the packet that *)
(* the mouse has sent, and the others are still to come.                   *)
InPacket ==
    lost = 0 /\ ~spurious =>
       \/ MouseCycle = 0 /\ (wire = <<>> \/ (wire = sent /\ sent \in Moves))
       \/ MouseCycle = 1 /\ wire = <<sent[2], sent[3]>> /\ MousePacket[0] = sent[1]
       \/ /\ MouseCycle = 2 /\ wire = <<sent[3]>>
          /\ MousePacket[0] = sent[1] /\ MousePacket[1] = sent[2]

MouseInv == MouseTypeOK /\ OnScreen /\ InPacket

LEMMA ClampIsBounded ==
  ASSUME NEW n \in Int, NEW upper \in Nat
  PROVE  Clamp(n, upper) \in 0 .. upper
BY DEF Clamp

LEMMA DistanceIsInt ==
  ASSUME NEW b \in PacketByte, NEW sign \in BOOLEAN
  PROVE  Distance(b, sign) \in Int
BY DEF Distance, PacketByte

LEMMA MouseInvInit ==
  ASSUME MouseAssumption, MouseInit
  PROVE  MouseInv
<1>1. wire \in Seq(PacketByte) /\ Len(wire) <= 3
  <2>1. CASE spurious
    <3>1. wire = <<ACK>> /\ ACK \in PacketByte
      BY <2>1 DEF MouseInit, PacketByte, ACK
    <3>. QED  BY <3>1
  <2>2. CASE ~spurious
    BY <2>2 DEF MouseInit
  <2>. QED  BY <2>1, <2>2
<1>2. MouseTypeOK
  <2>1. MousePacket \in [0 .. 2 -> PacketByte] /\ held \in [1 .. 3 -> BOOLEAN]
    BY DEF MouseInit, PacketByte
  <2>2. lost \in 0 .. MaxLost /\ X \in Int /\ Y \in Int /\ MouseCycle \in 0 .. 2
    BY DEF MouseAssumption, LostAssumption, ScreenAssumption, MouseInit
  <2>. QED  BY <1>1, <2>1, <2>2 DEF MouseInit, MouseTypeOK
<1>3. OnScreen /\ InPacket
  BY DEF MouseInit, OnScreen, InPacket
<1>. QED  BY <1>2, <1>3 DEF MouseInv

LEMMA PacketIsBytes ==
  ASSUME MouseAssumption, NEW p \in Moves
  PROVE  /\ p \in Seq(PacketByte) /\ Len(p) = 3 /\ p = <<p[1], p[2], p[3]>>
         /\ p[1] \in PacketByte /\ p[2] \in PacketByte /\ p[3] \in PacketByte
         /\ Bit(p[1], 3)
<1>1. p \in PacketByte \X PacketByte \X PacketByte /\ Bit(p[1], 3)
  BY DEF MouseAssumption, MovesAssumption
<1>2. PICK x, y, z \in PacketByte : p = <<x, y, z>>
  BY <1>1
<1>. QED  BY <1>1, <1>2

LEMMA SendStep ==
  ASSUME MouseAssumption, MouseInv, Send
  PROVE  MouseInv'
<1>1. PICK p \in Moves : sent' = p /\ wire' = p
  BY DEF Send
<1>2. p \in Seq(PacketByte) /\ Len(p) = 3
  BY PacketIsBytes
<1>3. MouseTypeOK'
  <2>1. wire' \in {w \in Seq(PacketByte) : Len(w) <= 3}
    <3>1. \A w \in Seq(PacketByte) : Len(w) = 3 => Len(w) <= 3
      OBVIOUS
    <3>2. p \in {w \in Seq(PacketByte) : Len(w) <= 3}
      BY <1>2, <3>1, Zenon
    <3>. QED  BY <1>1, <3>2, Zenon
  <2>2. sent' \in Moves \cup {<<8, 0, 0>>}
    BY <1>1
  <2>. QED  BY <2>1, <2>2 DEF MouseInv, MouseTypeOK, Send
<1>4. InPacket'
  BY <1>1 DEF MouseInv, InPacket, Send
<1>. QED  BY <1>3, <1>4 DEF MouseInv, OnScreen, Send

LEMMA TailIsShorter ==
  ASSUME NEW w \in Seq(PacketByte), w # <<>>, Len(w) <= 3
  PROVE  Tail(w) \in Seq(PacketByte) /\ Len(Tail(w)) <= 3 /\ Head(w) \in PacketByte
OBVIOUS

LEMMA LoseStep ==
  ASSUME MouseAssumption, MouseInv, Lose
  PROVE  MouseInv'
<1>1. lost' \in 0 .. MaxLost /\ lost' # 0
  BY DEF MouseAssumption, LostAssumption, MouseInv, MouseTypeOK, Lose
<1>2. MouseTypeOK'
  BY <1>1, TailIsShorter DEF MouseInv, MouseTypeOK, Lose
<1>3. InPacket'
  BY <1>1 DEF InPacket
<1>. QED  BY <1>2, <1>3 DEF MouseInv, OnScreen, Lose

(* The third byte of a packet, in step, moves the mouse as the packet says. *)
LEMMA DistanceIsSigned ==
  ASSUME NEW b \in PacketByte, NEW sign \in BOOLEAN, Signed(b, sign) # -256
  PROVE  Distance(b, sign) = Signed(b, sign)
BY DEF Distance, Signed, PacketByte

LEMMA InterruptStep ==
  ASSUME MouseAssumption, MouseInv, Interrupt
  PROVE  MouseInv'
<1>. DEFINE b == Head(wire)
            skips == MouseCycle = 0 /\ ~Starts(b)
<1>1. /\ wire' = Tail(wire) /\ wire \in Seq(PacketByte) /\ Len(wire) <= 3 /\ wire # <<>>
      /\ wire' \in Seq(PacketByte) /\ Len(wire') <= 3 /\ b \in PacketByte
      /\ UNCHANGED <<sent, lost, spurious>>
  BY TailIsShorter DEF MouseInv, MouseTypeOK, Interrupt
<1>2. /\ skips => UNCHANGED <<MouseCycle, MousePacket, X, Y, held, handled>>
      /\ ~skips => /\ MousePacket' = [MousePacket EXCEPT ![MouseCycle] = b]
                   /\ MouseCycle' = (MouseCycle + 1) % 3
                   /\ MouseCycle = 2 => HandleMousePacket(b)
                   /\ MouseCycle # 2 => UNCHANGED <<X, Y, held, handled>>
  BY DEF Interrupt, NextCycle
<1>. HIDE DEF b, skips
<1>3. MouseCycle \in 0 .. 2 /\ MousePacket \in [0 .. 2 -> PacketByte] /\ X \in Int /\ Y \in Int
  BY DEF MouseInv, MouseTypeOK
<1>4. ~skips => /\ MouseCycle' = IF MouseCycle = 2 THEN 0 ELSE MouseCycle + 1
                /\ MousePacket' \in [0 .. 2 -> PacketByte]
  <2>1. (MouseCycle + 1) % 3 = IF MouseCycle = 2 THEN 0 ELSE MouseCycle + 1
    BY <1>3
  <2>2. [MousePacket EXCEPT ![MouseCycle] = b] \in [0 .. 2 -> PacketByte]
    BY <1>1, <1>3
  <2>. QED  BY <1>2, <2>1, <2>2
<1>5. /\ held' \in [1 .. 3 -> BOOLEAN] /\ handled' \in BOOLEAN
      /\ X' \in Int /\ Y' \in Int /\ OnScreen'
  <2>1. CASE ~skips /\ MouseCycle = 2
    <3>1. /\ MousePacket[1] \in PacketByte
          /\ Bit(MousePacket[0], 4) \in BOOLEAN /\ Bit(MousePacket[0], 5) \in BOOLEAN
      BY <1>3 DEF Bit
    <3>2. /\ X + Distance(MousePacket[1], Bit(MousePacket[0], 4)) \in Int
          /\ Y - Distance(b, Bit(MousePacket[0], 5)) \in Int
      <4>1. /\ Distance(MousePacket[1], Bit(MousePacket[0], 4)) \in Int
            /\ Distance(b, Bit(MousePacket[0], 5)) \in Int
        BY <3>1, <1>1, DistanceIsInt
      <4>. QED  BY <4>1, <1>3
    <3>3. Width - 8 \in Nat /\ Height - 16 \in Nat
      BY DEF MouseAssumption, ScreenAssumption
    <3>4. X' \in 0 .. Width - 8 /\ Y' \in 0 .. Height - 16
      BY <1>2, <2>1, <3>2, <3>3, ClampIsBounded DEF HandleMousePacket
    <3>5. held' \in [1 .. 3 -> BOOLEAN] /\ handled' = TRUE
      BY <1>2, <2>1 DEF HandleMousePacket, Buttons, Bit
    <3>. QED  BY <3>3, <3>4, <3>5 DEF OnScreen
  <2>2. CASE skips \/ MouseCycle # 2
    <3>1. UNCHANGED <<X, Y, held, handled>>
      BY <1>2, <2>2
    <3>. QED  BY <3>1 DEF MouseInv, MouseTypeOK, OnScreen
  <2>. QED  BY <2>1, <2>2
<1>6. MouseTypeOK'
  BY <1>1, <1>2, <1>3, <1>4, <1>5 DEF MouseInv, MouseTypeOK
<1>7. InPacket'
  <2>. SUFFICES ASSUME lost = 0, ~spurious
                PROVE  InPacket'
    BY <1>1 DEF InPacket
  <2>1. CASE MouseCycle = 0
    <3>1. wire = sent /\ sent \in Moves
      BY <1>1, <2>1 DEF MouseInv, InPacket
    <3>2. b = sent[1] /\ wire' = <<sent[2], sent[3]>> /\ Starts(b)
      <4>1. wire = <<sent[1], sent[2], sent[3]>> /\ Bit(sent[1], 3)
        BY <3>1, PacketIsBytes
      <4>. QED  BY <4>1, <1>1 DEF Starts, b
    <3>3. MouseCycle' = 1 /\ MousePacket'[0] = sent[1]
      BY <1>2, <1>3, <1>4, <2>1, <3>2 DEF skips
    <3>. QED  BY <1>1, <3>2, <3>3 DEF InPacket
  <2>2. CASE MouseCycle = 1
    <3>1. wire = <<sent[2], sent[3]>> /\ MousePacket[0] = sent[1]
      BY <1>1, <2>2 DEF MouseInv, InPacket
    <3>2. b = sent[2] /\ wire' = <<sent[3]>>
      BY <1>1, <3>1 DEF b
    <3>3. MouseCycle' = 2 /\ MousePacket'[0] = sent[1] /\ MousePacket'[1] = sent[2]
      BY <1>2, <1>3, <1>4, <2>2, <3>1, <3>2 DEF skips
    <3>. QED  BY <1>1, <3>2, <3>3 DEF InPacket
  <2>3. CASE MouseCycle = 2
    <3>1. wire = <<sent[3]>>
      BY <1>1, <2>3 DEF MouseInv, InPacket
    <3>2. wire' = <<>> /\ MouseCycle' = 0
      BY <1>1, <1>4, <2>3, <3>1 DEF skips
    <3>. QED  BY <3>2 DEF InPacket
  <2>. QED  BY <1>3, <2>1, <2>2, <2>3
<1>. QED  BY <1>5, <1>6, <1>7 DEF MouseInv

LEMMA MouseInvAlways == MouseAssumption => (MouseSpec => []MouseInv)
<1>. SUFFICES ASSUME MouseAssumption PROVE MouseSpec => []MouseInv
  OBVIOUS
<1>1. MouseInit => MouseInv
  BY MouseInvInit
<1>2. MouseInv /\ [MouseNext]_mouseVars => MouseInv'
  <2>1. ASSUME MouseInv, UNCHANGED mouseVars
        PROVE  MouseInv'
    BY <2>1 DEF mouseVars, MouseInv, MouseTypeOK, OnScreen, InPacket
  <2>. QED  BY <2>1, SendStep, LoseStep, InterruptStep DEF MouseNext
<1>. QED  BY <1>1, <1>2, PTL DEF MouseSpec

(* Whatever bytes get lost or come late the mouse stays on the screen, and *)
(* without one the handler is in step with the packets, for every packet   *)
(* whose first byte has bit 3 set and every screen.                        *)
THEOREM MouseIsSafe == MouseAssumption => (MouseSpec => []MouseSafe)
<1>. SUFFICES ASSUME MouseAssumption PROVE MouseSpec => []MouseSafe
  OBVIOUS
<1>1. ASSUME MouseInv, lost = 0, ~spurious
      PROVE  Aligned
  <2>1. CASE MouseCycle = 0
    <3>1. wire = <<>> \/ Len(wire) = 3
      BY <1>1, <2>1, PacketIsBytes DEF MouseInv, InPacket
    <3>2. (3 - 0) % 3 = 0 /\ (3 - 3) % 3 = 0 /\ Len(<<>>) = 0
      OBVIOUS
    <3>. QED  BY <2>1, <3>1, <3>2 DEF Aligned
  <2>2. CASE MouseCycle = 1
    <3>1. Len(wire) = 2
      BY <1>1, <2>2 DEF MouseInv, InPacket
    <3>. QED  BY <2>2, <3>1 DEF Aligned
  <2>3. CASE MouseCycle = 2
    <3>1. Len(wire) = 1
      BY <1>1, <2>3 DEF MouseInv, InPacket
    <3>. QED  BY <2>3, <3>1 DEF Aligned
  <2>. QED  BY <1>1, <2>1, <2>2, <2>3 DEF MouseInv, MouseTypeOK
<1>2. MouseInv => MouseSafe
  BY <1>1 DEF MouseInv, MouseSafe, AlignedUntilLoss
<1>. QED  BY <1>2, MouseInvAlways, PTL

(* Until a byte is lost or comes late every packet moves the mouse as far  *)
(* as it says, but for 256 to the left or down, and presses its buttons.   *)
THEOREM MouseHandlesAsSent == MouseAssumption => (MouseSpec => HandledAsSent)
<1>. SUFFICES ASSUME MouseAssumption PROVE MouseSpec => HandledAsSent
  OBVIOUS
<1>. DEFINE dx == Signed(sent[2], Bit(sent[1], 4))
            dy == Signed(sent[3], Bit(sent[1], 5))
            AsSent == Interrupt /\ MouseCycle = 2 /\ lost = 0 /\ ~spurious =>
                          /\ held' = Buttons(sent[1])
                          /\ dx # -256 => X' = Clamp(X + dx, Width - 8)
                          /\ dy # -256 => Y' = Clamp(Y - dy, Height - 16)
<1>1. MouseInv /\ [MouseNext]_mouseVars => [AsSent]_mouseVars
  <2>. SUFFICES ASSUME MouseInv, Interrupt, MouseCycle = 2, lost = 0, ~spurious
                PROVE  AsSent
    OBVIOUS
  <2>1. wire = <<sent[3]>> /\ MousePacket[0] = sent[1] /\ MousePacket[1] = sent[2]
    BY DEF MouseInv, InPacket
  <2>2. Head(wire) = sent[3] /\ sent[3] \in PacketByte /\ sent[2] \in PacketByte
    BY <2>1 DEF MouseInv, MouseTypeOK
  <2>3. HandleMousePacket(sent[3])
    BY <2>2 DEF Interrupt
  <2>4. Bit(sent[1], 4) \in BOOLEAN /\ Bit(sent[1], 5) \in BOOLEAN
    BY DEF Bit
  <2>5. /\ dx # -256 => Distance(sent[2], Bit(sent[1], 4)) = dx
        /\ dy # -256 => Distance(sent[3], Bit(sent[1], 5)) = dy
    BY <2>2, <2>4, DistanceIsSigned
  <2>. QED  BY <2>1, <2>3, <2>5 DEF HandleMousePacket
<1>. QED  BY <1>1, MouseInvAlways, PTL DEF MouseSpec, HandledAsSent

(* All that the mouse's users see: whatever is lost it stays on the        *)
(* screen, and until then it moves as far as the packets say.              *)
THEOREM MouseIsRight == MouseAssumption => (MouseSpec => MouseRight)
BY MouseIsSafe, MouseHandlesAsSent DEF MouseRight

-----------------------------------------------------------------------------
(* PCI.  Through all the returns the functions given are the visible ones  *)
(* before the counters, and the counters stand in what has answered.       *)

Position == <<Entry, Bus, Device, Func>>

Passed(p) == {f \in Visible : Before(f, p)}

Standing ==
    loop # "idle" =>
      /\ Entry = Entries => Bus = 0 /\ Device = 0 /\ Func = 0
      /\ Entry < Entries =>
           /\ (loop = "entry" /\ Bus = 0) \/ Bus >= Segments[Entry + 1].StartBus
           /\ Device > 0 \/ Func > 0 \/ loop \in {"device", "func"} =>
                /\ Bus >= Segments[Entry + 1].StartBus /\ Bus < Segments[Entry + 1].EndBus
                /\ <<Entry, Bus, 0, 0>> \in machine
           /\ Func > 0 \/ loop = "func" =>
                Device < Devices /\ <<Entry, Bus, Device, 0>> \in machine
      /\ given = Passed(Position)

IsFirst == IF ACHIDevice = NoDevice THEN Visible \cap Ahci = {}
           ELSE /\ ACHIDevice \in Visible \cap Ahci
                /\ \A f \in Visible \cap Ahci : f = ACHIDevice \/ Before(ACHIDevice, f)

Looking == /\ user = "none" => loop = "idle" /\ ACHIDevice = NoDevice
           /\ user = "ahci" /\ loop # "idle" => ACHIDevice = NoDevice /\ given \cap Ahci = {}
           /\ (user = "ahci" /\ loop = "idle") \/ user = "list" => IsFirst

PCIInv == PCITypeOK /\ Standing /\ Looking

(* Before is the order of the counters: the entry counts most.             *)
Quad == Nat \X Nat \X Nat \X Nat

Precedes(f, e, b, d, k) == \/ f[1] < e
                           \/ f[1] = e /\ f[2] < b
                           \/ f[1] = e /\ f[2] = b /\ f[3] < d
                           \/ f[1] = e /\ f[2] = b /\ f[3] = d /\ f[4] < k

LEMMA BeforeIs ==
    ASSUME NEW f \in Quad, NEW g \in Quad
    PROVE  Before(f, g) <=> Precedes(f, g[1], g[2], g[3], g[4])
<1>. DEFINE Differ(i) == f[i] < g[i] /\ \A j \in 1 .. i - 1 : f[j] = g[j]
<1>1. Differ(1) <=> f[1] < g[1]  OBVIOUS
<1>2. Differ(2) <=> f[1] = g[1] /\ f[2] < g[2]
  <2>1. \A j : j \in 1 .. 2 - 1 <=> j = 1  OBVIOUS
  <2>. QED  BY <2>1
<1>3. Differ(3) <=> f[1] = g[1] /\ f[2] = g[2] /\ f[3] < g[3]
  <2>1. \A j : j \in 1 .. 3 - 1 <=> j = 1 \/ j = 2  OBVIOUS
  <2>. QED  BY <2>1
<1>4. Differ(4) <=> f[1] = g[1] /\ f[2] = g[2] /\ f[3] = g[3] /\ f[4] < g[4]
  <2>1. \A j : j \in 1 .. 4 - 1 <=> j = 1 \/ j = 2 \/ j = 3  OBVIOUS
  <2>. QED  BY <2>1
<1>5. Before(f, g) <=> \E i \in 1 .. 4 : Differ(i)  BY DEF Before
<1>6. \A i : i \in 1 .. 4 <=> i = 1 \/ i = 2 \/ i = 3 \/ i = 4  OBVIOUS
<1>. HIDE DEF Differ
<1>7. Before(f, g) <=> Differ(1) \/ Differ(2) \/ Differ(3) \/ Differ(4)  BY <1>5, <1>6
<1>. QED  BY <1>1, <1>2, <1>3, <1>4, <1>7 DEF Precedes

(* What is visible lies inside of the four loops.                          *)
LEMMA VisibleFacts ==
    ASSUME PCIAssumption, machine \in Machines, NEW f \in Visible
    PROVE  /\ f \in Quad /\ f = <<f[1], f[2], f[3], f[4]>>
           /\ f[1] < Entries /\ f[3] < Devices /\ f[4] < Funcs
           /\ f[2] >= Segments[f[1] + 1].StartBus /\ f[2] < Segments[f[1] + 1].EndBus
           /\ f \in machine /\ <<f[1], f[2], 0, 0>> \in machine
           /\ <<f[1], f[2], f[3], 0>> \in machine
<1>1. f \in Function /\ f \in machine  BY DEF PCIAssumption, MachinesAssumption, Visible
<1>2. Entries \in Nat /\ Devices \in Nat /\ Funcs \in Nat
  BY DEF PCIAssumption, SegmentsAssumption, SizeAssumption, Entries
<1>3. f \in Quad /\ f[1] < Entries /\ f[3] < Devices /\ f[4] < Funcs
  BY <1>1, <1>2 DEF Function, Quad
<1>. QED  BY <1>1, <1>3 DEF Quad, Visible, Reachable

LEMMA Counters ==
    ASSUME PCIAssumption, PCITypeOK
    PROVE  /\ Entry \in Nat /\ Bus \in Nat /\ Device \in Nat /\ Func \in Nat
           /\ Entries \in Nat /\ Devices \in Nat \ {0} /\ Funcs \in Nat \ {0}
           /\ Entry <= Entries /\ Device <= Devices /\ Func <= Funcs /\ Bus <= 255
           /\ \A e \in Nat : e < Entries => /\ Segments[e + 1].StartBus \in 0 .. 255
                                            /\ Segments[e + 1].EndBus \in 0 .. 255
<1>1. Entries \in Nat /\ Devices \in Nat \ {0} /\ Funcs \in Nat \ {0}
  BY DEF PCIAssumption, SegmentsAssumption, SizeAssumption, Entries
<1>2. ASSUME NEW e \in Nat, e < Entries
      PROVE  Segments[e + 1].StartBus \in 0 .. 255 /\ Segments[e + 1].EndBus \in 0 .. 255
  <2>1. e + 1 \in 1 .. Len(Segments)  BY <1>1, <1>2 DEF Entries
  <2>. DEFINE Segment == [StartBus : 0 .. 255, EndBus : 0 .. 255]
  <2>3. Segments \in Seq(Segment)  BY DEF PCIAssumption, SegmentsAssumption
  <2>. HIDE DEF Segment
  <2>4. Segments[e + 1] \in Segment  BY <2>1, <2>3
  <2>2. Segments[e + 1] \in [StartBus : 0 .. 255, EndBus : 0 .. 255]  BY <2>4 DEF Segment
  <2>. QED  BY <2>2
<1>3. /\ Entry \in Nat /\ Bus \in Nat /\ Device \in Nat /\ Func \in Nat
      /\ Entry <= Entries /\ Device <= Devices /\ Func <= Funcs /\ Bus <= 255
  BY <1>1 DEF PCITypeOK
<1>. QED  BY <1>1, <1>2, <1>3

(* A step that gives nothing: it is enough that the counters stand well    *)
(* again and passed nothing visible.                                       *)
LEMMA CountOn ==
    ASSUME PCIAssumption, PCIInv, loop # "idle", loop' \in {"entry", "bus", "device", "func"},
           UNCHANGED <<machine, user, given, ACHIDevice>>,
           \A f \in Visible : Precedes(f, Entry, Bus, Device, Func)
                                <=> Precedes(f, Entry', Bus', Device', Func'),
           PCITypeOK',
           Entry' = Entries => Bus' = 0 /\ Device' = 0 /\ Func' = 0,
           Entry' < Entries =>
             /\ (loop' = "entry" /\ Bus' = 0) \/ Bus' >= Segments[Entry' + 1].StartBus
             /\ Device' > 0 \/ Func' > 0 \/ loop' \in {"device", "func"} =>
                  /\ Bus' >= Segments[Entry' + 1].StartBus /\ Bus' < Segments[Entry' + 1].EndBus
                  /\ <<Entry', Bus', 0, 0>> \in machine
             /\ Func' > 0 \/ loop' = "func" =>
                  Device' < Devices /\ <<Entry', Bus', Device', 0>> \in machine
    PROVE  PCIInv'
<1>1. machine \in Machines /\ PCITypeOK /\ given = Passed(Position)
  BY DEF PCIInv, PCITypeOK, Standing
<1>2. Visible' = Visible  BY DEF Visible, Reachable
<1>3. Position \in Quad  BY <1>1, Counters DEF Position, Quad
<1>4. Position' \in Quad
  <2>1. /\ Entries \in Nat /\ Devices \in Nat /\ Funcs \in Nat  BY <1>1, Counters
  <2>2. Entry' \in Nat /\ Bus' \in Nat /\ Device' \in Nat /\ Func' \in Nat  BY <2>1 DEF PCITypeOK
  <2>. QED  BY <2>2 DEF Position, Quad
<1>5. ASSUME NEW f \in Visible  PROVE Before(f, Position) <=> Before(f, Position')
  <2>1. f \in Quad  BY <1>1, VisibleFacts
  <2>2. Before(f, Position) <=> Precedes(f, Entry, Bus, Device, Func)
    BY <1>3, <2>1, BeforeIs DEF Position
  <2>3. Before(f, Position') <=> Precedes(f, Entry', Bus', Device', Func')
    BY <1>4, <2>1, BeforeIs DEF Position
  <2>. QED  BY <2>2, <2>3
<1>6. given' = Passed(Position)'
  BY <1>1, <1>2, <1>5 DEF Passed
<1>7. Standing'  BY <1>6 DEF Standing
<1>8. Looking'  BY <1>2 DEF PCIInv, Looking, IsFirst
<1>. QED  BY <1>7, <1>8 DEF PCIInv

(* What FuncLoop returns is the first of the visible functions not given.  *)
LEMMA FirstLeft ==
    ASSUME PCIAssumption, PCIInv, loop = "func", NEW g, g = Position,
           Func < Funcs, g \in machine
    PROVE  /\ g \in Quad /\ g \in Visible \ given
           /\ \A f \in Visible \ given : f # g => Before(g, f)
<1>0. /\ Entry \in Nat /\ Bus \in Nat /\ Device \in Nat /\ Func \in Nat
      /\ machine \in Machines /\ Entry < Entries
      /\ given = Passed(g)
  BY Counters DEF PCIInv, PCITypeOK, Standing
<1>1. g \in Quad /\ g[1] = Entry /\ g[2] = Bus /\ g[3] = Device /\ g[4] = Func
  BY <1>0 DEF Quad, Position
<1>2. g \in Visible
  BY <1>0, <1>1 DEF PCIInv, Standing, Visible, Reachable
<1>3. ~Before(g, g)
  <2>1. ~Precedes(g, Entry, Bus, Device, Func)  BY <1>0, <1>1 DEF Precedes
  <2>. QED  BY <1>1, <2>1, BeforeIs
<1>4. ASSUME NEW f \in Visible \ given, f # g  PROVE Before(g, f)
  <2>1. ~Before(f, g)  BY <1>0, <1>4 DEF Passed
  <2>2. f \in Quad /\ f = <<f[1], f[2], f[3], f[4]>>  BY <1>0, VisibleFacts
  <2>3. /\ f[1] \in Nat /\ f[2] \in Nat /\ f[3] \in Nat /\ f[4] \in Nat
    BY <2>2 DEF Quad
  <2>4. g = <<g[1], g[2], g[3], g[4]>>  BY <1>1 DEF Quad
  <2>5. ~(f[1] = g[1] /\ f[2] = g[2] /\ f[3] = g[3] /\ f[4] = g[4])
    BY <1>4, <2>2, <2>4
  <2>6. ~Precedes(f, g[1], g[2], g[3], g[4])  BY <1>1, <2>1, <2>2, BeforeIs
  <2>7. Precedes(g, f[1], f[2], f[3], f[4])
    BY <1>0, <1>1, <2>3, <2>5, <2>6 DEF Precedes
  <2>. QED  BY <1>1, <2>2, <2>7, BeforeIs
<1>. QED  BY <1>0, <1>1, <1>2, <1>3, <1>4 DEF Passed

(* At the end of the table everything visible has been given.              *)
LEMMA AllGiven ==
    ASSUME PCIAssumption, PCIInv, loop = "entry", ~(Entry < Entries)
    PROVE  given = Visible
<1>0. machine \in Machines /\ Entries \in Nat /\ Entry = Entries /\ Position \in Quad
  BY Counters DEF PCIInv, PCITypeOK, Position, Quad
<1>1. given = Passed(Position)  BY DEF PCIInv, Standing
<1>2. ASSUME NEW f \in Visible  PROVE Before(f, Position)
  <2>1. f \in Quad /\ f[1] < Entries  BY <1>0, VisibleFacts
  <2>2. Precedes(f, Entry, Bus, Device, Func)  BY <1>0, <2>1 DEF Precedes
  <2>. QED  BY <1>0, <2>1, <2>2, BeforeIs DEF Position
<1>. QED  BY <1>1, <1>2 DEF Passed

LEMMA PCIInvNext == PCIAssumption /\ PCIInv /\ [PCINext]_pciVars => PCIInv'
<1>. SUFFICES ASSUME PCIAssumption, PCIInv, [PCINext]_pciVars  PROVE PCIInv'
  OBVIOUS
<1>. DEFINE S == Segments[Entry + 1].StartBus
            E == Segments[Entry + 1].EndBus
<1>0. /\ Entry \in Nat /\ Bus \in Nat /\ Device \in Nat /\ Func \in Nat
      /\ Entries \in Nat /\ Devices \in Nat \ {0} /\ Funcs \in Nat \ {0}
      /\ Entry <= Entries /\ Device <= Devices /\ Func <= Funcs /\ Bus <= 255
      /\ machine \in Machines /\ PCITypeOK
      /\ Entry < Entries => S \in 0 .. 255 /\ E \in 0 .. 255
      /\ Position \in Quad
  BY Counters DEF PCIInv, PCITypeOK, Position, Quad
<1>. DEFINE Within(f) ==
              /\ f \in Quad /\ f[1] \in Nat /\ f[2] \in Nat /\ f[3] \in Nat /\ f[4] \in Nat
              /\ f[1] < Entries /\ f[3] < Devices /\ f[4] < Funcs
              /\ f[1] = Entry => f[2] >= S /\ f[2] < E
              /\ f \in machine /\ <<f[1], f[2], 0, 0>> \in machine
              /\ <<f[1], f[2], f[3], 0>> \in machine
            Same(f) == Precedes(f, Entry, Bus, Device, Func)
                         <=> Precedes(f, Entry', Bus', Device', Func')
<1>01. ASSUME NEW f \in Visible  PROVE Within(f)
  <2>1. f \in Quad  BY <1>0, VisibleFacts
  <2>. QED  BY <1>0, <2>1, VisibleFacts DEF Quad
<1>. HIDE DEF S, E
<1>1. CASE EntryLoop
  <2>1. CASE Entry < Entries
    <3>1. /\ loop = "entry" /\ loop' = "bus" /\ Bus' = (IF Bus = 0 THEN S ELSE Bus)
          /\ Entry' = Entry /\ Device' = Device /\ Func' = Func
          /\ UNCHANGED <<machine, user, given, ACHIDevice>>
      BY <1>1, <2>1 DEF EntryLoop, S
    <3>. DEFINE b == Bus'
    <3>2. b \in 0 .. 255  BY <1>0, <2>1, <3>1
    <3>3. Bus = 0 \/ Bus >= S  BY <1>0, <2>1, <3>1 DEF PCIInv, Standing, S
    <3>4. b >= S /\ (b # Bus => Bus = 0 /\ b = S /\ S > 0)  BY <1>0, <2>1, <3>1, <3>3
    <3>5. b # Bus => Device = 0 /\ Func = 0
      BY <1>0, <2>1, <3>1, <3>4 DEF PCIInv, Standing, S, E
    <3>7. \A f \in Visible : Same(f)
      <4>1. ASSUME NEW f \in Visible  PROVE Same(f)
        <5>0. Within(f)  BY <1>01
        <5>. QED  BY <1>0, <3>1, <3>2, <3>4, <3>5, <5>0 DEF Precedes
      <4>. QED  BY <4>1
    <3>8. PCITypeOK'  BY <1>0, <2>1, <3>1, <3>2 DEF PCITypeOK
    <3>9. /\ Entry' # Entries /\ Bus' >= S
          /\ Device' > 0 \/ Func' > 0 => Bus' < E /\ <<Entry', Bus', 0, 0>> \in machine
          /\ Func' > 0 => Device' < Devices /\ <<Entry', Bus', Device', 0>> \in machine
      BY <1>0, <2>1, <3>1, <3>4, <3>5 DEF PCIInv, Standing, S, E
    <3>. QED  BY <3>1, <3>7, <3>8, <3>9, CountOn DEF S, E
  <2>2. CASE ~(Entry < Entries)
    <3>1. /\ loop = "entry" /\ loop' = "idle" /\ Entry = Entries /\ Entry' = 0
          /\ UNCHANGED <<machine, Bus, Device, Func, user, given, ACHIDevice>>
      BY <1>0, <1>1, <2>2 DEF EntryLoop
    <3>2. Visible' = Visible  BY <3>1 DEF Visible, Reachable
    <3>3. given = Visible  BY <2>2, <3>1, AllGiven
    <3>4. PCITypeOK'  BY <1>0, <3>1 DEF PCITypeOK
    <3>5. Looking'  BY <3>1, <3>2, <3>3 DEF PCIInv, Looking, IsFirst
    <3>. QED  BY <3>1, <3>4, <3>5 DEF PCIInv, Standing, S, E
  <2>. QED  BY <2>1, <2>2
<1>2. CASE BusLoop
  <2>0. /\ loop = "bus" /\ Device' = Device /\ Func' = Func /\ Entry < Entries
        /\ UNCHANGED <<machine, user, given, ACHIDevice>>
    BY <1>0, <1>2 DEF BusLoop, PCITypeOK
  <2>01. Bus >= S  BY <1>0, <2>0 DEF PCIInv, Standing, S, E
  <2>02. Device > 0 \/ Func > 0 => Bus < E /\ <<Entry, Bus, 0, 0>> \in machine
    BY <1>0, <2>0 DEF PCIInv, Standing, S, E
  <2>1. CASE Bus < E /\ <<Entry, Bus, 0, 0>> \in machine
    <3>1. loop' = "device" /\ Entry' = Entry /\ Bus' = Bus
      BY <1>2, <2>1 DEF BusLoop, Answers, E
    <3>2. PCITypeOK'  BY <1>0, <2>0, <3>1 DEF PCITypeOK
    <3>3. Func' > 0 => Device' < Devices /\ <<Entry', Bus', Device', 0>> \in machine
      BY <1>0, <2>0, <3>1 DEF PCIInv, Standing, S, E
    <3>. QED  BY <1>0, <2>0, <2>01, <2>1, <3>1, <3>2, <3>3, CountOn DEF S, E
  <2>2. CASE Bus < E /\ <<Entry, Bus, 0, 0>> \notin machine
    <3>1. loop' = "bus" /\ Entry' = Entry /\ Bus' = Bus + 1
      BY <1>2, <2>0, <2>2 DEF BusLoop, Answers, E
    <3>2. Device = 0 /\ Func = 0 /\ Bus + 1 <= 255  BY <1>0, <2>0, <2>02, <2>2
    <3>3. PCITypeOK'  BY <1>0, <2>0, <3>1, <3>2 DEF PCITypeOK
    <3>5. \A f \in Visible : Same(f)
      <4>1. ASSUME NEW f \in Visible  PROVE Same(f)
        <5>0. Within(f)  BY <1>01
        <5>1. ~(f[1] = Entry /\ f[2] = Bus)  BY <5>0, <2>2
        <5>. QED  BY <1>0, <2>0, <3>1, <3>2, <5>0, <5>1 DEF Precedes
      <4>. QED  BY <4>1
    <3>6. Bus' >= S  BY <1>0, <2>0, <2>01, <3>1
    <3>. QED  BY <1>0, <2>0, <3>1, <3>2, <3>3, <3>5, <3>6, CountOn DEF S, E
  <2>3. CASE ~(Bus < E)
    <3>1. loop' = "entry" /\ Entry' = Entry + 1 /\ Bus' = 0
      BY <1>2, <2>0, <2>3 DEF BusLoop, E
    <3>2. Device = 0 /\ Func = 0  BY <1>0, <2>0, <2>02, <2>3
    <3>3. PCITypeOK'  BY <1>0, <2>0, <3>1, <3>2 DEF PCITypeOK
    <3>5. \A f \in Visible : Same(f)
      <4>1. ASSUME NEW f \in Visible  PROVE Same(f)
        <5>0. Within(f)  BY <1>01
        <5>1. f[1] = Entry => f[2] < Bus  BY <1>0, <5>0, <2>0, <2>3
        <5>. QED  BY <1>0, <2>0, <3>1, <3>2, <5>0, <5>1 DEF Precedes
      <4>. QED  BY <4>1
    <3>. QED  BY <1>0, <2>0, <3>1, <3>2, <3>3, <3>5, CountOn DEF S, E
  <2>. QED  BY <2>1, <2>2, <2>3
<1>3. CASE DeviceLoop
  <2>0. /\ loop = "device" /\ Entry' = Entry /\ Func' = Func /\ Entry < Entries
        /\ UNCHANGED <<machine, user, given, ACHIDevice>>
    BY <1>0, <1>3 DEF DeviceLoop, PCITypeOK
  <2>01. Bus >= S /\ Bus < E /\ <<Entry, Bus, 0, 0>> \in machine
    BY <1>0, <2>0 DEF PCIInv, Standing, S, E
  <2>02. Func > 0 => Device < Devices /\ <<Entry, Bus, Device, 0>> \in machine
    BY <1>0, <2>0 DEF PCIInv, Standing
  <2>1. CASE Device < Devices /\ <<Entry, Bus, Device, 0>> \in machine
    <3>1. loop' = "func" /\ Bus' = Bus /\ Device' = Device
      BY <1>3, <2>1 DEF DeviceLoop, Answers
    <3>2. PCITypeOK'  BY <1>0, <2>0, <3>1 DEF PCITypeOK
    <3>. QED  BY <1>0, <2>0, <2>01, <2>1, <3>1, <3>2, CountOn DEF S, E
  <2>2. CASE Device < Devices /\ <<Entry, Bus, Device, 0>> \notin machine
    <3>1. loop' = "device" /\ Bus' = Bus /\ Device' = Device + 1
      BY <1>3, <2>0, <2>2 DEF DeviceLoop, Answers
    <3>2. Func = 0 /\ Device + 1 <= Devices  BY <1>0, <2>0, <2>02, <2>2
    <3>3. PCITypeOK'  BY <1>0, <2>0, <3>1, <3>2 DEF PCITypeOK
    <3>5. \A f \in Visible : Same(f)
      <4>1. ASSUME NEW f \in Visible  PROVE Same(f)
        <5>0. Within(f)  BY <1>01
        <5>1. ~(f[1] = Entry /\ f[2] = Bus /\ f[3] = Device)  BY <5>0, <2>2
        <5>. QED  BY <1>0, <2>0, <3>1, <3>2, <5>0, <5>1 DEF Precedes
      <4>. QED  BY <4>1
    <3>. QED  BY <1>0, <2>0, <2>01, <3>1, <3>2, <3>3, <3>5, CountOn DEF S, E
  <2>3. CASE ~(Device < Devices)
    <3>1. loop' = "bus" /\ Bus' = Bus + 1 /\ Device' = 0
      BY <1>3, <2>0, <2>3 DEF DeviceLoop
    <3>2. Func = 0 /\ Device = Devices /\ Bus + 1 <= 255  BY <1>0, <2>0, <2>01, <2>02, <2>3
    <3>3. PCITypeOK'  BY <1>0, <2>0, <3>1, <3>2 DEF PCITypeOK
    <3>5. \A f \in Visible : Same(f)
      <4>1. ASSUME NEW f \in Visible  PROVE Same(f)
        <5>0. Within(f)  BY <1>01
        <5>1. f[3] < Device  BY <5>0, <3>2
        <5>. QED  BY <1>0, <2>0, <3>1, <3>2, <5>0, <5>1 DEF Precedes
      <4>. QED  BY <4>1
    <3>6. Bus' >= S  BY <1>0, <2>0, <2>01, <3>1
    <3>. QED  BY <1>0, <2>0, <3>1, <3>2, <3>3, <3>5, <3>6, CountOn DEF S, E
  <2>. QED  BY <2>1, <2>2, <2>3
<1>4. CASE FuncLoop
  <2>0. /\ loop = "func" /\ Entry' = Entry /\ Bus' = Bus /\ Entry < Entries
        /\ UNCHANGED <<machine, user>>
    BY <1>0, <1>4 DEF FuncLoop, PCITypeOK
  <2>01. /\ Bus >= S /\ Bus < E /\ <<Entry, Bus, 0, 0>> \in machine
         /\ Device < Devices /\ <<Entry, Bus, Device, 0>> \in machine
    BY <1>0, <2>0 DEF PCIInv, Standing, S, E
  <2>. DEFINE g == <<Entry, Bus, Device, Func>>
              q == <<Entry, Bus, Device, Func + 1>>
  <2>02. /\ g \in Quad /\ g[1] = Entry /\ g[2] = Bus /\ g[3] = Device /\ g[4] = Func
         /\ q \in Quad /\ q[1] = Entry /\ q[2] = Bus /\ q[3] = Device /\ q[4] = Func + 1
    BY <1>0 DEF Quad
  <2>03. ASSUME NEW f \in Visible
         PROVE  /\ Before(f, g) <=> Precedes(f, Entry, Bus, Device, Func)
                /\ Before(f, q) <=> Precedes(f, Entry, Bus, Device, Func + 1)
                /\ Precedes(f, Entry, Bus, Device, Func + 1)
                     <=> Precedes(f, Entry, Bus, Device, Func) \/ f = g
    <3>0. Within(f)  BY <1>01
    <3>3. f = <<f[1], f[2], f[3], f[4]>>  BY <1>0, VisibleFacts
    <3>4. f[1] = Entry /\ f[2] = Bus /\ f[3] = Device /\ f[4] = Func <=> f = g
      BY <2>02, <3>3
    <3>. HIDE DEF g, q
    <3>5. Precedes(f, Entry, Bus, Device, Func + 1)
            <=> Precedes(f, Entry, Bus, Device, Func) \/ f = g
      BY <1>0, <3>0, <3>4 DEF Precedes
    <3>. QED  BY <1>0, <2>02, <3>0, <3>5, BeforeIs
  <2>04. Position = g /\ given = Passed(g)  BY <2>0 DEF PCIInv, Standing, Position
  <2>05. Func < Funcs /\ g \in machine => \A f \in Visible \ given : f # g => Before(g, f)
    <3>. HIDE DEF g
    <3>. QED  BY <2>0, <2>04, FirstLeft
  <2>1. CASE Func < Funcs /\ g \in machine
    <3>1. /\ Func' = Func + 1 /\ given' = given \cup {g} /\ Device' = Device
          /\ loop' = (IF Breaks(g) THEN "idle" ELSE "entry")
          /\ ACHIDevice' = (IF Controller(g) THEN g ELSE ACHIDevice)
      BY <1>4, <2>1 DEF FuncLoop, Answers, FuncAfterReturn
    <3>. HIDE DEF q
    <3>2. Visible' = Visible  BY <2>0 DEF Visible, Reachable
    <3>3. g \in Visible  BY <2>01, <2>1 DEF Visible, Reachable, S, E
    <3>. HIDE DEF g
    <3>4. given' = Passed(q)
      BY <2>03, <2>02, <2>04, <3>1, <3>3 DEF Passed
    <3>5. Position' = q  BY <2>0, <3>1 DEF Position, q
    <3>6. PCITypeOK'
      <4>1. Func' \in 0 .. Funcs  BY <1>0, <2>1, <3>1
      <4>2. given' \subseteq machine  BY <1>0, <2>1, <3>1 DEF PCITypeOK
      <4>3. ACHIDevice' \in {NoDevice} \cup Ahci  BY <1>0, <3>1 DEF PCITypeOK, Controller
      <4>4. loop' \in {"idle", "entry"}  BY <3>1
      <4>. QED  BY <1>0, <2>0, <3>1, <4>1, <4>2, <4>3, <4>4 DEF PCITypeOK
    <3>7. Standing'
      <4>2. Entry' # Entries /\ Bus' >= S /\ Bus' < E  BY <1>0, <2>0, <2>01
      <4>3. given' = Passed(Position)'  BY <3>2, <3>4, <3>5 DEF Passed
      <4>4. loop' \in {"idle", "entry"}  BY <3>1
      <4>. QED  BY <2>0, <2>01, <3>1, <4>2, <4>3, <4>4 DEF Standing, S, E
    <3>8. Looking'
      <4>1. CASE Controller(g)
        <5>1. user = "ahci" /\ g \in Ahci /\ loop' = "idle" /\ ACHIDevice' = g
          BY <3>1, <4>1 DEF Controller, Breaks
        <5>2. given \cap Ahci = {}  BY <2>0, <5>1 DEF PCIInv, Looking
        <5>3. ASSUME NEW f \in Visible \cap Ahci, f # g  PROVE Before(g, f)
          BY <2>1, <2>05, <5>2, <5>3
        <5>4. g # NoDevice
          <6>1. g[1] \in Nat /\ g = <<g[1], g[2], g[3], g[4]>>  BY <2>02 DEF Quad
          <6>2. Len(g) = 4  BY <6>1
          <6>3. Len(NoDevice) = 0  BY DEF NoDevice
          <6>. QED  BY <6>2, <6>3
        <5>5. IsFirst'  BY <3>2, <3>3, <5>1, <5>3, <5>4 DEF IsFirst
        <5>. QED  BY <2>0, <5>1, <5>5 DEF Looking
      <4>2. CASE ~Controller(g)
        <5>1. loop' = "entry" /\ ACHIDevice' = ACHIDevice  BY <3>1, <4>2 DEF Breaks
        <5>2. user = "ahci" => g \notin Ahci  BY <4>2 DEF Controller
        <5>3. user \in {"ahci", "list"}  BY <1>0, <2>0 DEF PCIInv, PCITypeOK, Looking
        <5>4. user = "ahci" => ACHIDevice' = NoDevice /\ given' \cap Ahci = {}
          BY <2>0, <3>1, <5>1, <5>2 DEF PCIInv, Looking
        <5>5. user = "list" => IsFirst'  BY <2>0, <3>2, <5>1 DEF PCIInv, Looking, IsFirst
        <5>. QED  BY <2>0, <5>1, <5>3, <5>4, <5>5 DEF Looking
      <4>. QED  BY <4>1, <4>2
    <3>. QED  BY <3>6, <3>7, <3>8 DEF PCIInv
  <2>2. CASE Func < Funcs /\ g \notin machine
    <3>1. /\ Func' = Func + 1 /\ UNCHANGED <<Device, loop, given, ACHIDevice>>
      BY <1>4, <2>2 DEF FuncLoop, Answers
    <3>2. \A f \in Visible : Same(f)
      <4>1. ASSUME NEW f \in Visible  PROVE Same(f)
        <5>1. f # g  BY <1>01, <2>2
        <5>. QED  BY <2>0, <2>03, <3>1, <5>1
      <4>. QED  BY <4>1
    <3>4. PCITypeOK'
      <4>1. Func' \in 0 .. Funcs  BY <1>0, <2>2, <3>1
      <4>. QED  BY <1>0, <2>0, <3>1, <4>1 DEF PCITypeOK
    <3>. HIDE DEF g, q
    <3>. QED  BY <1>0, <2>0, <2>01, <3>1, <3>2, <3>4, CountOn DEF S, E
  <2>3. CASE ~(Func < Funcs)
    <3>1. Func' = 0 /\ Device' = Device + 1 /\ loop' = "device" /\ UNCHANGED <<given, ACHIDevice>>
      BY <1>4, <2>3 DEF FuncLoop
    <3>2. \A f \in Visible : Same(f)
      <4>1. ASSUME NEW f \in Visible  PROVE Same(f)
        <5>0. Within(f)  BY <1>01
        <5>1. f[4] < Func  BY <1>0, <5>0, <2>3
        <5>. QED  BY <1>0, <2>0, <3>1, <5>0, <5>1 DEF Precedes
      <4>. QED  BY <4>1
    <3>4. PCITypeOK'
      <4>1. Func' \in 0 .. Funcs /\ Device' \in 0 .. Devices  BY <1>0, <2>01, <3>1
      <4>. QED  BY <1>0, <2>0, <3>1, <4>1 DEF PCITypeOK
    <3>. HIDE DEF g, q
    <3>. QED  BY <1>0, <2>0, <2>01, <3>1, <3>2, <3>4, CountOn DEF S, E
  <2>. QED  BY <2>1, <2>2, <2>3
<1>5. CASE Begin
  <2>1. /\ loop = "idle" /\ loop' = "entry" /\ given' = {}
        /\ Entry' = 0 /\ Bus' = 0 /\ Device' = 0 /\ Func' = 0
        /\ user' = (IF user = "none" THEN "ahci" ELSE "list")
        /\ UNCHANGED <<machine, ACHIDevice>>
    BY <1>5 DEF Begin, ResetEnumeration
  <2>2. Visible' = Visible  BY <2>1 DEF Visible, Reachable
  <2>3. PCITypeOK'  BY <1>0, <2>1 DEF PCITypeOK
  <2>4. Passed(Position)' = {}
    <3>. DEFINE o == <<0, 0, 0, 0>>
    <3>1. Position' = o  BY <2>1 DEF Position
    <3>3. o \in Quad /\ o[1] = 0 /\ o[2] = 0 /\ o[3] = 0 /\ o[4] = 0  BY DEF Quad
    <3>. HIDE DEF o
    <3>2. ASSUME NEW f \in Visible  PROVE ~Before(f, o)
      <4>1. Within(f)  BY <1>01
      <4>2. ~Precedes(f, 0, 0, 0, 0)  BY <4>1 DEF Precedes
      <4>. QED  BY <3>3, <4>1, <4>2, BeforeIs
    <3>. QED  BY <2>2, <3>1, <3>2 DEF Passed
  <2>5. Standing'  BY <1>0, <2>1, <2>4 DEF Standing
  <2>6. Looking'
    <3>1. user \in {"none", "ahci", "list"}  BY <1>0 DEF PCITypeOK
    <3>. QED  BY <2>1, <2>2, <3>1 DEF PCIInv, Looking, IsFirst
  <2>. QED  BY <2>3, <2>5, <2>6 DEF PCIInv
<1>6. CASE UNCHANGED pciVars
  BY <1>6
  DEF pciVars, PCIInv, PCITypeOK, Standing, Looking, IsFirst, Passed, Position, Visible, Reachable
<1>. QED  BY <1>1, <1>2, <1>3, <1>4, <1>5, <1>6 DEF PCINext, Enumerate

LEMMA PCIInvAlways == PCIAssumption => (PCISpec => []PCIInv)
<1>. SUFFICES ASSUME PCIAssumption  PROVE PCISpec => []PCIInv
  OBVIOUS
<1>1. PCIInit => PCIInv
  <2>. SUFFICES ASSUME PCIInit  PROVE PCIInv
    OBVIOUS
  <2>1. Entries \in Nat /\ Devices \in Nat /\ Funcs \in Nat
    BY DEF PCIAssumption, SegmentsAssumption, SizeAssumption, Entries
  <2>. QED  BY <2>1 DEF PCIInit, PCIInv, PCITypeOK, Standing, Looking
<1>2. PCIInv /\ [PCINext]_pciVars => PCIInv'  BY PCIInvNext
<1>. QED  BY <1>1, <1>2, PTL DEF PCISpec

(* Whatever functions answer, the counters stay in their loops, and when   *)
(* AHCI::Init is done ACHIDevice is the first visible AHCI controller, or  *)
(* there is none.                                                          *)
THEOREM EnumerationIsSafe == PCIAssumption => (PCISpec => []PCISafe)
<1>1. PCIInv => PCISafe
  <2>. SUFFICES ASSUME PCIInv  PROVE PCISafe
    OBVIOUS
  <2>1. user \in {"none", "ahci", "list"}  BY DEF PCIInv, PCITypeOK
  <2>. QED  BY <2>1 DEF PCIInv, Looking, IsFirst, PCISafe, FirstController
<1>. QED  BY <1>1, PCIInvAlways, PTL

(* Enumerate, which leaves its loops with every return, gives the visible  *)
(* functions in order and once.                                            *)
THEOREM EnumerateGivesDevices == PCIAssumption => (PCISpec => ImplementsDevices)
<1>. SUFFICES ASSUME PCIAssumption  PROVE PCISpec => ImplementsDevices
  OBVIOUS
<1>. DEFINE asking == loop # "idle"
            Kept == UNCHANGED <<Visible, given, asking>>
<1>1. PCIInit => Promise!Init
  BY DEF PCIInit, Promise!Init, PCIAssumption, MachinesAssumption, Visible
<1>2. PCIInv /\ [PCINext]_pciVars => [Promise!Next]_<<Visible, given, loop # "idle">>
  <2>. SUFFICES ASSUME PCIInv, [PCINext]_pciVars  PROVE Promise!Next \/ Kept
    OBVIOUS
  <2>0. Visible' = Visible
    BY DEF PCINext, Enumerate, Begin, EntryLoop, BusLoop, DeviceLoop, FuncLoop, pciVars,
           Visible, Reachable
  <2>1. CASE Begin
    BY <2>0, <2>1 DEF Begin, Promise!Next, Promise!Reset
  <2>2. CASE EntryLoop /\ Entry < Entries
    BY <2>0, <2>2 DEF EntryLoop
  <2>3. CASE EntryLoop /\ ~(Entry < Entries)
    <3>1. loop = "entry" /\ loop' = "idle" /\ given' = given  BY <2>3 DEF EntryLoop
    <3>2. given = Visible  BY <2>3, <3>1, AllGiven
    <3>. QED  BY <2>0, <3>1, <3>2 DEF Promise!Next, Promise!NoMore
  <2>4. CASE BusLoop
    BY <2>0, <2>4 DEF BusLoop
  <2>5. CASE DeviceLoop
    BY <2>0, <2>5 DEF DeviceLoop
  <2>6. CASE FuncLoop
    <3>. DEFINE g == <<Entry, Bus, Device, Func>>
    <3>1. CASE Func < Funcs /\ g \in machine
      <4>1. loop = "func" /\ g = Position /\ given' = given \cup {g}
        BY <2>6, <3>1 DEF FuncLoop, Answers, Position
      <4>2. g \in Visible \ given /\ \A f \in Visible \ given : f # g => Before(g, f)
        BY <3>1, <4>1, FirstLeft
      <4>3. (loop # "idle")' \in BOOLEAN  OBVIOUS
      <4>. HIDE DEF g
      <4>. QED  BY <2>0, <4>1, <4>2, <4>3 DEF Promise!Next, Promise!Give
    <3>2. CASE ~(Func < Funcs /\ g \in machine)
      <4>1. loop = "func" /\ loop' # "idle" /\ given' = given
        BY <2>6, <3>2 DEF FuncLoop, Answers
      <4>. QED  BY <2>0, <4>1
    <3>. QED  BY <3>1, <3>2
  <2>7. CASE UNCHANGED pciVars
    BY <2>0, <2>7 DEF pciVars
  <2>. QED  BY <2>1, <2>2, <2>3, <2>4, <2>5, <2>6, <2>7 DEF PCINext, Enumerate
<1>. QED  BY <1>1, <1>2, PCIInvAlways, PTL DEF PCISpec, ImplementsDevices, Promise!Spec

(* All that the users of PCI rely on: each enumeration gives what is there *)
(* in order, however earlier ones were left, to AHCI::Init the first       *)
(* controller.                                                             *)
THEOREM EnumerationIsRight == PCIAssumption => (PCISpec => EnumeratesAll)
BY EnumerationIsSafe, EnumerateGivesDevices DEF EnumeratesAll

-----------------------------------------------------------------------------
(* The ways the kernel stops.  What a call writes is in its steps, and an  *)
(* error's steps clear the screen before they write: what is shown behind  *)
(* the clearing is the error's own.  Interrupts are open in a call only    *)
(* until its first step, CLI.                                              *)
Words == Captions \cup Jokes \cup Numbers \cup {stopping}

Says(list, words) == \A k \in 1 .. Len(list) : list[k][1] = "Say" => list[k][2] \in words

Clears(list) == \E k \in 1 .. Len(list) : list[k][1] = "Clear"

Writes == Failed => /\ Says(steps, Words)
                    /\ Clears(steps) \/ \A k \in DOMAIN shown : shown[k].text \in Words

Named == stopping \in {"run", "shutdown", "restart", Unknown, NMI} \cup Exceptions

Closed == stopping # "run" /\ enabled => steps # <<>> /\ Head(steps)[1] = "CLI"

StopInv == /\ \E S : steps \in Seq(S)
           /\ \E S : shown \in Seq(S)
           /\ enabled \in BOOLEAN /\ Named /\ Writes /\ Closed

LEMMA ErrorSays ==
    ASSUME NEW report, NEW joke \in Jokes, NEW number \in Numbers
    PROVE  LET list == Error(report, joke, number)
           IN  /\ \E S : list \in Seq(S)
               /\ list # <<>> /\ Head(list)[1] = "CLI" /\ Clears(list)
               /\ Says(list, Captions \cup Jokes \cup Numbers \cup {report})
<1>. DEFINE list == Error(report, joke, number)
            words == Captions \cup Jokes \cup Numbers \cup {report}
            good == {CLI, Clear} \cup {LineAt(k) : k \in 0 .. 18} \cup {Say(t) : t \in words}
<1>1. Len(list) = 47 /\ list[1] = CLI /\ list[2] = Clear /\ Head(list) = CLI
  BY DEF Error
<1>2. CLI[1] = "CLI" /\ Clear[1] = "Clear"  BY DEF CLI, Clear
<1>3. list \in Seq(good)
  <2>1. \A t \in Captions \cup {joke, number, report} : Say(t) \in good  OBVIOUS
  <2>2. CLI \in good /\ Clear \in good /\ \A k \in 0 .. 18 : LineAt(k) \in good  OBVIOUS
  <2>. HIDE DEF good
  <2>3. /\ Say("KERNEL PANIC!") \in good /\ Say("// ") \in good /\ Say("ERROR: ") \in good
        /\ Say("'") \in good /\ Say("OS_VERSION = ") \in good
        /\ Say("Electric_OS 19/02/2022") \in good /\ Say("Time: ") \in good
        /\ Say("Ticks = ") \in good /\ Say("Current Time = ") \in good /\ Say("23") \in good
        /\ Say(":") \in good /\ Say("59") \in good /\ Say("Memory: ") \in good
        /\ Say("Used Heap = ") \in good /\ Say(" KB") \in good /\ Say("Free Heap = ") \in good
        /\ Say("Locked Pages = ") \in good /\ Say("Free Pages = ") \in good
        /\ Say("System Halted!") \in good /\ Say("Please manually reboot your machine.") \in good
        /\ Say(joke) \in good /\ Say(number) \in good /\ Say(report) \in good
    BY <2>1 DEF Captions
  <2>4. /\ LineAt(0) \in good /\ LineAt(1) \in good /\ LineAt(3) \in good /\ LineAt(5) \in good
        /\ LineAt(7) \in good /\ LineAt(8) \in good /\ LineAt(9) \in good /\ LineAt(11) \in good
        /\ LineAt(12) \in good /\ LineAt(13) \in good /\ LineAt(14) \in good
        /\ LineAt(15) \in good /\ LineAt(17) \in good /\ LineAt(18) \in good
    BY <2>2
  <2>5. CLI \in good /\ Clear \in good  BY <2>2
  <2>6. /\ list[1] \in good /\ list[2] \in good /\ list[3] \in good /\ list[4] \in good
        /\ list[5] \in good /\ list[6] \in good /\ list[7] \in good /\ list[8] \in good
        /\ list[9] \in good /\ list[10] \in good /\ list[11] \in good /\ list[12] \in good
        /\ list[13] \in good /\ list[14] \in good /\ list[15] \in good /\ list[16] \in good
    BY <2>3, <2>4, <2>5 DEF Error
  <2>7. /\ list[17] \in good /\ list[18] \in good /\ list[19] \in good /\ list[20] \in good
        /\ list[21] \in good /\ list[22] \in good /\ list[23] \in good /\ list[24] \in good
        /\ list[25] \in good /\ list[26] \in good /\ list[27] \in good /\ list[28] \in good
        /\ list[29] \in good /\ list[30] \in good /\ list[31] \in good /\ list[32] \in good
    BY <2>3, <2>4, <2>5 DEF Error
  <2>8. /\ list[33] \in good /\ list[34] \in good /\ list[35] \in good /\ list[36] \in good
        /\ list[37] \in good /\ list[38] \in good /\ list[39] \in good /\ list[40] \in good
        /\ list[41] \in good /\ list[42] \in good /\ list[43] \in good /\ list[44] \in good
        /\ list[45] \in good /\ list[46] \in good /\ list[47] \in good
    BY <2>3, <2>4, <2>5 DEF Error
  <2>9. list = [k \in 1 .. 47 |-> list[k]]  BY DEF Error
  <2>. HIDE DEF list
  <2>10. \A k \in 1 .. 47 : list[k] \in good  BY <2>6, <2>7, <2>8
  <2>11. [k \in 1 .. 47 |-> list[k]] \in Seq(good)  BY <2>10
  <2>. QED  BY <2>9, <2>11
<1>4. \A step \in good : step[1] = "Say" => step[2] \in words
  BY DEF CLI, Clear, LineAt, MoveTo, Say
<1>. HIDE DEF list, good
<1>5. list # <<>> /\ Head(list) = list[1] /\ 1 \in 1 .. Len(list) /\ 2 \in 1 .. Len(list)
  <2>1. 1 \in 1 .. 47 /\ 2 \in 1 .. 47 /\ Len(<<>>) = 0  OBVIOUS
  <2>2. list # <<>>
    <3>1. ASSUME list = <<>>  PROVE FALSE
      <4>1. Len(list) = Len(<<>>)  BY <3>1, Zenon
      <4>. QED  BY <1>1, <2>1, <4>1
    <3>. QED  BY <3>1
  <2>3. Head(list) = list[1]  BY <1>1
  <2>. QED  BY <1>1, <2>1, <2>2, <2>3
<1>6. Says(list, words)
  <2>1. \A k \in 1 .. Len(list) : list[k] \in good  BY <1>3
  <2>. HIDE DEF words
  <2>. QED  BY <1>4, <2>1 DEF Says
<1>7. Clears(list) /\ Head(list)[1] = "CLI"  BY <1>1, <1>2, <1>5 DEF Clears
<1>. QED  BY <1>3, <1>5, <1>6, <1>7 DEF list, words

LEMMA Rest ==
    ASSUME NEW S, NEW s \in Seq(S), s # <<>>
    PROVE  /\ Tail(s) \in Seq(S)
           /\ \A words : Says(s, words) => /\ Says(Tail(s), words)
                                           /\ Head(s)[1] = "Say" => Head(s)[2] \in words
           /\ Clears(s) /\ Head(s)[1] # "Clear" => Clears(Tail(s))
<1>. DEFINE n == Len(s)
<1>1. n \in Nat /\ n # 0 /\ Tail(s) \in Seq(S) /\ Head(s) = s[1]  OBVIOUS
<1>2. Len(Tail(s)) = n - 1 /\ \A k \in 1 .. n - 1 : Tail(s)[k] = s[k + 1]  OBVIOUS
<1>. HIDE DEF n
<1>3. 1 \in 1 .. n /\ \A k \in 1 .. n - 1 : k + 1 \in 1 .. n  BY <1>1
<1>4. ASSUME NEW words, Says(s, words)
      PROVE  Says(Tail(s), words) /\ (Head(s)[1] = "Say" => Head(s)[2] \in words)
  BY <1>1, <1>2, <1>3, <1>4 DEF Says, n
<1>5. ASSUME Clears(s), Head(s)[1] # "Clear"  PROVE Clears(Tail(s))
  <2>1. PICK k \in 1 .. n : s[k][1] = "Clear"  BY <1>5 DEF Clears, n
  <2>2. k # 1  BY <1>1, <1>5, <2>1
  <2>3. k - 1 \in 1 .. n - 1 /\ k - 1 + 1 = k  BY <1>1, <2>2
  <2>4. Tail(s)[k - 1][1] = "Clear"  BY <1>2, <2>1, <2>3
  <2>. QED  BY <1>2, <2>3, <2>4 DEF Clears
<1>. QED  BY <1>1, <1>4, <1>5

(* A call that stops the kernel replaces the steps of the one before.      *)
LEMMA ErrorKeeps ==
    ASSUME StopInv, NEW report \in Exceptions \cup {Unknown, NMI},
           NEW joke \in Jokes, NEW number \in Numbers,
           Stop(report, Error(report, joke, number)), enabled' \in BOOLEAN
    PROVE  StopInv'
<1>. DEFINE list == Error(report, joke, number)
<1>1. stopping' = report /\ steps' = list /\ UNCHANGED shown  BY DEF Stop
<1>2. /\ \E S : list \in Seq(S)
      /\ list # <<>> /\ Head(list)[1] = "CLI" /\ Clears(list)
      /\ Says(list, Captions \cup Jokes \cup Numbers \cup {report})
  BY ErrorSays
<1>. HIDE DEF list
<1>3. Writes'  BY <1>1, <1>2 DEF Writes, Words
<1>4. Closed'  BY <1>1, <1>2 DEF Closed
<1>. QED  BY <1>1, <1>2, <1>3, <1>4 DEF StopInv, Named

LEMMA CommandKeeps == ASSUME StopInv, Command PROVE StopInv'
<1>1. /\ stopping' \in {"shutdown", "restart"} /\ enabled' = FALSE /\ UNCHANGED shown
      /\ steps' \in {CommandShutdown, CommandRestart}
  BY DEF Command, Stop
<1>2. \E S : steps' \in Seq(S)
  <2>. DEFINE S == {CLI, Clear, Reset, Centred(14), Centred(40), Say("Please wait..."), Say(Safe)}
  <2>1. Farewell \in Seq(S) /\ SafeNow \in Seq(S) /\ <<Reset>> \in Seq(S)  BY DEF Farewell, SafeNow
  <2>. HIDE DEF S
  <2>2. CommandShutdown \in Seq(S) /\ CommandRestart \in Seq(S)
    BY <2>1 DEF CommandShutdown, CommandRestart
  <2>. QED  BY <1>1, <2>2
<1>. QED  BY <1>1, <1>2 DEF StopInv, Named, Writes, Closed, Failed

(* A step of the call.                                                     *)
LEMMA StepKeeps ==
    ASSUME StopInv, Draw
    PROVE  StopInv'
<1>. DEFINE op == Head(steps)[1]
<1>1. /\ stopping # "run" /\ steps # <<>> /\ steps' = Tail(steps) /\ UNCHANGED stopping
      /\ op \in {"CLI", "Clear", "Reset", "At", "Say"}
      /\ enabled' = (IF op = "CLI" THEN FALSE ELSE enabled)
      /\ shown' = (CASE op = "Clear" -> <<>>
                     [] op = "Say" -> Append(shown, [text |-> Head(steps)[2], from |-> cursor])
                     [] OTHER -> shown)
  BY DEF Draw, Do, DoCLI, DoClear, DoAt, DoSay, DoReset
<1>2. PICK S : steps \in Seq(S)  BY DEF StopInv
<1>3. PICK T : shown \in Seq(T)  BY DEF StopInv
<1>4. /\ Tail(steps) \in Seq(S)
      /\ Says(steps, Words) => Says(Tail(steps), Words) /\ (op = "Say" => Head(steps)[2] \in Words)
      /\ Clears(steps) /\ op # "Clear" => Clears(Tail(steps))
  BY <1>1, <1>2, Rest
<1>5. enabled' = FALSE  BY <1>1 DEF StopInv, Closed
<1>. DEFINE new == [text |-> Head(steps)[2], from |-> cursor]
            Told(list) == \A k \in DOMAIN list : list[k].text \in Words
<1>6. new.text = Head(steps)[2]  OBVIOUS
<1>. HIDE DEF op, new
<1>7. /\ Append(shown, new) \in Seq(T \cup {new})
      /\ Told(shown) /\ new.text \in Words => Told(Append(shown, new))
  <2>1. shown \in Seq(T \cup {new}) /\ new \in T \cup {new}  BY <1>3
  <2>2. Append(shown, new) \in Seq(T \cup {new})  BY <2>1
  <2>3. /\ DOMAIN Append(shown, new) = 1 .. Len(shown) + 1 /\ DOMAIN shown = 1 .. Len(shown)
        /\ Len(shown) \in Nat /\ Append(shown, new)[Len(shown) + 1] = new
        /\ \A k \in 1 .. Len(shown) : Append(shown, new)[k] = shown[k]
    BY <2>1
  <2>4. ASSUME Told(shown), new.text \in Words, NEW k \in 1 .. Len(shown) + 1
        PROVE  Append(shown, new)[k].text \in Words
    <3>1. CASE k = Len(shown) + 1  BY <2>3, <2>4, <3>1
    <3>2. CASE k # Len(shown) + 1
      <4>1. k \in 1 .. Len(shown)  BY <2>3, <3>2
      <4>. QED  BY <2>3, <2>4, <4>1
    <3>. QED  BY <3>1, <3>2
  <2>. QED  BY <2>2, <2>3, <2>4
<1>8. \E U : shown' \in Seq(U)
  <2>1. <<>> \in Seq(T)  OBVIOUS
  <2>. QED  BY <1>1, <1>3, <1>7, <2>1 DEF new
<1>9. Words' = Words /\ Failed' = Failed  BY <1>1 DEF Words, Failed
<1>10. Writes'
  <2>. SUFFICES ASSUME Failed  PROVE Says(Tail(steps), Words) /\ (Clears(Tail(steps)) \/ Told(shown'))
    BY <1>1, <1>9 DEF Writes
  <2>1. Says(steps, Words) /\ (Clears(steps) \/ Told(shown))  BY DEF StopInv, Writes
  <2>2. CASE op = "Clear"
    <3>1. shown' = <<>>  BY <1>1, <2>2
    <3>. QED  BY <1>4, <2>1, <3>1
  <2>3. CASE op = "Say"
    <3>1. shown' = Append(shown, new)  BY <1>1, <2>3 DEF new
    <3>. QED  BY <1>4, <1>6, <1>7, <2>1, <2>3, <3>1
  <2>4. CASE op \notin {"Clear", "Say"}
    <3>1. shown' = shown  BY <1>1, <2>4
    <3>. QED  BY <1>4, <2>1, <2>4, <3>1
  <2>. QED  BY <2>2, <2>3, <2>4
<1>. QED  BY <1>1, <1>2, <1>4, <1>5, <1>8, <1>10 DEF StopInv, Named, Closed

LEMMA StopInvKeeps == StopInv /\ [PanicNext]_panicVars => StopInv'
<1>. SUFFICES ASSUME StopInv, [PanicNext]_panicVars  PROVE StopInv'
  OBVIOUS
<1>1. ASSUME Exception \/ UnknownType \/ NonMaskable  PROVE StopInv'
  <2>1. enabled' \in BOOLEAN  BY <1>1 DEF Exception, UnknownType, NonMaskable, StopInv
  <2>2. CASE Exception
    <3>1. PICK report \in Exceptions, joke \in Jokes, number \in Numbers :
              Stop(report, Error(report, joke, number))
      BY <2>2 DEF Exception
    <3>. QED  BY <2>1, <3>1, ErrorKeeps
  <2>3. CASE UnknownType
    <3>1. PICK joke \in Jokes, number \in Numbers : Stop(Unknown, Error(Unknown, joke, number))
      BY <2>3 DEF UnknownType
    <3>. QED  BY <2>1, <3>1, ErrorKeeps
  <2>4. CASE NonMaskable
    <3>1. PICK joke \in Jokes, number \in Numbers : Stop(NMI, Error(NMI, joke, number))
      BY <2>4 DEF NonMaskable
    <3>. QED  BY <2>1, <3>1, ErrorKeeps
  <2>. QED  BY <1>1, <2>2, <2>3, <2>4
<1>2. CASE UNCHANGED panicVars
  BY <1>2 DEF panicVars, StopInv, Named, Writes, Closed, Words, Failed
<1>. QED  BY <1>1, <1>2, CommandKeeps, StepKeeps DEF PanicNext

LEMMA StopInvInit == PanicInit => StopInv
<1>. SUFFICES ASSUME PanicInit  PROVE StopInv
  OBVIOUS
<1>1. <<>> \in Seq({})  OBVIOUS
<1>. QED  BY <1>1 DEF PanicInit, StopInv, Named, Writes, Closed, Failed

(* Once stopped, the kernel stays so with its screen: an interrupt that is *)
(* not masked is all that wakes the processor (StaysHalted of              *)
(* StopsReadably).                                                         *)
THEOREM HaltedForGood == PanicSpec => StaysHalted
<1>1. StopInv /\ [PanicNext]_panicVars => [Halted /\ nmi' = nmi => UNCHANGED panicVars]_panicVars
  <2>. SUFFICES ASSUME StopInv, PanicNext, Halted, nmi' = nmi  PROVE UNCHANGED panicVars
    OBVIOUS
  <2>1. stopping # "run" /\ steps = <<>> /\ ~enabled
    BY DEF Halted, StopInv, Closed
  <2>2. ~(Exception \/ UnknownType \/ Command \/ NonMaskable)
    BY <2>1 DEF Exception, UnknownType, Command, NonMaskable
  <2>3. ~Draw  BY <2>1 DEF Draw, Do, DoCLI, DoClear, DoAt, DoSay, DoReset
  <2>. QED  BY <2>2, <2>3 DEF PanicNext
<1>. QED  BY <1>1, StopInvInit, StopInvKeeps, PTL DEF PanicSpec, StaysHalted

(* Only the error that stopped the kernel is on the screen then, whatever  *)
(* errors, shutdowns and restarts it cut short, and whatever the messages, *)
(* the jokes and the screen are (NothingLeft of StopsReadably).            *)
THEOREM NoOtherMessage == PanicAssumption => (PanicSpec => []NothingLeft)
<1>. SUFFICES ASSUME PanicAssumption  PROVE PanicSpec => []NothingLeft
  OBVIOUS
<1>1. StopInv => NothingLeft
  <2>. SUFFICES ASSUME StopInv, Halted, Failed
                PROVE  /\ ~Readable("Please wait...") /\ ~Readable(Safe)
                       /\ \A report \in Exceptions \ {stopping} : ~Readable(report)
    BY DEF NothingLeft
  <2>1. ~Clears(steps)  BY DEF Halted, Clears
  <2>2. \A k \in DOMAIN shown : shown[k].text \in Words  BY <2>1 DEF StopInv, Writes
  <2>3. \A text : Readable(text) => text \in Words  BY <2>2 DEF Readable
  <2>4. {"Please wait...", Safe} \cap Captions = {}  BY DEF Captions, Safe
  <2>5. stopping \notin {"Please wait...", Safe}
    BY DEF StopInv, Named, Failed, PanicAssumption, WordsAssumption, Unknown, NMI, Safe
  <2>6. Words \cap {"Please wait...", Safe} = {}  BY <2>4, <2>5 DEF PanicAssumption, WordsAssumption, Words
  <2>7. \A report \in Exceptions \ {stopping} : report \notin Words
    BY DEF PanicAssumption, WordsAssumption, Words
  <2>. QED  BY <2>3, <2>6, <2>7
<1>. QED  BY <1>1, StopInvInit, StopInvKeeps, PTL DEF PanicSpec

(***************************************************************************)
(* Where texts are.  A point that is printed at is on the screen, but for  *)
(* two characters left of it, and never above the point printed from.      *)
(***************************************************************************)
Spot(p) == /\ p = <<p[1], p[2]>> /\ p[1] \in Int /\ p[2] \in Nat

LEMMA ScreenIs ==
    ASSUME PanicAssumption, size \in Screens
    PROVE  /\ size[1] \in Nat /\ size[1] >= 640 /\ ~(size[1] >= 864 /\ size[1] <= 959)
           /\ size[2] \in Nat /\ size[2] >= 480
BY DEF PanicAssumption, ScreensAssumption

LEMMA FitIs ==
    ASSUME NEW w \in Nat, w = size[1], NEW x \in Int, x <= w - 48
    PROVE  Fit(x) \in Nat /\ Fit(x) >= 1 /\ 24 * (Fit(x) - 1) <= w - 48 - x
                          /\ w - 48 - x < 24 * Fit(x)
BY DEF Fit

LEMMA PlaceIs ==
    ASSUME NEW w \in Nat, w = size[1], w >= 640, NEW x \in Int, NEW y \in Nat
    PROVE  LET p == Place(<<x, y>>)
           IN  /\ p = IF x + 48 > w \/ x + 48 < 0 THEN <<0, y + 48>> ELSE <<x, y>>
               /\ Spot(p) /\ p[1] >= -48 /\ p[1] <= w - 48 /\ p[2] >= y
BY DEF Place, Wraps, Spot

LEMMA PointIs ==
    ASSUME PanicAssumption, size \in Screens, NEW from, Spot(from), NEW i \in Nat \ {0}
    PROVE  LET q == Point(from, i)
           IN  Spot(q) /\ q[1] >= -48 /\ q[1] <= size[1] - 48 /\ q[2] >= from[2]
<1>. DEFINE w == size[1]
            f == Place(from)
            x == f[1]
            over == i - 1 - Fit(x)
            z == Fit(0)
<1>1. w \in Nat /\ w >= 640  BY ScreenIs
<1>2. Spot(f) /\ x >= -48 /\ x <= w - 48 /\ f[2] >= from[2]
  <2>1. from = <<from[1], from[2]>> /\ from[1] \in Int /\ from[2] \in Nat  BY DEF Spot
  <2>. QED  BY <1>1, <2>1, PlaceIs
<1>3. /\ x \in Int /\ f[2] \in Nat
      /\ Fit(x) \in Nat /\ 24 * (Fit(x) - 1) <= w - 48 - x
      /\ z \in Nat /\ z >= 1 /\ 24 * (z - 1) <= w - 48
  BY <1>1, <1>2, FitIs DEF Spot
<1>4. Point(from, i) = IF over < 0 THEN <<x + 24 * (i - 1), f[2]>>
                       ELSE <<24 * (over % z), f[2] + 48 * (1 + over \div z)>>
  BY DEF Point
<1>. HIDE DEF f, z
<1>5. over \in Int  BY <1>3
<1>6. CASE over < 0
  <2>1. i - 1 <= Fit(x) - 1 /\ i - 1 >= 0  BY <1>3, <1>6
  <2>. QED  BY <1>1, <1>2, <1>3, <1>4, <1>6, <2>1 DEF Spot
<1>7. CASE over >= 0
  <2>1. over \in Nat  BY <1>5, <1>7
  <2>. HIDE DEF over
  <2>2. (over % z) \in Nat /\ (over % z) <= z - 1 /\ (over \div z) \in Nat
    BY <1>3, <2>1
  <2>. QED  BY <1>1, <1>2, <1>3, <1>4, <1>7, <2>1, <2>2 DEF Spot
<1>. QED  BY <1>5, <1>6, <1>7

(* A text that fits into two lines.                                        *)
LEMMA TwoLines ==
    ASSUME PanicAssumption, size \in Screens, NEW x \in Nat, NEW y \in Nat, x <= size[1] - 48,
           NEW i \in Nat \ {0}, i <= Fit(x) + Fit(0)
    PROVE  Point(<<x, y>>, i) = IF i <= Fit(x) THEN <<x + 24 * (i - 1), y>>
                                               ELSE <<24 * (i - 1 - Fit(x)), y + 48>>
<1>. DEFINE w == size[1]
            z == Fit(0)
            over == i - 1 - Fit(x)
<1>1. w \in Nat /\ w >= 640  BY ScreenIs
<1>2. Place(<<x, y>>) = <<x, y>>
  <2>1. ~(x + 48 > w \/ x + 48 < 0) /\ x \in Int  BY <1>1
  <2>. QED  BY <2>1 DEF Place, Wraps
<1>3. Fit(x) \in Nat /\ z \in Nat /\ z >= 1  BY <1>1, FitIs
<1>4. Point(<<x, y>>, i) = IF over < 0 THEN <<x + 24 * (i - 1), y>>
                           ELSE <<24 * (over % z), y + 48 * (1 + over \div z)>>
  BY <1>2 DEF Point
<1>. HIDE DEF z
<1>5. over \in Int /\ over < z  BY <1>3 DEF z
<1>6. CASE over < 0
  BY <1>3, <1>4, <1>6
<1>7. CASE over >= 0
  <2>1. over \in Nat  BY <1>5, <1>7
  <2>. HIDE DEF over
  <2>2. over % z = over /\ over \div z = 0  BY <1>3, <1>5, <2>1
  <2>3. Point(<<x, y>>, i) = <<24 * over, y + 48>>  BY <1>4, <1>7, <2>1, <2>2
  <2>. QED  BY <1>3, <1>7, <2>3 DEF over
<1>. QED  BY <1>5, <1>6, <1>7

(* The message of an error begins behind "ERROR: '" and may go on below;   *)
(* the closing quote behind it does not touch it.                          *)
Message == [text |-> stopping, from |-> <<292, 194>>]

Beside(q) == \A p \in Area(Message) : ~Overlap(p, q)

LEMMA MessageIsInside ==
    ASSUME PanicAssumption, size \in Screens, stopping \in Exceptions \cup {Unknown, NMI},
           NEW p \in Area(Message)
    PROVE  /\ InScreen(p) /\ p = <<p[1], p[2]>> /\ p[1] \in Nat /\ p[2] \in {194, 242}
           /\ LET l == Point(<<292, 194>>, Len(stopping))
              IN  /\ l = <<l[1], l[2]>> /\ l[1] \in Nat /\ l[1] <= size[1] - 48 /\ l[2] \in {194, 242}
                  /\ p[2] <= l[2] /\ (p[2] = l[2] => p[1] <= l[1])
<1>. DEFINE w == size[1]
            n == Len(stopping)
            f == Fit(292)
            z == Fit(0)
            l == Point(<<292, 194>>, n)
<1>1. w \in Nat /\ w >= 640 /\ size[2] \in Nat /\ size[2] >= 480  BY ScreenIs
<1>2. n \in Nat /\ n >= 1 /\ n <= 38
  <2>1. n \in 1 .. 38  BY Zenon DEF PanicAssumption, LengthAssumption
  <2>. HIDE DEF n
  <2>. QED  BY <2>1
<1>3. /\ f \in Nat /\ z \in Nat /\ 24 * (f - 1) <= w - 340 /\ w - 340 < 24 * f
      /\ 24 * (z - 1) <= w - 48 /\ w - 48 < 24 * z
  BY <1>1, FitIs
<1>4. PICK i \in 1 .. n : p = Point(<<292, 194>>, i)  BY DEF Area, Message
<1>5. f >= 13 /\ z >= 25
  <2>. HIDE DEF w, f, z
  <2>. QED  BY <1>1, <1>3
<1>6. /\ 292 \in Nat /\ 194 \in Nat /\ 292 <= w - 48 /\ i \in Nat \ {0} /\ n \in Nat \ {0}
      /\ i <= f + z /\ n <= f + z
  <2>. HIDE DEF w, f, z, n
  <2>. QED  BY <1>1, <1>2, <1>3, <1>5
<1>7. p = IF i <= f THEN <<292 + 24 * (i - 1), 194>> ELSE <<24 * (i - 1 - f), 194 + 48>>
  BY <1>4, <1>6, TwoLines
<1>8. l = IF n <= f THEN <<292 + 24 * (n - 1), 194>> ELSE <<24 * (n - 1 - f), 194 + 48>>
  BY <1>6, TwoLines
<1>. HIDE DEF w, f, z, l, n
<1>9. p[1] \in Nat /\ p[1] <= w - 48 /\ p[2] \in {194, 242} /\ p = <<p[1], p[2]>>
  BY <1>1, <1>2, <1>3, <1>6, <1>7
<1>10. l[1] \in Nat /\ l[1] <= w - 48 /\ l[2] \in {194, 242} /\ l = <<l[1], l[2]>>
  BY <1>1, <1>2, <1>3, <1>6, <1>8
<1>11. p[2] <= l[2] /\ (p[2] = l[2] => p[1] <= l[1])
  BY <1>2, <1>3, <1>7, <1>8
<1>12. InScreen(p)  BY <1>1, <1>9 DEF InScreen, w
<1>. QED  BY <1>9, <1>10, <1>11, <1>12 DEF w, l, n

LEMMA BelowIsBeside ==
    ASSUME PanicAssumption, size \in Screens, stopping \in Exceptions \cup {Unknown, NMI},
           NEW q, Spot(q), q[2] >= 290
    PROVE  Beside(q)
<1>. SUFFICES ASSUME NEW p \in Area(Message)  PROVE ~Overlap(p, q)
  BY DEF Beside
<1>1. p[2] \in {194, 242}  BY MessageIsInside
<1>. QED  BY <1>1 DEF Overlap, Spot

LEMMA QuoteIsBeside ==
    ASSUME PanicAssumption, size \in Screens, stopping \in Exceptions \cup {Unknown, NMI}
    PROVE  LET l == Point(<<292, 194>>, Len(stopping))
           IN  Beside(Point(<<l[1] + 24, l[2]>>, 1))
<1>. DEFINE l == Point(<<292, 194>>, Len(stopping))
            w == size[1]
            q == Point(<<l[1] + 24, l[2]>>, 1)
<1>. SUFFICES ASSUME NEW p \in Area(Message)  PROVE ~Overlap(p, q)
  BY DEF Beside
<1>1. /\ p[1] \in Nat /\ p[2] \in {194, 242}
      /\ l[1] \in Nat /\ l[1] <= w - 48 /\ l[2] \in {194, 242}
      /\ p[2] <= l[2] /\ (p[2] = l[2] => p[1] <= l[1])
  BY MessageIsInside
<1>2. w \in Nat /\ w >= 640  BY ScreenIs
<1>. HIDE DEF l
<1>. DEFINE f == Place(<<l[1] + 24, l[2]>>)
<1>3. /\ f = IF l[1] + 24 + 48 > w THEN <<0, l[2] + 48>> ELSE <<l[1] + 24, l[2]>>
      /\ f[1] \in Int /\ f[2] \in Nat /\ f[1] <= w - 48
  BY <1>1, <1>2 DEF Place, Wraps
<1>4. Fit(f[1]) \in Nat /\ Fit(f[1]) >= 1  BY <1>2, <1>3, FitIs
<1>5. q = <<f[1] + 24 * (1 - 1), f[2]>>  BY <1>4 DEF Point
<1>. HIDE DEF f, q
<1>6. q[1] = f[1] /\ q[2] = f[2]  BY <1>3, <1>5
<1>. QED  BY <1>1, <1>2, <1>3, <1>6 DEF Overlap

(***************************************************************************)
(* What the steps draw.  Each of them is one of a few kinds (Sort); an     *)
(* error's are numbered from the first one on (Turn), and the last three   *)
(* of a shutdown or restart clear the screen and say that it is safe now.  *)
(***************************************************************************)
Texts == Jokes \cup Numbers \cup Captions \cup Exceptions \cup {Unknown, NMI, Safe, "Please wait..."}

Aim(p) == Spot(p) /\ p[1] >= -480 /\ p[1] <= size[1] - 24

Sort(step) == \/ step \in {CLI, Clear, Reset}
              \/ \E p : Aim(p) /\ step = MoveTo(p)
              \/ \E t \in Texts : step = Say(t)

Middle == <<size[1] \div 2 - 480, size[2] \div 3>>

\* The step of an error that comes next.
Turn == 48 - Len(steps)

Reports(joke, number) ==
    LET list == Error(stopping, joke, number)
    IN  /\ Len(steps) <= 47
        /\ \A k \in 1 .. Len(steps) : steps[k] = list[k + 47 - Len(steps)]

Kept(list, k) == /\ list[k] = Message
                 /\ \A j \in k + 1 .. Len(list) : \A q \in Area(list[j]) : Beside(q)

Reported ==
    /\ Turn = 9 => cursor = <<100, 194>>
    /\ Turn = 10 => cursor = <<268, 194>>
    /\ Turn = 11 => cursor = <<292, 194>>
    /\ Turn = 12 => LET l == Point(<<292, 194>>, Len(stopping)) IN cursor = <<l[1] + 24, l[2]>>
    /\ Turn >= 12 => \E k \in 1 .. Len(shown) : Kept(shown, k)
    /\ Turn >= 14 => cursor[2] >= 290

Parting ==
    LET n == Len(steps)
    IN  /\ n >= 1 => steps[n] = Say(Safe)
        /\ n >= 2 => steps[n - 1] = Centred(40)
        /\ n >= 3 => steps[n - 2] = Clear
        /\ n <= 2 => shown = IF n = 0 THEN <<[text |-> Safe, from |-> Middle]>> ELSE <<>>
        /\ n = 1 => cursor = Middle

DrawInv == /\ StopInv
           /\ size \in Screens /\ nmi \in BOOLEAN /\ power \in {"on", "reset"}
           /\ \A k \in 1 .. Len(steps) : Sort(steps[k])
           /\ Aim(cursor)
           /\ Failed => Reported /\ \E joke \in Jokes, number \in Numbers : Reports(joke, number)
           /\ stopping \in {"shutdown", "restart"} => Parting

(* The texts have characters, so that the cursor moves on behind them.     *)
LEMMA TextsAre == ASSUME PanicAssumption, NEW t \in Texts PROVE Len(t) \in Nat /\ Len(t) >= 1
<1>. DEFINE n == Len(t)
<1>1. n \in Nat \ {0} \/ n \in 1 .. 38 \/ n = 40 \/ n = 14
  BY Zenon DEF PanicAssumption, LengthAssumption, Texts
<1>. HIDE DEF n
<1>2. n \in Nat /\ n >= 1  BY <1>1
<1>. QED  BY <1>2 DEF n

LEMMA ErrorSorts ==
    ASSUME PanicAssumption, size \in Screens, NEW report \in Exceptions \cup {Unknown, NMI},
           NEW joke \in Jokes, NEW number \in Numbers
    PROVE  LET list == Error(report, joke, number)
           IN  /\ Len(list) = 47 /\ \E S : list \in Seq(S)
               /\ \A k \in 1 .. 47 : Sort(list[k])
               /\ list[8] = LineAt(3) /\ list[9] = Say("ERROR: ") /\ list[10] = Say("'")
               /\ list[11] = Say(report) /\ list[12] = Say("'") /\ list[13] = LineAt(5)
               /\ \A k \in 14 .. 47 : (\E t \in Texts : list[k] = Say(t)) \/ (\E m \in 5 .. 18 : list[k] = LineAt(m))
<1>. DEFINE list == Error(report, joke, number)
            late == {LineAt(m) : m \in 5 .. 18} \cup {Say(t) : t \in Texts}
            good == late \cup {CLI, Clear} \cup {LineAt(m) : m \in 0 .. 4}
<1>1. /\ Len(list) = 47 /\ list[8] = LineAt(3) /\ list[9] = Say("ERROR: ") /\ list[10] = Say("'")
      /\ list[11] = Say(report) /\ list[12] = Say("'") /\ list[13] = LineAt(5)
  BY DEF Error
<1>2. \A t \in Captions \cup {joke, number, report} : Say(t) \in late
  BY DEF Texts
<1>3. \A m \in 5 .. 18 : LineAt(m) \in late  OBVIOUS
<1>4. late \subseteq good /\ CLI \in good /\ Clear \in good /\ \A m \in 0 .. 4 : LineAt(m) \in good
  OBVIOUS
<1>. HIDE DEF late, good
<1>5. /\ Say("KERNEL PANIC!") \in late /\ Say("// ") \in late /\ Say("ERROR: ") \in late
      /\ Say("'") \in late /\ Say("OS_VERSION = ") \in late
      /\ Say("Electric_OS 19/02/2022") \in late /\ Say("Time: ") \in late
      /\ Say("Ticks = ") \in late /\ Say("Current Time = ") \in late /\ Say("23") \in late
      /\ Say(":") \in late /\ Say("59") \in late /\ Say("Memory: ") \in late
      /\ Say("Used Heap = ") \in late /\ Say(" KB") \in late /\ Say("Free Heap = ") \in late
      /\ Say("Locked Pages = ") \in late /\ Say("Free Pages = ") \in late
      /\ Say("System Halted!") \in late /\ Say("Please manually reboot your machine.") \in late
      /\ Say(joke) \in late /\ Say(number) \in late /\ Say(report) \in late
  BY <1>2 DEF Captions
<1>6. /\ LineAt(5) \in late
      /\ LineAt(7) \in late /\ LineAt(8) \in late /\ LineAt(9) \in late /\ LineAt(11) \in late
      /\ LineAt(12) \in late /\ LineAt(13) \in late /\ LineAt(14) \in late
      /\ LineAt(15) \in late /\ LineAt(17) \in late /\ LineAt(18) \in late
  BY <1>3
<1>7. LineAt(0) \in good /\ LineAt(1) \in good /\ LineAt(3) \in good
  BY <1>4
<1>8. /\ list[1] \in good /\ list[2] \in good /\ list[3] \in good /\ list[4] \in good
      /\ list[5] \in good /\ list[6] \in good /\ list[7] \in good /\ list[8] \in good
      /\ list[9] \in good /\ list[10] \in good /\ list[11] \in good /\ list[12] \in good
      /\ list[13] \in good
  BY <1>4, <1>5, <1>6, <1>7 DEF Error
<1>9. /\ list[14] \in late /\ list[15] \in late /\ list[16] \in late
      /\ list[17] \in late /\ list[18] \in late /\ list[19] \in late /\ list[20] \in late
      /\ list[21] \in late /\ list[22] \in late /\ list[23] \in late /\ list[24] \in late
      /\ list[25] \in late /\ list[26] \in late /\ list[27] \in late /\ list[28] \in late
      /\ list[29] \in late /\ list[30] \in late /\ list[31] \in late /\ list[32] \in late
  BY <1>5, <1>6 DEF Error
<1>10. /\ list[33] \in late /\ list[34] \in late /\ list[35] \in late /\ list[36] \in late
       /\ list[37] \in late /\ list[38] \in late /\ list[39] \in late /\ list[40] \in late
       /\ list[41] \in late /\ list[42] \in late /\ list[43] \in late /\ list[44] \in late
       /\ list[45] \in late /\ list[46] \in late /\ list[47] \in late
  BY <1>5, <1>6 DEF Error
<1>11. \E S : list \in Seq(S)
  BY ErrorSays
<1>. HIDE DEF list
<1>12. \A k \in 14 .. 47 : list[k] \in late  BY <1>9, <1>10
<1>13. \A k \in 1 .. 47 : list[k] \in good  BY <1>4, <1>8, <1>12
<1>14. ASSUME NEW s \in good PROVE Sort(s)
  <2>1. size[1] \in Nat /\ size[1] >= 640  BY ScreenIs
  <2>2. ASSUME NEW m \in 0 .. 18 PROVE Sort(LineAt(m))
    <3>. DEFINE p == <<StartPoint[1], StartPoint[2] + 48 * m>>
    <3>1. Aim(p)  BY <2>1 DEF Aim, Spot, StartPoint
    <3>2. LineAt(m) = MoveTo(p)  BY DEF LineAt
    <3>. HIDE DEF p
    <3>. QED  BY <3>1, <3>2 DEF Sort
  <2>. QED  BY <1>14, <2>2 DEF good, late, Sort
<1>15. \A k \in 1 .. 47 : Sort(list[k])  BY <1>13, <1>14
<1>16. \A k \in 14 .. 47 : (\E t \in Texts : list[k] = Say(t)) \/ (\E m \in 5 .. 18 : list[k] = LineAt(m))
  BY <1>12 DEF late
<1>. QED  BY <1>1, <1>11, <1>15, <1>16 DEF list

LEMMA AreaSame == ASSUME size' = size PROVE \A d : Area(d)' = Area(d)
BY DEF Area, Point, Place, Fit, Wraps

LEMMA CentreIs == Centred(40) = MoveTo(Middle)
BY DEF Centred, Middle

(* What one step of a call does to the texts and the cursor.               *)
LEMMA StepIs ==
    ASSUME PanicAssumption, DrawInv, Draw
    PROVE  LET h == steps[1]
               n == Len(steps)
               end == Point(cursor, Len(h[2]))
           IN  /\ stopping' = stopping /\ size' = size /\ nmi' = nmi /\ power' \in {"on", "reset"}
               /\ n \in Nat /\ n >= 1 /\ Len(steps') = n - 1 /\ Sort(h)
               /\ \A k \in 1 .. n - 1 : steps'[k] = steps[k + 1]
               /\ h \in {CLI, Reset} => shown' = shown /\ cursor' = cursor
               /\ h = Clear => shown' = <<>> /\ cursor' = cursor
               /\ \A p : h = MoveTo(p) => shown' = shown /\ cursor' = p
               /\ \A t : h = Say(t) => /\ shown' = Append(shown, [text |-> t, from |-> cursor])
                                       /\ cursor' = <<Point(cursor, Len(t))[1] + 24, Point(cursor, Len(t))[2]>>
<1>1. PICK S : steps \in Seq(S)  BY DEF DrawInv, StopInv
<1>2. stopping # "run" /\ steps # <<>> /\ steps' = Tail(steps)
  BY DEF Draw, Do, DoCLI, DoClear, DoAt, DoSay, DoReset
<1>3. /\ Len(steps) \in Nat /\ Len(steps) >= 1 /\ Head(steps) = steps[1]
      /\ Len(steps') = Len(steps) - 1 /\ \A k \in 1 .. Len(steps) - 1 : steps'[k] = steps[k + 1]
  BY <1>1, <1>2
<1>4. Sort(steps[1])  BY <1>3 DEF DrawInv
<1>5. /\ stopping' = stopping /\ size' = size /\ nmi' = nmi /\ power' \in {"on", "reset"}
  BY DEF Draw, Do, DoCLI, DoClear, DoAt, DoSay, DoReset, DrawInv
<1>. DEFINE h == steps[1]
<1>6. /\ h[1] \in {"CLI", "Reset"} => shown' = shown /\ cursor' = cursor
      /\ h[1] = "Clear" => shown' = <<>> /\ cursor' = cursor
      /\ h[1] = "At" => shown' = shown /\ cursor' = h[2]
      /\ h[1] = "Say" => /\ shown' = Append(shown, [text |-> h[2], from |-> cursor])
                         /\ cursor' = <<Point(cursor, Len(h[2]))[1] + 24, Point(cursor, Len(h[2]))[2]>>
  BY <1>3 DEF Draw, Do, DoCLI, DoClear, DoAt, DoSay, DoReset
<1>. HIDE DEF h
<1>7. h \in {CLI, Reset} => h[1] \in {"CLI", "Reset"}  BY DEF CLI, Reset
<1>8. h = Clear => h[1] = "Clear"  BY DEF Clear
<1>9. \A p : h = MoveTo(p) => h[1] = "At" /\ h[2] = p  BY DEF MoveTo
<1>10. \A t : h = Say(t) => h[1] = "Say" /\ h[2] = t  BY DEF Say
<1>. QED  BY <1>3, <1>4, <1>5, <1>6, <1>7, <1>8, <1>9, <1>10 DEF h

LEMMA CursorAims ==
    ASSUME PanicAssumption, size \in Screens, NEW from, Spot(from), NEW t \in Texts
    PROVE  LET end == Point(from, Len(t))
           IN  Aim(<<end[1] + 24, end[2]>>) /\ end[2] >= from[2]
<1>. DEFINE end == Point(from, Len(t))
<1>1. Len(t) \in Nat \ {0}
  <2>. DEFINE n == Len(t)
  <2>1. n \in Nat /\ n >= 1  BY TextsAre
  <2>. HIDE DEF n
  <2>2. n \in Nat \ {0}  BY <2>1
  <2>. QED  BY <2>2 DEF n
<1>2. Spot(end) /\ end[1] >= -48 /\ end[1] <= size[1] - 48 /\ end[2] >= from[2]
  BY <1>1, PointIs
<1>3. size[1] \in Nat  BY ScreenIs
<1>. HIDE DEF end
<1>4. Aim(<<end[1] + 24, end[2]>>)
  BY <1>2, <1>3 DEF Aim, Spot
<1>. QED  BY <1>2, <1>4 DEF end

LEMMA StepAims ==
    ASSUME PanicAssumption, DrawInv, Draw
    PROVE  /\ Aim(cursor)' /\ (\A k \in 1 .. Len(steps) : Sort(steps[k]))'
<1>. DEFINE h == steps[1]
<1>1. /\ size' = size /\ size \in Screens /\ Sort(h) /\ Aim(cursor)
      /\ h \in {CLI, Reset, Clear} => cursor' = cursor
      /\ \A p : h = MoveTo(p) => cursor' = p
      /\ \A t : h = Say(t) => cursor' = <<Point(cursor, Len(t))[1] + 24, Point(cursor, Len(t))[2]>>
  BY StepIs DEF DrawInv
<1>. HIDE DEF h
<1>2. Aim(cursor')
  <2>1. CASE h \in {CLI, Clear, Reset}  BY <1>1, <2>1
  <2>2. ASSUME NEW p, Aim(p), h = MoveTo(p)  PROVE Aim(cursor')  BY <1>1, <2>2
  <2>3. ASSUME NEW t \in Texts, h = Say(t)  PROVE Aim(cursor')
    BY <1>1, <2>3, CursorAims DEF Aim
  <2>. QED  BY <1>1, <2>1, <2>2, <2>3 DEF Sort
<1>3. Aim(cursor)'  BY <1>1, <1>2 DEF Aim, Spot
<1>4. ASSUME NEW k \in 1 .. Len(steps')  PROVE Sort(steps'[k])
  <2>1. Len(steps) \in Nat /\ Len(steps') = Len(steps) - 1 /\ steps'[k] = steps[k + 1]  BY StepIs
  <2>. QED  BY <1>4, <2>1 DEF DrawInv
<1>5. (\A k \in 1 .. Len(steps) : Sort(steps[k]))'
  BY <1>1, <1>4 DEF Sort, Aim, Spot
<1>. QED  BY <1>3, <1>5

LEMMA StepReports ==
    ASSUME PanicAssumption, DrawInv, Draw, Failed
    PROVE  Reported' /\ (\E joke \in Jokes, number \in Numbers : Reports(joke, number))'
<1>. DEFINE h == steps[1]
            n == Len(steps)
<1>1. /\ stopping' = stopping /\ size' = size /\ size \in Screens
      /\ n \in Nat /\ n >= 1 /\ Len(steps') = n - 1
      /\ \A k \in 1 .. n - 1 : steps'[k] = steps[k + 1]
  BY StepIs DEF DrawInv
<1>2. /\ \A p : h = MoveTo(p) => shown' = shown /\ cursor' = p
      /\ \A t : h = Say(t) => /\ shown' = Append(shown, [text |-> t, from |-> cursor])
                              /\ cursor' = <<Point(cursor, Len(t))[1] + 24, Point(cursor, Len(t))[2]>>
  BY StepIs
<1>3. stopping \in Exceptions \cup {Unknown, NMI}
  BY DEF DrawInv, StopInv, Named, Failed
<1>4. PICK joke \in Jokes, number \in Numbers : Reports(joke, number)
  BY DEF DrawInv
<1>. DEFINE list == Error(stopping, joke, number)
<1>5. /\ list[8] = LineAt(3) /\ list[9] = Say("ERROR: ") /\ list[10] = Say("'")
      /\ list[11] = Say(stopping) /\ list[12] = Say("'") /\ list[13] = LineAt(5)
      /\ \A k \in 14 .. 47 : (\E t \in Texts : list[k] = Say(t)) \/ (\E m \in 5 .. 18 : list[k] = LineAt(m))
  BY <1>1, <1>3, ErrorSorts
<1>. HIDE DEF list
<1>6. n <= 47 /\ \A k \in 1 .. n : steps[k] = list[k + 47 - n]
  BY <1>4 DEF Reports, list
<1>7. h = list[48 - n] /\ Turn = 48 - n /\ Turn' = Turn + 1
  <2>1. h = list[1 + 47 - n] /\ 1 + 47 - n = 48 - n /\ 48 - (n - 1) = 48 - n + 1  BY <1>1, <1>6
  <2>. QED  BY <1>1, <2>1 DEF Turn
<1>8. (\E joke_1 \in Jokes, number_1 \in Numbers : Reports(joke_1, number_1))'
  <2>1. n - 1 <= 47 /\ \A k \in 1 .. n - 1 : steps'[k] = list[k + 47 - (n - 1)]
    <3>1. ASSUME NEW k \in 1 .. n - 1  PROVE steps'[k] = list[k + 47 - (n - 1)]
      <4>1. k + 1 \in 1 .. n /\ k + 1 + 47 - n = k + 47 - (n - 1)  BY <1>1
      <4>. QED  BY <1>1, <1>6, <4>1
    <3>. QED  BY <1>1, <1>6, <3>1
  <2>2. Reports(joke, number)'  BY <1>1, <2>1 DEF Reports, list
  <2>. QED  BY <2>2
<1>9. size[1] \in Nat /\ size[1] >= 640  BY <1>1, ScreenIs
<1>. HIDE DEF h, n
<1>10. Turn \in 1 .. 47  BY <1>1, <1>6, <1>7
<1>11. Reported /\ h = list[Turn]
  BY <1>7 DEF DrawInv
<1>12. \E S : shown \in Seq(S)  BY DEF DrawInv, StopInv
<1>late. Turn >= 14 => (\E t \in Texts : h = Say(t)) \/ (\E m \in 5 .. 18 : h = LineAt(m))
  <2>. SUFFICES ASSUME Turn >= 14  PROVE (\E t \in Texts : h = Say(t)) \/ (\E m \in 5 .. 18 : h = LineAt(m))
    OBVIOUS
  <2>1. Turn \in 14 .. 47  BY <1>10
  <2>. QED  BY <1>5, <1>11, <2>1, Zenon
<1>. DEFINE l == Point(<<292, 194>>, Len(stopping))
            Told == \E k \in 1 .. Len(shown') : Kept(shown', k)
            Next9 == Turn = 8 => cursor' = <<100, 194>>
            Next10 == Turn = 9 => cursor' = <<268, 194>>
            Next11 == Turn = 10 => cursor' = <<292, 194>>
            Next12 == Turn = 11 => cursor' = <<l[1] + 24, l[2]>>
            Kept12 == Turn >= 11 => Told
            Low14 == Turn >= 13 => cursor'[2] >= 290
<1>13. Next9
  <2>. SUFFICES ASSUME Turn = 8  PROVE cursor' = <<100, 194>>
    OBVIOUS
  <2>1. LineAt(3) = MoveTo(<<100, 194>>)
    <3>1. StartPoint[1] = 100 /\ StartPoint[2] + 48 * 3 = 194  BY DEF StartPoint
    <3>. QED  BY <3>1, Zenon DEF LineAt
  <2>. QED  BY <1>2, <1>5, <1>11, <2>1
<1>14. Next10
  <2>. SUFFICES ASSUME Turn = 9  PROVE cursor' = <<268, 194>>
    OBVIOUS
  <2>1. h = Say("ERROR: ") /\ cursor = <<100, 194>>  BY <1>5, <1>11 DEF Reported
  <2>2. Len("ERROR: ") = 7  BY Zenon DEF PanicAssumption, LengthAssumption
  <2>3. Point(<<100, 194>>, 7) = <<244, 194>>
    <3>1. Fit(100) \in Nat /\ Fit(0) \in Nat /\ Fit(100) >= 7 /\ Fit(0) >= 1  BY <1>9 DEF Fit
    <3>2. 7 <= Fit(100) + Fit(0) /\ 7 \in Nat \ {0} /\ 100 <= size[1] - 48  BY <1>9, <3>1
    <3>3. \A i \in Nat \ {0} : i <= Fit(100) + Fit(0) =>
              Point(<<100, 194>>, i) = IF i <= Fit(100) THEN <<100 + 24 * (i - 1), 194>>
                                      ELSE <<24 * (i - 1 - Fit(100)), 194 + 48>>
      <4>1. 100 \in Nat /\ 194 \in Nat  OBVIOUS
      <4>. QED  BY <1>1, <3>2, <4>1, TwoLines, Zenon
    <3>4. Point(<<100, 194>>, 7) = <<100 + 24 * (7 - 1), 194>>  BY <3>1, <3>2, <3>3
    <3>. QED  BY <3>4
  <2>4. cursor' = <<Point(<<100, 194>>, 7)[1] + 24, Point(<<100, 194>>, 7)[2]>>
    BY <1>2, <2>1, <2>2
  <2>. QED  BY <2>3, <2>4
<1>15. Next11
  <2>. SUFFICES ASSUME Turn = 10  PROVE cursor' = <<292, 194>>
    OBVIOUS
  <2>1. h = Say("'") /\ cursor = <<268, 194>>  BY <1>5, <1>11 DEF Reported
  <2>2. Len("'") = 1  BY Zenon DEF PanicAssumption, LengthAssumption
  <2>3. Point(<<268, 194>>, 1) = <<268, 194>>
    <3>1. Fit(268) \in Nat /\ Fit(0) \in Nat /\ Fit(268) >= 1 /\ Fit(0) >= 1  BY <1>9 DEF Fit
    <3>2. 1 <= Fit(268) + Fit(0) /\ 1 \in Nat \ {0} /\ 268 <= size[1] - 48  BY <1>9, <3>1
    <3>3. \A i \in Nat \ {0} : i <= Fit(268) + Fit(0) =>
              Point(<<268, 194>>, i) = IF i <= Fit(268) THEN <<268 + 24 * (i - 1), 194>>
                                      ELSE <<24 * (i - 1 - Fit(268)), 194 + 48>>
      <4>1. 268 \in Nat /\ 194 \in Nat  OBVIOUS
      <4>. QED  BY <1>1, <3>2, <4>1, TwoLines, Zenon
    <3>4. Point(<<268, 194>>, 1) = <<268 + 24 * (1 - 1), 194>>  BY <3>1, <3>2, <3>3
    <3>. QED  BY <3>4
  <2>4. cursor' = <<Point(<<268, 194>>, 1)[1] + 24, Point(<<268, 194>>, 1)[2]>>
    BY <1>2, <2>1, <2>2
  <2>. QED  BY <2>3, <2>4
<1>16. Next12
  <2>. SUFFICES ASSUME Turn = 11  PROVE cursor' = <<l[1] + 24, l[2]>>
    OBVIOUS
  <2>1. h = Say(stopping) /\ cursor = <<292, 194>>  BY <1>5, <1>11 DEF Reported
  <2>. QED  BY <1>2, <2>1
<1>17. ASSUME NEW t, h = Say(t), \A q \in Area([text |-> t, from |-> cursor]) : Beside(q),
              NEW k \in 1 .. Len(shown), Kept(shown, k)
       PROVE  Told
  <2>. DEFINE new == [text |-> t, from |-> cursor]
              m == Len(shown)
  <2>1. shown' = Append(shown, new)  BY <1>2, <1>17
  <2>2. /\ m \in Nat /\ Len(shown') = m + 1 /\ shown'[m + 1] = new
        /\ \A j \in 1 .. m : shown'[j] = shown[j]
    BY <1>12, <2>1
  <2>3. ASSUME NEW j \in k + 1 .. m + 1  PROVE \A q \in Area(shown'[j]) : Beside(q)
    <3>1. CASE j = m + 1  BY <1>17, <2>2, <3>1
    <3>2. CASE j # m + 1
      <4>1. j \in k + 1 .. m /\ j \in 1 .. m  BY <1>17, <2>2, <2>3, <3>2
      <4>. QED  BY <1>17, <2>2, <4>1 DEF Kept
    <3>. QED  BY <3>1, <3>2
  <2>4. k \in 1 .. m + 1 /\ shown'[k] = Message  BY <1>17, <2>2 DEF Kept
  <2>. HIDE DEF new
  <2>. QED  BY <2>2, <2>3, <2>4 DEF Kept
<1>18. Kept12
  <2>1. ASSUME Turn = 11  PROVE Told
    <3>1. h = Say(stopping) /\ cursor = <<292, 194>>  BY <1>5, <1>11, <2>1 DEF Reported
    <3>2. shown' = Append(shown, Message)  BY <1>2, <3>1 DEF Message
    <3>3. Len(shown) \in Nat /\ Len(shown') = Len(shown) + 1 /\ shown'[Len(shown) + 1] = Message
      BY <1>12, <3>2
    <3>4. Kept(shown', Len(shown'))  BY <3>3 DEF Kept
    <3>. QED  BY <3>3, <3>4
  <2>2. ASSUME Turn = 12  PROVE Told
    <3>1. h = Say("'") /\ cursor = <<l[1] + 24, l[2]>>  BY <1>5, <1>11, <2>2 DEF Reported
    <3>2. PICK k \in 1 .. Len(shown) : Kept(shown, k)  BY <1>11, <2>2 DEF Reported
    <3>3. Len("'") = 1  BY Zenon DEF PanicAssumption, LengthAssumption
    <3>4. Beside(Point(cursor, 1))  BY <1>1, <1>3, <3>1, QuoteIsBeside
    <3>5. \A q \in Area([text |-> "'", from |-> cursor]) : Beside(q)
      BY <3>3, <3>4 DEF Area
    <3>. QED  BY <1>17, <3>1, <3>2, <3>5
  <2>3. ASSUME Turn >= 13  PROVE Told
    <3>1. PICK k \in 1 .. Len(shown) : Kept(shown, k)  BY <1>10, <1>11, <2>3 DEF Reported
    <3>2. CASE \E m \in 5 .. 18 : h = LineAt(m)
      <4>1. shown' = shown  BY <1>2, <3>2 DEF LineAt
      <4>. QED  BY <3>1, <4>1
    <3>3. ASSUME NEW t \in Texts, h = Say(t), Turn >= 14  PROVE Told
      <4>1. cursor[2] >= 290 /\ Spot(cursor)  BY <1>11, <3>3 DEF Reported, DrawInv, Aim
      <4>2. ASSUME NEW q \in Area([text |-> t, from |-> cursor])  PROVE Beside(q)
        <5>1. PICK i \in 1 .. Len(t) : q = Point(cursor, i)  BY DEF Area
        <5>2. i \in Nat \ {0}
          <6>. DEFINE c == Len(t)
          <6>1. c \in Nat  BY TextsAre
          <6>. HIDE DEF c
          <6>2. \A i_1 \in 1 .. c : i_1 \in Nat \ {0}  BY <6>1
          <6>. QED  BY <6>2 DEF c
        <5>3. Spot(q) /\ q[2] >= cursor[2]  BY <1>1, <4>1, <5>1, <5>2, PointIs
        <5>4. q[2] >= 290  BY <4>1, <5>3 DEF Spot
        <5>. QED  BY <1>1, <1>3, <5>3, <5>4, BelowIsBeside
      <4>. QED  BY <1>17, <3>1, <3>3, <4>2
    <3>4. Turn = 13 => h = LineAt(5)  BY <1>5, <1>11
    <3>. QED  BY <1>10, <1>late, <2>3, <3>2, <3>3, <3>4
  <2>. QED  BY <1>10, <2>1, <2>2, <2>3
<1>19. Low14
  <2>. SUFFICES ASSUME Turn >= 13  PROVE cursor'[2] >= 290
    OBVIOUS
  <2>1. ASSUME NEW m \in 5 .. 18, h = LineAt(m)  PROVE cursor'[2] >= 290
    <3>. DEFINE p == <<100, 50 + 48 * m>>
    <3>1. h = MoveTo(p)  BY <2>1 DEF LineAt, StartPoint
    <3>2. p[2] >= 290  OBVIOUS
    <3>. HIDE DEF p
    <3>. QED  BY <1>2, <3>1, <3>2
  <2>2. ASSUME NEW t \in Texts, h = Say(t), Turn >= 14  PROVE cursor'[2] >= 290
    <3>. DEFINE end == Point(cursor, Len(t))
    <3>1. cursor[2] >= 290 /\ Spot(cursor)  BY <1>11, <2>2 DEF Reported, DrawInv, Aim
    <3>2. Aim(<<end[1] + 24, end[2]>>) /\ end[2] >= cursor[2]  BY <1>1, <3>1, CursorAims
    <3>3. cursor' = <<end[1] + 24, end[2]>>  BY <1>2, <2>2
    <3>. HIDE DEF end
    <3>. QED  BY <3>1, <3>2, <3>3 DEF Aim, Spot
  <2>3. Turn = 13 => h = LineAt(5)  BY <1>5, <1>11
  <2>. QED  BY <1>10, <1>late, <2>1, <2>2, <2>3
<1>20. Turn' = Turn + 1 /\ Turn \in Int  BY <1>7, <1>10
<1>21. Told => (\E k \in 1 .. Len(shown) : Kept(shown, k))'
  <2>1. Message' = Message /\ \A d : Area(d)' = Area(d)  BY <1>1, AreaSame DEF Message
  <2>2. ASSUME NEW q PROVE Beside(q)' <=> Beside(q)
    BY <1>1 DEF Beside, Overlap, Area, Point, Place, Wraps, Fit, Message
  <2>3. ASSUME NEW k \in 1 .. Len(shown'), Kept(shown', k)  PROVE Kept(shown, k)'
    BY <2>1, <2>2, <2>3 DEF Kept
  <2>. QED  BY <2>3
<1>22. (Point(<<292, 194>>, Len(stopping)))' = l
  BY <1>1 DEF Point, Place, Wraps, Fit
<1>. HIDE DEF Told, l
<1>23. Reported'
  BY <1>13, <1>14, <1>15, <1>16, <1>18, <1>19, <1>20, <1>21, <1>22 DEF Reported
<1>. QED  BY <1>8, <1>23

LEMMA StepParts ==
    ASSUME PanicAssumption, DrawInv, Draw, stopping \in {"shutdown", "restart"}
    PROVE  Parting'
<1>. DEFINE h == steps[1]
            n == Len(steps)
            drawn == [text |-> Safe, from |-> Middle]
<1>1. /\ stopping' = stopping /\ size' = size /\ n \in Nat /\ n >= 1 /\ Len(steps') = n - 1
      /\ \A k \in 1 .. n - 1 : steps'[k] = steps[k + 1]
  BY StepIs
<1>2. /\ h = Clear => shown' = <<>> /\ cursor' = cursor
      /\ h = MoveTo(Middle) => shown' = shown /\ cursor' = Middle
      /\ h = Say(Safe) => shown' = Append(shown, [text |-> Safe, from |-> cursor])
  BY StepIs
<1>3. Parting  BY DEF DrawInv
<1>4. /\ n = 1 => h = Say(Safe) /\ shown = <<>> /\ cursor = Middle
      /\ n = 2 => h = MoveTo(Middle) /\ shown = <<>>
      /\ n = 3 => h = Clear
  <2>. HIDE DEF n
  <2>1. /\ n >= 1 => steps[n] = Say(Safe)
        /\ n >= 2 => steps[n - 1] = Centred(40)
        /\ n >= 3 => steps[n - 2] = Clear
        /\ n <= 2 => shown = IF n = 0 THEN <<drawn>> ELSE <<>>
        /\ n = 1 => cursor = Middle
    BY <1>3 DEF Parting, n
  <2>2. CASE n = 1  BY <2>1, <2>2
  <2>3. CASE n = 2  BY <2>1, <2>3, CentreIs
  <2>4. CASE n = 3  BY <2>1, <2>4
  <2>. QED  BY <2>2, <2>3, <2>4
<1>. HIDE DEF h, drawn
<1>5. n = 1 => shown' = <<drawn>>
  <2>1. n = 1 => shown' = Append(<<>>, drawn)  BY <1>2, <1>4 DEF drawn
  <2>. QED  BY <2>1
<1>6. (n = 2 => shown' = <<>> /\ cursor' = Middle) /\ (n = 3 => shown' = <<>>)
  BY <1>2, <1>4
<1>7. /\ n >= 2 => steps'[n - 1] = Say(Safe)
      /\ n >= 3 => steps'[n - 2] = Centred(40)
      /\ n >= 4 => steps'[n - 3] = Clear
  <2>1. /\ n >= 2 => n - 1 \in 1 .. n - 1 /\ n - 1 + 1 = n
        /\ n >= 3 => n - 2 \in 1 .. n - 1 /\ n - 2 + 1 = n - 1
        /\ n >= 4 => n - 3 \in 1 .. n - 1 /\ n - 3 + 1 = n - 2
    BY <1>1
  <2>. QED  BY <1>1, <1>3, <2>1 DEF Parting
<1>8. Middle' = Middle /\ Centred(40)' = Centred(40)
  BY <1>1 DEF Middle, Centred, MoveTo
<1>9. n - 1 - 1 = n - 2 /\ n - 1 - 2 = n - 3 /\ n - 1 \in Nat
  BY <1>1
<1>. HIDE DEF n
<1>10. /\ n - 1 >= 1 => n >= 2
       /\ n - 1 >= 2 => n >= 3
       /\ n - 1 >= 3 => n >= 4
       /\ n - 1 <= 2 => n = 1 \/ n = 2 \/ n = 3
       /\ n - 1 = 0 <=> n = 1
       /\ n - 1 = 1 <=> n = 2
  BY <1>1
<1>. QED  BY <1>1, <1>5, <1>6, <1>7, <1>8, <1>9, <1>10 DEF Parting, drawn

LEMMA DrawKeeps == ASSUME PanicAssumption, DrawInv, Draw PROVE DrawInv'
<1>1. StopInv'  BY StepKeeps DEF DrawInv
<1>2. /\ stopping' = stopping /\ size' = size /\ nmi' = nmi /\ power' \in {"on", "reset"}
  BY StepIs
<1>3. Failed' = Failed  BY <1>2 DEF Failed
<1>. QED  BY <1>1, <1>2, <1>3, StepAims, StepReports, StepParts DEF DrawInv

LEMMA ErrorDraws ==
    ASSUME PanicAssumption, DrawInv, NEW report \in Exceptions \cup {Unknown, NMI},
           NEW joke \in Jokes, NEW number \in Numbers,
           Stop(report, Error(report, joke, number)), enabled' \in BOOLEAN, nmi' \in BOOLEAN
    PROVE  DrawInv'
<1>. DEFINE list == Error(report, joke, number)
<1>1. /\ stopping' = report /\ steps' = list /\ size' = size /\ cursor' = cursor /\ power' = power
      /\ size \in Screens
  BY DEF Stop, DrawInv
<1>2. StopInv'  BY ErrorKeeps DEF DrawInv
<1>3. Len(list) = 47 /\ \A k \in 1 .. 47 : Sort(list[k])
  BY <1>1, ErrorSorts
<1>4. report \notin {"run", "shutdown", "restart"}
  BY DEF PanicAssumption, WordsAssumption, Unknown, NMI
<1>. HIDE DEF list
<1>5. (\A k \in 1 .. Len(steps) : Sort(steps[k]))' /\ Aim(cursor)'
  <2>1. \A k \in 1 .. Len(steps') : Sort(steps'[k])  BY <1>1, <1>3
  <2>. QED  BY <1>1, <2>1 DEF DrawInv, Sort, Aim, Spot
<1>6. Turn' = 1  BY <1>1, <1>3 DEF Turn
<1>7. Reported'  BY <1>6 DEF Reported
<1>8. (\E joke_1 \in Jokes, number_1 \in Numbers : Reports(joke_1, number_1))'
  <2>1. Reports(joke, number)'
    <3>1. \A k \in 1 .. 47 : k + 47 - 47 = k  OBVIOUS
    <3>. QED  BY <1>1, <1>3, <3>1 DEF Reports, list
  <2>. QED  BY <2>1
<1>. QED  BY <1>1, <1>2, <1>4, <1>5, <1>7, <1>8 DEF DrawInv

LEMMA CommandDraws == ASSUME PanicAssumption, DrawInv, Command PROVE DrawInv'
<1>1. /\ stopping' \in {"shutdown", "restart"} /\ nmi' = nmi
      /\ size' = size /\ cursor' = cursor /\ power' = power /\ size \in Screens
      /\ steps' \in {CommandShutdown, CommandRestart}
  BY DEF Command, Stop, DrawInv
<1>2. StopInv'  BY CommandKeeps DEF DrawInv
<1>. DEFINE a == Centred(14)
            b == Centred(40)
            v == Say("Please wait...")
            t == Say(Safe)
<1>3. /\ steps' = CommandShutdown =>
             /\ Len(steps') = 7
             /\ steps'[1] = Clear /\ steps'[2] = a /\ steps'[3] = v /\ steps'[4] = CLI
             /\ steps'[5] = Clear /\ steps'[6] = b /\ steps'[7] = t
      /\ steps' = CommandRestart =>
             /\ Len(steps') = 8
             /\ steps'[1] = Clear /\ steps'[2] = a /\ steps'[3] = v /\ steps'[4] = CLI
             /\ steps'[5] = Reset /\ steps'[6] = Clear /\ steps'[7] = b /\ steps'[8] = t
  <2>. DEFINE S == {a, b, v, t, Clear, CLI, Reset}
              p == <<Clear, a, v, CLI>>
              q == <<Reset>>
              r == <<Clear, b, t>>
  <2>. HIDE DEF a, b, v, t
  <2>1. /\ p \in Seq(S) /\ Len(p) = 4 /\ p[1] = Clear /\ p[2] = a /\ p[3] = v /\ p[4] = CLI
        /\ q \in Seq(S) /\ Len(q) = 1 /\ q[1] = Reset
        /\ r \in Seq(S) /\ Len(r) = 3 /\ r[1] = Clear /\ r[2] = b /\ r[3] = t
    OBVIOUS
  <2>2. CommandShutdown = p \o r /\ CommandRestart = (p \o q) \o r
    BY DEF CommandShutdown, CommandRestart, Farewell, SafeNow, a, b, v, t
  <2>. HIDE DEF p, q, r, S
  <2>. DEFINE c == p \o r
              u == p \o q
              d == u \o r
              Joins(s1, s2, s) == /\ s \in Seq(S) /\ Len(s) = Len(s1) + Len(s2)
                                  /\ \A k \in 1 .. Len(s1) : s[k] = s1[k]
                                  /\ \A k \in 1 .. Len(s2) : s[Len(s1) + k] = s2[k]
  <2>3. ASSUME NEW s1 \in Seq(S), NEW s2 \in Seq(S)  PROVE Joins(s1, s2, s1 \o s2)
    OBVIOUS
  <2>. HIDE DEF Joins
  <2>4. Joins(p, r, c) /\ Joins(p, q, u)  BY <2>1, <2>3, Zenon
  <2>5. Joins(u, r, d)
    <3>1. u \in Seq(S)  BY <2>4 DEF Joins
    <3>. QED  BY <2>1, <2>3, <3>1, Zenon
  <2>. HIDE DEF c, u, d
  <2>6. /\ Len(c) = 7 /\ c[1] = Clear /\ c[2] = a /\ c[3] = v /\ c[4] = CLI
        /\ c[4 + 1] = Clear /\ c[4 + 2] = b /\ c[4 + 3] = t
    BY <2>1, <2>4 DEF Joins
  <2>7. /\ Len(u) = 5 /\ u[1] = Clear /\ u[2] = a /\ u[3] = v /\ u[4] = CLI /\ u[4 + 1] = Reset
    BY <2>1, <2>4 DEF Joins
  <2>8. /\ Len(d) = 8 /\ d[1] = Clear /\ d[2] = a /\ d[3] = v /\ d[4] = CLI /\ d[5] = Reset
        /\ d[5 + 1] = Clear /\ d[5 + 2] = b /\ d[5 + 3] = t
    BY <2>1, <2>5, <2>7 DEF Joins
  <2>9. CommandShutdown = c /\ CommandRestart = d  BY <2>2 DEF c, d, u
  <2>. QED  BY <2>6, <2>8, <2>9
<1>4. size[1] \in Nat /\ size[1] >= 640 /\ size[2] \in Nat  BY <1>1, ScreenIs
<1>5. Sort(Centred(14)) /\ Sort(Centred(40))
  <2>. DEFINE p == <<size[1] \div 2 - (14 * 24) \div 2, size[2] \div 3>>
              q == <<size[1] \div 2 - (40 * 24) \div 2, size[2] \div 3>>
  <2>1. Aim(p) /\ Aim(q)  BY <1>4 DEF Aim, Spot
  <2>2. Centred(14) = MoveTo(p) /\ Centred(40) = MoveTo(q)  BY DEF Centred
  <2>. HIDE DEF p, q
  <2>. QED  BY <2>1, <2>2 DEF Sort
<1>6. Sort(Clear) /\ Sort(CLI) /\ Sort(Reset) /\ Sort(Say("Please wait...")) /\ Sort(Say(Safe))
  BY DEF Sort, Texts
<1>7. /\ Len(steps') \in {7, 8} /\ \A k \in 1 .. Len(steps') : Sort(steps'[k])
      /\ steps'[Len(steps')] = Say(Safe) /\ steps'[Len(steps') - 1] = Centred(40)
      /\ steps'[Len(steps') - 2] = Clear
  <2>1. Sort(a) /\ Sort(b) /\ Sort(v) /\ Sort(t)  BY <1>5, <1>6
  <2>. HIDE DEF a, b, v, t
  <2>2. /\ Len(steps') \in {7, 8} /\ \A k \in 1 .. Len(steps') : Sort(steps'[k])
        /\ steps'[Len(steps')] = t /\ steps'[Len(steps') - 1] = b
        /\ steps'[Len(steps') - 2] = Clear
    <3>1. CASE steps' = CommandShutdown
      <4>1. /\ Len(steps') = 7
            /\ steps'[1] = Clear /\ steps'[2] = a /\ steps'[3] = v /\ steps'[4] = CLI
            /\ steps'[5] = Clear /\ steps'[6] = b /\ steps'[7] = t
        BY <1>3, <3>1, Zenon
      <4>2. \A k \in 1 .. 7 : Sort(steps'[k])
        <5>1. \A k \in 1 .. 7 : steps'[k] \in {Clear, a, v, CLI, Reset, b, t}  BY <4>1, SMT
        <5>. QED  BY <1>6, <2>1, <5>1, Zenon
      <4>. QED  BY <4>1, <4>2
    <3>2. CASE steps' = CommandRestart
      <4>1. /\ Len(steps') = 8
            /\ steps'[1] = Clear /\ steps'[2] = a /\ steps'[3] = v /\ steps'[4] = CLI
            /\ steps'[5] = Reset /\ steps'[6] = Clear /\ steps'[7] = b /\ steps'[8] = t
        BY <1>3, <3>2, Zenon
      <4>2. \A k \in 1 .. 8 : Sort(steps'[k])
        <5>1. \A k \in 1 .. 8 : steps'[k] \in {Clear, a, v, CLI, Reset, b, t}  BY <4>1, SMT
        <5>. QED  BY <1>6, <2>1, <5>1, Zenon
      <4>. QED  BY <4>1, <4>2
    <3>. QED  BY <1>1, <3>1, <3>2
  <2>. QED  BY <2>2 DEF b, t
<1>8. (\A k \in 1 .. Len(steps) : Sort(steps[k]))' /\ Aim(cursor)'
  BY <1>1, <1>7 DEF DrawInv, Sort, Aim, Spot
<1>9. Parting'
  <2>1. Centred(40)' = Centred(40)  BY <1>1 DEF Centred, MoveTo
  <2>. DEFINE n == Len(steps')
  <2>2. steps'[n] = Say(Safe) /\ steps'[n - 1] = Centred(40) /\ steps'[n - 2] = Clear
    BY <1>7
  <2>3. ~(n <= 2) /\ n # 1
    <3>1. n \in {7, 8}  BY <1>7
    <3>. HIDE DEF n
    <3>. QED  BY <3>1
  <2>. HIDE DEF n
  <2>. QED  BY <2>1, <2>2, <2>3 DEF Parting, n
<1>10. ~Failed'  BY <1>1 DEF Failed
<1>. QED  BY <1>1, <1>2, <1>8, <1>9, <1>10 DEF DrawInv

LEMMA DrawInvKeeps == PanicAssumption => (DrawInv /\ [PanicNext]_panicVars => DrawInv')
<1>. SUFFICES ASSUME PanicAssumption, DrawInv, [PanicNext]_panicVars  PROVE DrawInv'
  OBVIOUS
<1>1. ASSUME Exception \/ UnknownType \/ NonMaskable  PROVE DrawInv'
  <2>1. enabled' \in BOOLEAN /\ nmi' \in BOOLEAN
    BY <1>1 DEF Exception, UnknownType, NonMaskable, DrawInv, StopInv
  <2>2. CASE Exception
    <3>1. PICK report \in Exceptions, joke \in Jokes, number \in Numbers :
              Stop(report, Error(report, joke, number))
      BY <2>2 DEF Exception
    <3>. QED  BY <2>1, <3>1, ErrorDraws
  <2>3. CASE UnknownType
    <3>1. PICK joke \in Jokes, number \in Numbers : Stop(Unknown, Error(Unknown, joke, number))
      BY <2>3 DEF UnknownType
    <3>. QED  BY <2>1, <3>1, ErrorDraws
  <2>4. CASE NonMaskable
    <3>1. PICK joke \in Jokes, number \in Numbers : Stop(NMI, Error(NMI, joke, number))
      BY <2>4 DEF NonMaskable
    <3>. QED  BY <2>1, <3>1, ErrorDraws
  <2>. QED  BY <1>1, <2>2, <2>3, <2>4
<1>2. CASE UNCHANGED panicVars
  <2>1. /\ size' = size /\ steps' = steps /\ stopping' = stopping /\ nmi' = nmi /\ shown' = shown
        /\ cursor' = cursor /\ power' = power
    BY <1>2 DEF panicVars
  <2>2. StopInv'  BY <1>2, StopInvKeeps DEF DrawInv
  <2>3. Failed' = Failed /\ Turn' = Turn  BY <2>1 DEF Failed, Turn
  <2>4. Parting' = Parting  BY <2>1 DEF Parting, Middle, Centred, MoveTo
  <2>5. (\A k \in 1 .. Len(steps) : Sort(steps[k]))' /\ Aim(cursor)'
    BY <2>1 DEF DrawInv, Sort, Aim, Spot
  <2>6. Reported => Reported'
    <3>1. \A list, k : Kept(list, k)' = Kept(list, k)
      BY <2>1 DEF Kept, Message, Beside, Overlap, Area, Point, Place, Wraps, Fit
    <3>2. (Point(<<292, 194>>, Len(stopping)))' = Point(<<292, 194>>, Len(stopping))
      BY <2>1 DEF Point, Place, Wraps, Fit
    <3>3. (\E k \in 1 .. Len(shown) : Kept(shown, k)) => (\E k \in 1 .. Len(shown) : Kept(shown, k))'
      BY <2>1, <3>1
    <3>. QED  BY <2>1, <2>3, <3>2, <3>3 DEF Reported
  <2>7. \A joke, number : Reports(joke, number)' = Reports(joke, number)
    BY <2>1 DEF Reports
  <2>. QED  BY <2>1, <2>2, <2>3, <2>4, <2>5, <2>6, <2>7 DEF DrawInv
<1>. QED  BY <1>1, <1>2, CommandDraws, DrawKeeps DEF PanicNext

LEMMA DrawInvInit == PanicAssumption => (PanicInit => DrawInv)
<1>. SUFFICES ASSUME PanicAssumption, PanicInit  PROVE DrawInv
  OBVIOUS
<1>1. StopInv  BY StopInvInit
<1>2. size[1] \in Nat /\ size[1] >= 640  BY ScreenIs DEF PanicInit
<1>3. Aim(cursor)
  <2>1. cursor[1] = 0 /\ cursor[2] = 0 /\ cursor = <<0, 0>>  BY DEF PanicInit
  <2>. QED  BY <1>2, <2>1 DEF Aim, Spot
<1>4. Len(steps) = 0 /\ stopping = "run"  BY DEF PanicInit
<1>5. \A k \in 1 .. Len(steps) : Sort(steps[k])
  <2>1. 1 .. 0 = {}  OBVIOUS
  <2>. QED  BY <1>4, <2>1
<1>6. ~Failed /\ stopping \notin {"shutdown", "restart"}  BY <1>4 DEF Failed
<1>7. size \in Screens /\ nmi \in BOOLEAN /\ power \in {"on", "reset"}  BY DEF PanicInit
<1>. QED  BY <1>1, <1>3, <1>5, <1>6, <1>7 DEF DrawInv

(* What the invariant says when the kernel has stopped.                    *)
LEMMA DrawnTypes == ASSUME PanicAssumption, DrawInv PROVE PanicTypeOK
<1>1. stopping \in {"run", "shutdown", "restart", Unknown, NMI} \cup Exceptions /\ enabled \in BOOLEAN
  BY DEF DrawInv, StopInv, Named
<1>2. DOMAIN steps = 1 .. Len(steps)
  <2>1. PICK S : steps \in Seq(S)  BY DEF DrawInv, StopInv
  <2>. QED  BY <2>1
<1>3. ASSUME NEW s, Sort(s)  PROVE s[1] \in {"CLI", "Clear", "Reset", "At", "Say"}
  BY <1>3 DEF Sort, CLI, Clear, Reset, MoveTo, Say
<1>4. \A k \in DOMAIN steps : steps[k][1] \in {"CLI", "Clear", "Reset", "At", "Say"}
  BY <1>2, <1>3 DEF DrawInv
<1>5. size[1] \in Nat  BY ScreenIs DEF DrawInv
<1>6. cursor[1] \in -480 .. (size[1] - 24) /\ cursor[2] \in Nat
  BY <1>5 DEF DrawInv, Aim, Spot
<1>. QED  BY <1>1, <1>4, <1>6 DEF DrawInv, PanicTypeOK

LEMMA DrawnReads == ASSUME PanicAssumption, DrawInv PROVE MessageReadable
<1>. SUFFICES ASSUME Halted, Failed  PROVE Readable(stopping)
  BY DEF MessageReadable
<1>1. stopping \in Exceptions \cup {Unknown, NMI} /\ size \in Screens
  BY DEF DrawInv, StopInv, Named, Failed
<1>2. Turn = 48
  <2>1. Len(steps) = 0  BY DEF Halted
  <2>. QED  BY <2>1 DEF Turn
<1>3. PICK k \in 1 .. Len(shown) : Kept(shown, k)  BY <1>2 DEF DrawInv, Reported
<1>4. k \in DOMAIN shown
  <2>1. PICK S : shown \in Seq(S)  BY DEF DrawInv, StopInv
  <2>. QED  BY <2>1
<1>5. shown[k].text = stopping  BY <1>3 DEF Kept, Message
<1>. DEFINE later == UNION {Area(shown[j]) : j \in (k + 1) .. Len(shown)}
<1>6. \A q \in later : Beside(q)  BY <1>3 DEF Kept
<1>7. ASSUME NEW p \in Area(shown[k])  PROVE InScreen(p) /\ \A q \in later : ~Overlap(p, q)
  <2>1. p \in Area(Message)  BY <1>3, <1>7 DEF Kept
  <2>. HIDE DEF later
  <2>. QED  BY <1>1, <1>6, <2>1, MessageIsInside DEF Beside
<1>. QED  BY <1>4, <1>5, <1>7 DEF Readable

LEMMA DrawnSafe == ASSUME PanicAssumption, DrawInv PROVE SafeReadable
<1>. SUFFICES ASSUME Halted, ~Failed  PROVE Readable(Safe)
  BY DEF SafeReadable
<1>. DEFINE w == size[1]
            b == size[2] \div 3
            drawn == [text |-> Safe, from |-> Middle]
<1>1. /\ size \in Screens /\ w \in Nat /\ w >= 640 /\ (w < 864 \/ w >= 960)
      /\ size[2] \in Nat /\ size[2] >= 480
  <2>1. size \in Screens  BY DEF DrawInv
  <2>2. /\ w \in Nat /\ w >= 640 /\ ~(w >= 864 /\ w <= 959)
        /\ size[2] \in Nat /\ size[2] >= 480
    BY <2>1, ScreenIs
  <2>. HIDE DEF w
  <2>. QED  BY <2>1, <2>2
<1>2. shown = <<drawn>>
  <2>1. stopping \in {"shutdown", "restart"} /\ Len(steps) = 0
    BY DEF Halted, Failed
  <2>. QED  BY <2>1 DEF DrawInv, Parting
<1>3. b \in Nat /\ 3 * b <= size[2] /\ size[2] < 3 * b + 3
  BY <1>1
<1>. DEFINE x == IF w < 864 THEN 0 ELSE w \div 2 - 480
            y == IF w < 864 THEN b + 48 ELSE b
<1>4. x \in Nat /\ y \in Nat /\ x <= w - 48 /\ y + 96 <= size[2]
  <2>. HIDE DEF w, b
  <2>. QED  BY <1>1, <1>3
<1>5. Place(Middle) = <<x, y>> /\ Place(<<x, y>>) = <<x, y>>
  <2>. DEFINE m == w \div 2 - 480
  <2>1. Middle = <<m, b>> /\ m \in Int /\ (w < 864 => m + 48 < 0) /\ (w >= 960 => m >= 0 /\ m + 48 <= w)
    <3>1. Middle = <<m, b>>  BY DEF Middle
    <3>. HIDE DEF b
    <3>. QED  BY <1>1, <3>1
  <2>2. x = (IF w < 864 THEN 0 ELSE m)  OBVIOUS
  <2>. HIDE DEF w, b, m, x
  <2>3. Place(Middle) = <<x, y>>
    <3>1. CASE w < 864  BY <1>1, <2>1, <2>2, <3>1 DEF Place, Wraps, w, y
    <3>2. CASE w >= 960  BY <1>1, <2>1, <2>2, <3>2 DEF Place, Wraps, w, y
    <3>. QED  BY <1>1, <3>1, <3>2
  <2>4. Place(<<x, y>>) = <<x, y>>
    <3>1. ~(x + 48 > w \/ x + 48 < 0)  BY <1>1, <1>4
    <3>. QED  BY <3>1 DEF Place, Wraps, w
  <2>. QED  BY <2>3, <2>4
<1>. HIDE DEF x, y, b
<1>6. \A i : Point(Middle, i) = Point(<<x, y>>, i)  BY <1>5 DEF Point
<1>7. 40 <= Fit(x) + Fit(0) /\ Fit(x) \in Nat /\ Fit(0) \in Nat /\ 24 * (Fit(x) - 1) <= w - 48 - x
      /\ 24 * (Fit(0) - 1) <= w - 48
  <2>. DEFINE f == Fit(x)
              z == Fit(0)
  <2>1. /\ f \in Nat /\ z \in Nat /\ 24 * (f - 1) <= w - 48 - x /\ w - 48 - x < 24 * f
        /\ 24 * (z - 1) <= w - 48 /\ w - 48 < 24 * z
    BY <1>1, <1>4, FitIs
  <2>2. (w < 864 => x = 0) /\ (w >= 960 => 2 * x <= w - 960)
    BY <1>1 DEF x
  <2>. HIDE DEF f, z, w
  <2>3. 40 <= f + z  BY <1>1, <1>4, <2>1, <2>2
  <2>. QED  BY <2>1, <2>3 DEF f, z
<1>8. Len(Safe) = 40  BY Zenon DEF PanicAssumption, LengthAssumption
<1>9. ASSUME NEW p \in Area(drawn)  PROVE InScreen(p)
  <2>1. PICK i \in 1 .. 40 : p = Point(<<x, y>>, i)  BY <1>6, <1>8 DEF Area
  <2>2. i \in Nat \ {0} /\ i <= Fit(x) + Fit(0)  BY <1>7
  <2>3. p = IF i <= Fit(x) THEN <<x + 24 * (i - 1), y>> ELSE <<24 * (i - 1 - Fit(x)), y + 48>>
    BY <1>1, <1>4, <2>1, <2>2, TwoLines
  <2>. DEFINE f == Fit(x)
              z == Fit(0)
  <2>. HIDE DEF w, f, z
  <2>4. p[1] \in Nat /\ p[1] <= w - 24 /\ p[2] \in Nat /\ p[2] <= size[2] - 48
    BY <1>1, <1>4, <1>7, <2>2, <2>3 DEF f, z
  <2>. QED  BY <1>1, <2>4 DEF InScreen, w
<1>10. 1 \in DOMAIN shown /\ Len(shown) = 1 /\ shown[1] = drawn /\ drawn.text = Safe
  BY <1>2
<1>11. UNION {Area(shown[j]) : j \in (1 + 1) .. Len(shown)} = {}
  BY <1>10
<1>. HIDE DEF drawn
<1>. QED  BY <1>9, <1>10, <1>11 DEF Readable

(* However errors, shutdowns and restarts cut each other short, the kernel *)
(* stops for good, with the message of the one that stopped it on the      *)
(* screen, readably, or with the word that the machine may be turned off,  *)
(* whatever the jokes, the numbers and the screen are: what Debug::Error   *)
(* (Debug.cpp) and the commands shutdown and restart draw, on a screen     *)
(* which Renderer's signed centring (ScreensAssumption) does not cut.      *)
THEOREM StopsForAllToSee == PanicAssumption => (PanicSpec => StopsReadably)
<1>. SUFFICES ASSUME PanicAssumption  PROVE PanicSpec => StopsReadably
  OBVIOUS
<1>1. PanicInit => DrawInv  BY DrawInvInit
<1>2. DrawInv /\ [PanicNext]_panicVars => DrawInv'  BY DrawInvKeeps
<1>3. DrawInv => PanicTypeOK /\ MessageReadable /\ SafeReadable
  BY DrawnTypes, DrawnReads, DrawnSafe
<1>4. PanicSpec => [](PanicTypeOK /\ MessageReadable /\ SafeReadable)
  BY <1>1, <1>2, <1>3, PTL DEF PanicSpec
<1>5. PanicSpec => []NothingLeft  BY NoOtherMessage
<1>. QED  BY <1>4, <1>5, HaltedForGood, PTL DEF StopsReadably
=============================================================================
