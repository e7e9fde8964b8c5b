-------------------------------- MODULE Clock --------------------------------
(***************************************************************************)
(* The wall clock: the timer interrupt counts Ticks and calls RTC::Update  *)
(* every Period ticks, which copies six registers of the CMOS clock, one   *)
(* port access after the other, while that clock runs on.  Its wait for    *)
(* the end of a clock update reads the register of the seconds (0x80 with  *)
(* the address' top bit cut off) and so never waits.                       *)
(*                                                                         *)
(* Main code prints the time too (sysfetch, in the first message to a tty) *)
(* and reads hour, minute and second with interrupts on.  In interrupts    *)
(* the time command reads them at once.                                    *)
(***************************************************************************)
EXTENDS Integers

CONSTANTS Radix,     \* how many values each register of the clock takes
          Period,    \* ticks between two updates, 100 in the source
          MaxTicks   \* bounds Ticks

(* Second, Minute, Hour, Day, Month, Year, from the least significant on.  *)
Field == 1 .. 6

ASSUME RadixAssumption == Radix \in [Field -> 1 .. 100]
ASSUME PeriodAssumption == Period \in Nat \ {0}
ASSUME TicksAssumption == MaxTicks \in Nat

VARIABLES now,         \* the CMOS clock
          bcd,         \* it counts in BCD: register B
          Ticks, OldRTCTick,
          time,        \* Second .. Year as Update last left them
          reg,         \* the registers that Update has read
          next,        \* the one it reads next, 0 outside of Update
          began,       \* the clock when the last Update began
          ticked,      \* it has ticked since, within that Update
          printing,    \* the field main code prints next, 0 if it prints none
          printed,     \* the hour, minute and second it has printed
          changed      \* the minute or the hour has changed since it began

vars == <<now, bcd, Ticks, OldRTCTick, time, reg, next, began, ticked, printing, printed, changed>>

Zero == [k \in Field |-> 0]

(* KernelMain calls SetFrequency, which resets Ticks, and Update before it *)
(* turns interrupts on.                                                    *)
Init == /\ now = Zero
        /\ bcd \in BOOLEAN
        /\ Ticks = 0 /\ OldRTCTick = 0
        /\ time = Zero
        /\ reg = Zero
        /\ next = 1
        /\ began = Zero
        /\ ticked = FALSE
        /\ printing = 0
        /\ printed = Zero
        /\ changed = FALSE

-----------------------------------------------------------------------------
(* The CMOS clock goes on by a second and carries over, up to its last     *)
(* year.  No two seconds fall into one Update.                             *)
Second ==
    /\ next # 0 => ~ticked
    /\ \E c \in Field :
          /\ now[c] < Radix[c] - 1
          /\ \A k \in 1 .. c - 1 : now[k] = Radix[k] - 1
          /\ now' = [k \in Field |-> IF k < c THEN 0 ELSE IF k = c THEN now[c] + 1 ELSE now[k]]
    /\ ticked' = (ticked \/ next # 0)
    /\ UNCHANGED <<bcd, Ticks, OldRTCTick, time, reg, next, began, printing, printed, changed>>

Coded(n) == IF bcd THEN 16 * (n \div 10) + (n % 10) ELSE n

(* The end of Update, with register B's word on the registers.             *)
Converted(r) == IF bcd THEN (r % 16) + (r \div 16) * 10 ELSE r

-----------------------------------------------------------------------------
(* The handler PIT, its tick number Ticks + 1.                             *)
Due == Ticks + 1 >= OldRTCTick + Period

PIT ==
    /\ next = 0
    /\ Ticks < MaxTicks
    /\ Ticks' = Ticks + 1
    /\ IF Due
       THEN /\ next' = 1
            /\ began' = now
            /\ ticked' = FALSE
            /\ OldRTCTick' = Ticks + 1
       ELSE UNCHANGED <<next, began, ticked, OldRTCTick>>
    /\ UNCHANGED <<now, bcd, time, reg, printing, printed, changed>>

(* Slip: the registers are read from the year down. *)
RegisterDown(k) == 7 - k

(* The field that Update reads as its k-th.                                *)
Register(k) == k

After(k) == IF k = 6 THEN 0 ELSE k + 1

(* One register in, and after the last one the conversion.                 *)
Update ==
    /\ next # 0
    /\ LET r == [reg EXCEPT ![Register(next)] = Coded(now[Register(next)])] IN
       /\ reg' = r
       /\ next' = After(next)
       /\ time' = IF next = 6 THEN [k \in Field |-> Converted(r[k])] ELSE time
    /\ changed' = (changed \/ (printing # 0 /\ \E k \in 2 .. 3 : time'[k] # time[k]))
    /\ UNCHANGED <<now, bcd, Ticks, OldRTCTick, began, ticked, printing, printed>>

-----------------------------------------------------------------------------
(* CommandTime, called by CommandSysfetch from main code.                  *)
CommandTime ==
    /\ next = 0 /\ printing = 0
    /\ printing' = 3
    /\ printed' = Zero
    /\ changed' = FALSE
    /\ UNCHANGED <<now, bcd, Ticks, OldRTCTick, time, reg, next, began, ticked>>

Read(k) == k

ReadField ==
    /\ next = 0 /\ printing # 0
    /\ printed' = [printed EXCEPT ![Read(printing)] = time[Read(printing)]]
    /\ printing' = printing - 1
    /\ UNCHANGED <<now, bcd, Ticks, OldRTCTick, time, reg, next, began, ticked, changed>>

Next == Second \/ PIT \/ Update \/ CommandTime \/ ReadField

Spec == Init /\ [][Next]_vars

-----------------------------------------------------------------------------
Times == [Field -> Nat]

TypeOK == /\ now \in Times /\ (\A k \in Field : now[k] < Radix[k])
          /\ bcd \in BOOLEAN
          /\ Ticks \in 0 .. MaxTicks /\ OldRTCTick \in 0 .. MaxTicks
          /\ time \in Times /\ reg \in Times
          /\ next \in 0 .. 6
          /\ began \in Times /\ (\A k \in Field : began[k] < Radix[k])
          /\ ticked \in BOOLEAN
          /\ printing \in 0 .. 3
          /\ printed \in Times /\ changed \in BOOLEAN

Earlier(a, b) == \E c \in Field : a[c] < b[c] /\ \A k \in c + 1 .. 6 : a[k] = b[k]

(* An Update during which no second passed shows the time it began at.     *)
QuietIsExact == next = 0 /\ ~ticked => time = began

(* Update reads from the second to the year, so that a carry in between    *)
(* can show a time that is still to come but never one that had gone by    *)
(* when it began.                                                          *)
NeverBehind == next = 0 => time = began \/ Earlier(began, time)

(* What a second inside of Update does to the time shown is bounded: each  *)
(* field is that of the second before or of the one after.                 *)
Torn == next = 0 => \A k \in Field : time[k] \in {began[k], (began[k] + 1) % Radix[k]}

(* The time is never older than Period ticks when the handler is done.     *)
Fresh == Ticks < OldRTCTick + Period

(* The time that main code prints is the one shown when it has printed the *)
(* second, though Updates come in between, as long as none of them changed *)
(* the minute or the hour.                                                 *)
PrintedWasShown ==
    [][printing = 1 /\ printing' = 0 /\ ~changed =>
          \A k \in 1 .. 3 : printed'[k] = time[k]]_vars

(* What is shown and printed of a clock that runs on while it is read.     *)
TimeRight == /\ [](TypeOK /\ QuietIsExact /\ NeverBehind /\ Torn /\ Fresh)
             /\ PrintedWasShown
=============================================================================
