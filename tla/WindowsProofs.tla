--------------------------- MODULE WindowsProofs ---------------------------
(***************************************************************************)
(* What TLAPS proves of Windows, for every screen and every set of         *)
(* processes that INIT places on it: windows keep their frames inside of   *)
(* it, nothing is seen where it no longer is, and a click reaches the      *)
(* process that is seen.                                                   *)
(***************************************************************************)
EXTENDS Windows, FiniteSetTheorems, NaturalsInduction,
        WellFoundedInduction, TLAPS

Types == {"FULLSCREEN", "WINDOWED", "FRAMELESSWINDOW", "MINIMIZED"}

(* A window and a title bar are where SetPos leaves them, everything else  *)
(* where INIT has put it.                                                  *)
WindowHome(p) == /\ Edge <= pos[p][1] /\ pos[p][1] + Size[p][1] + Edge <= ScreenW
                 /\ Edge + Bar <= pos[p][2] /\ pos[p][2] + Size[p][2] + Edge <= ScreenH
BarHome(p)    == /\ Edge <= pos[p][1] /\ pos[p][1] + Edge <= ScreenW
                 /\ Edge + Bar <= pos[p][2] /\ pos[p][2] + Edge <= ScreenH
Home(p) == CASE type[p] = "WINDOWED" -> WindowHome(p)
             [] type[p] = "MINIMIZED" -> BarHome(p)
             [] OTHER -> pos[p] = Place[p]

(* The desktop runs, and what was grabbed is a place.                      *)
Desk == \E p \in ToSet(list) : Type[p] = "FULLSCREEN"

Inv == /\ TypeOK /\ Desk /\ NoGhost
       /\ delta \in Int \X Int
       /\ \A p \in Proc : Home(p)

-----------------------------------------------------------------------------
(***************************************************************************)
(* The constants, and lists.                                               *)
(***************************************************************************)
LEMMA Numbers ==
  /\ ScreenW \in Nat /\ ScreenH \in Nat /\ Edge \in Nat /\ Bar \in Nat /\ MinWidth \in Nat
  /\ ScreenW > 0 /\ ScreenH > 0 /\ Edge > 0 /\ Bar > 0
  /\ RightMargin \in Nat /\ RightMargin > 0 /\ LowerMargin \in Nat /\ LowerMargin > 0
  /\ \A p \in Proc : /\ Size[p] \in Nat \X Nat /\ Size[p][1] \in Nat /\ Size[p][2] \in Nat
                     /\ Place[p] \in Nat \X Nat /\ Place[p][1] \in Nat /\ Place[p][2] \in Nat
  BY WindowsAssumption

LEMMA Highest ==
  ASSUME NEW n \in Nat, NEW S \in SUBSET (1 .. n), S # {}
  PROVE  Max(S) \in S /\ \A k \in S : k <= Max(S)
<1> DEFINE T == {n - k : k \in S}
<1>1. T \in SUBSET Nat /\ T # {}
  OBVIOUS
<1> HIDE DEF T
<1>2. PICK x \in T : \A y \in T : <<y, x>> \notin OpToRel(<, Nat)
  BY <1>1, NatLessThanWellFounded, WFMin, Zenon
<1>3. \A y \in T : ~ (y < x)
  BY <1>1, <1>2, Zenon DEF OpToRel
<1>4. PICK g \in S : x = n - g
  BY DEF T
<1>5. g \in S /\ \A k \in S : g >= k
  <2>1. \A k \in S : n - k \in T /\ k \in 1 .. n
    BY DEF T
  <2> QED BY <1>3, <1>4, <2>1
<1>6. Max(S) \in S /\ \A k \in S : Max(S) >= k
  BY <1>5, Zenon DEF Max
<1> QED BY <1>6

LEMMA SlotOf ==
  ASSUME NEW seq \in Seq(Proc), NEW p \in ToSet(seq)
  PROVE  Slot(seq, p) \in 1 .. Len(seq) /\ seq[Slot(seq, p)] = p /\ p \in Proc
<1>1. \E i \in 1 .. Len(seq) : seq[i] = p
  BY DEF ToSet
<1> QED BY <1>1 DEF Slot

LEMMA SetDepthList ==
  ASSUME NEW seq \in Seq(Proc), IsInjective(seq), NEW p \in ToSet(seq),
         NEW depth \in Nat, depth < Len(seq)
  PROVE  /\ SetDepth(seq, p, depth) \in Seq(Proc) /\ IsInjective(SetDepth(seq, p, depth))
         /\ ToSet(SetDepth(seq, p, depth)) = ToSet(seq)
         /\ Len(SetDepth(seq, p, depth)) = Len(seq)
<1> DEFINE i == Slot(seq, p)
           t == SetDepth(seq, p, depth)
           D == 1 .. Len(seq)
<1>1. i \in D /\ seq[i] = p /\ p \in Proc /\ depth + 1 \in D
  BY SlotOf
<1>2. t = [k \in D |-> IF k = depth + 1 THEN p ELSE IF k = i THEN seq[depth + 1] ELSE seq[k]]
  BY <1>1 DEF SetDepth
<1> HIDE DEF i, t
<1>3. t \in Seq(Proc) /\ Len(t) = Len(seq) /\ DOMAIN t = D
  BY <1>1, <1>2
<1>4. \A j, k \in D : seq[j] = seq[k] => j = k
  BY DEF IsInjective
<1>5. IsInjective(t)
  BY <1>1, <1>2, <1>3, <1>4 DEF IsInjective
<1>6. ToSet(t) = ToSet(seq)
  <2>1. \A k \in D : \E j \in D : t[k] = seq[j]
    BY <1>1, <1>2
  <2>2. \A k \in D : \E j \in D : seq[k] = t[j]
    <3> SUFFICES ASSUME NEW k \in D PROVE \E j \in D : seq[k] = t[j]
      OBVIOUS
    <3>1. CASE k = i
      BY <1>1, <1>2, <3>1
    <3>2. CASE k = depth + 1
      BY <1>1, <1>2, <3>2
    <3>3. CASE k # i /\ k # depth + 1
      BY <1>1, <1>2, <3>3
    <3> QED BY <3>1, <3>2, <3>3
  <2>3. DOMAIN seq = D
    OBVIOUS
  <2>4. ToSet(t) \subseteq ToSet(seq)
    BY <1>3, <2>1, <2>3, Zenon DEF ToSet
  <2>5. ToSet(seq) \subseteq ToSet(t)
    BY <1>3, <2>2, <2>3, Zenon DEF ToSet
  <2> QED BY <2>4, <2>5
<1> QED BY <1>3, <1>5, <1>6 DEF t

LEMMA EraseList ==
  ASSUME NEW seq \in Seq(Proc), IsInjective(seq), NEW p \in ToSet(seq)
  PROVE  /\ Erase(seq, p) \in Seq(Proc) /\ IsInjective(Erase(seq, p))
         /\ ToSet(Erase(seq, p)) = ToSet(seq) \ {p}
<1> DEFINE i == Slot(seq, p)
           t == Erase(seq, p)
           D == 1 .. Len(seq)
           E == 1 .. Len(seq) - 1
<1>1. i \in D /\ seq[i] = p /\ Len(seq) \in Nat /\ Len(seq) > 0
  BY SlotOf
<1>2. t = [k \in E |-> IF k < i THEN seq[k] ELSE seq[k + 1]]
  BY DEF Erase
<1> HIDE DEF i, t
<1>3. t \in Seq(Proc) /\ Len(t) = Len(seq) - 1 /\ DOMAIN t = E
  <2>1. \A k \in E : t[k] \in Proc
    BY <1>1, <1>2
  <2>2. t \in [E -> Proc] /\ Len(seq) - 1 \in Nat
    BY <1>1, <1>2, <2>1
  <2> QED BY <2>2
<1>4. \A j, k \in D : seq[j] = seq[k] => j = k
  BY DEF IsInjective
<1>5. IsInjective(t)
  BY <1>1, <1>2, <1>3, <1>4 DEF IsInjective
<1>6. \A k \in E : t[k] \in ToSet(seq) /\ t[k] # p
  BY <1>1, <1>2, <1>4 DEF ToSet
<1>7. \A k \in D : k # i => \E j \in E : seq[k] = t[j]
  <2> SUFFICES ASSUME NEW k \in D, k # i PROVE \E j \in E : seq[k] = t[j]
    OBVIOUS
  <2>1. CASE k < i
    BY <1>1, <1>2, <2>1
  <2>2. CASE k > i
    <3>1. k - 1 \in E /\ ~(k - 1 < i) /\ k - 1 + 1 = k
      BY <1>1, <2>2
    <3> QED BY <1>2, <3>1
  <2> QED BY <1>1, <2>1, <2>2
<1>8. ToSet(t) = ToSet(seq) \ {p}
  <2>1. DOMAIN seq = D
    OBVIOUS
  <2>2. ToSet(t) \subseteq ToSet(seq) \ {p}
    BY <1>3, <1>6, Zenon DEF ToSet
  <2>3. ToSet(seq) \ {p} \subseteq ToSet(t)
    BY <1>1, <1>3, <1>7, <2>1, Zenon DEF ToSet
  <2> QED BY <2>2, <2>3
<1> QED BY <1>3, <1>5, <1>8 DEF t

LEMMA AppendList ==
  ASSUME NEW seq \in Seq(Proc), IsInjective(seq), NEW p \in Proc, p \notin ToSet(seq)
  PROVE  /\ Append(seq, p) \in Seq(Proc) /\ IsInjective(Append(seq, p))
         /\ ToSet(Append(seq, p)) = ToSet(seq) \cup {p}
         /\ Len(Append(seq, p)) = Len(seq) + 1
<1> DEFINE t == Append(seq, p)
           n == Len(seq)
<1>1. n \in Nat /\ t \in Seq(Proc) /\ Len(t) = n + 1 /\ DOMAIN t = 1 .. n + 1
  OBVIOUS
<1>2. t[n + 1] = p /\ \A k \in 1 .. n : t[k] = seq[k]
  OBVIOUS
<1>3. \A k \in 1 .. n : seq[k] # p
  BY DEF ToSet
<1>4. \A j, k \in 1 .. n : seq[j] = seq[k] => j = k
  BY DEF IsInjective
<1> HIDE DEF t
<1>5. IsInjective(t)
  BY <1>1, <1>2, <1>3, <1>4 DEF IsInjective
<1>6. ToSet(t) = ToSet(seq) \cup {p}
  <2>1. \A k \in 1 .. n + 1 : k \in 1 .. n \/ k = n + 1
    BY <1>1
  <2>2. ToSet(t) \subseteq ToSet(seq) \cup {p}
    BY <1>1, <1>2, <2>1 DEF ToSet
  <2>3. n + 1 \in 1 .. n + 1 /\ 1 .. n \subseteq 1 .. n + 1
    BY <1>1
  <2>4. ToSet(seq) \cup {p} \subseteq ToSet(t)
    BY <1>1, <1>2, <2>3 DEF ToSet
  <2> QED BY <2>2, <2>4
<1> QED BY <1>1, <1>5, <1>6 DEF t

-----------------------------------------------------------------------------
(***************************************************************************)
(* What the mouse is over, and where SetPos puts a window.                 *)
(***************************************************************************)
LEMMA OverListed ==
  ASSUME list \in Seq(Proc), NEW m, NEW left, NEW p \in Proc, p = Over(m, left)
  PROVE  p \in ToSet(list) /\ (OverTitle(p, m, left) \/ OverContent(p, m))
<1> DEFINE S == {i \in 1 .. Len(list) : OverTitle(list[i], m, left) \/ OverContent(list[i], m)}
<1>1. S \in SUBSET (1 .. Len(list)) /\ Len(list) \in Nat
  OBVIOUS
<1>2. S # {} /\ p = list[Max(S)]
  BY WindowsAssumption, Zenon DEF Over
<1>3. PICK k \in S : p = list[k]
  BY <1>1, <1>2, Highest, Zenon
<1>4. k \in 1 .. Len(list) /\ (OverTitle(p, m, left) \/ OverContent(p, m))
  BY <1>3, Zenon
<1> QED BY <1>3, <1>4 DEF ToSet

(* The highest of all that the mouse is over is the one that is clicked.   *)
LEMMA OverHighest ==
  ASSUME list \in Seq(Proc), NEW m, NEW left, NEW i \in 1 .. Len(list),
         OverTitle(list[i], m, left) \/ OverContent(list[i], m),
         \A j \in i + 1 .. Len(list) : ~OverTitle(list[j], m, left) /\ ~OverContent(list[j], m)
  PROVE  Over(m, left) = list[i]
<1> DEFINE S == {k \in 1 .. Len(list) : OverTitle(list[k], m, left) \/ OverContent(list[k], m)}
<1>1. S \in SUBSET (1 .. Len(list)) /\ Len(list) \in Nat /\ i \in S
  OBVIOUS
<1>2. Max(S) \in S /\ i <= Max(S)
  BY <1>1, Highest
<1>3. Max(S) = i
  <2>1. Max(S) \in 1 .. Len(list)
    BY <1>1, <1>2
  <2>2. Max(S) \notin i + 1 .. Len(list)
    BY <1>2
  <2> HIDE DEF S
  <2> QED BY <1>1, <1>2, <2>1, <2>2
<1> QED BY <1>1, <1>3, Zenon DEF Over

LEMMA ClampBetween ==
  ASSUME NEW n \in Int, NEW lower \in Int, NEW upper \in Int, lower <= upper
  PROVE  Clamp(n, lower, upper) \in lower .. upper
  BY DEF Clamp

LEMMA SetPosHome ==
  ASSUME NEW p \in Proc, Type[p] = "WINDOWED", NEW to \in Int \X Int
  PROVE  /\ LET at == SetPos(p, "WINDOWED", to) IN
            /\ at \in (0 .. ScreenW) \X (0 .. ScreenH)
            /\ Edge <= at[1] /\ at[1] + Size[p][1] + Edge <= ScreenW
            /\ Edge + Bar <= at[2] /\ at[2] + Size[p][2] + Edge <= ScreenH
         /\ LET at == SetPos(p, "MINIMIZED", to) IN
            /\ at \in (0 .. ScreenW) \X (0 .. ScreenH)
            /\ Edge <= at[1] /\ at[1] + Edge <= ScreenW
            /\ Edge + Bar <= at[2] /\ at[2] + Edge <= ScreenH
<1>1. /\ Edge + Size[p][1] + Edge <= ScreenW
      /\ Edge + Bar + Size[p][2] + Edge <= ScreenH
  BY Numbers, PlacesAssumption
<1>2. Size[p] \in Nat \X Nat /\ Size[p][1] \in Nat /\ Size[p][2] \in Nat /\ to[1] \in Int /\ to[2] \in Int
  BY Numbers
<1>3. ASSUME NEW w \in Nat, NEW h \in Nat, w <= Size[p][1], h <= Size[p][2]
      PROVE  /\ Clamp(to[1], Edge, ScreenW - w - Edge) \in Edge .. ScreenW - w - Edge
             /\ Clamp(to[2], Edge + Bar, ScreenH - h - Edge) \in Edge + Bar .. ScreenH - h - Edge
  <2>1. /\ Edge \in Int /\ ScreenW - w - Edge \in Int /\ Edge <= ScreenW - w - Edge
        /\ Edge + Bar \in Int /\ ScreenH - h - Edge \in Int
        /\ Edge + Bar <= ScreenH - h - Edge
    BY <1>1, <1>2, <1>3, Numbers
  <2> QED BY <1>2, <2>1, ClampBetween
<1>4. LET at == SetPos(p, "WINDOWED", to) IN
         /\ at = <<at[1], at[2]>>
         /\ at[1] \in Edge .. ScreenW - Size[p][1] - Edge
         /\ at[2] \in Edge + Bar .. ScreenH - Size[p][2] - Edge
  BY <1>2, <1>3 DEF SetPos
<1>5. LET at == SetPos(p, "MINIMIZED", to) IN
         /\ at = <<at[1], at[2]>>
         /\ at[1] \in Edge .. ScreenW - 0 - Edge
         /\ at[2] \in Edge + Bar .. ScreenH - 0 - Edge
  BY <1>2, <1>3 DEF SetPos
<1> QED BY <1>2, <1>4, <1>5, Numbers

-----------------------------------------------------------------------------
(***************************************************************************)
(* What is rendered where the mouse may be.                                *)
(***************************************************************************)
LEMMA LinesHit ==
  ASSUME NEW x1 \in Int, NEW x2 \in Int, NEW y1 \in Int, NEW y2 \in Int,
         NEW x \in Int, NEW y \in Int, x1 <= x, x < x2, y1 <= y, y < y2
  PROVE  y * ScreenW + x \in Lines(x1, x2, y1, y2)
<1>1. x \in x1 .. x2 - 1 /\ y \in y1 .. y2 - 1
  OBVIOUS
<1>2. \E a \in x1 .. x2 - 1, b \in y1 .. y2 - 1 : y * ScreenW + x = b * ScreenW + a
  BY <1>1, Zenon
<1> QED BY <1>2 DEF Lines

LEMMA PixelIn ==
  ASSUME NEW x \in Nat, NEW y \in Nat, x < ScreenW, y < ScreenH
  PROVE  y * ScreenW + x \in Pixels
<1>1. ScreenW \in Nat /\ ScreenH \in Nat
  BY Numbers
<1>2. ScreenH - y - 1 \in Nat
  BY <1>1
<1>3. \A a, b \in Nat : a * b \in Nat
  OBVIOUS
<1>4. (ScreenH - y - 1) * ScreenW \in Nat /\ y * ScreenW \in Nat /\ ScreenW * ScreenH \in Nat
  BY <1>1, <1>2, <1>3
<1>5. (ScreenH - y - 1) * ScreenW = ScreenW * ScreenH - y * ScreenW - ScreenW
  BY <1>1
<1> QED BY <1>1, <1>4, <1>5 DEF Pixels

LEMMA MouseOnScreen ==
  ASSUME NEW m \in Mice
  PROVE  /\ m[1] \in Nat /\ m[2] \in Nat /\ m[1] < ScreenW /\ m[2] < ScreenH
         /\ m[2] * ScreenW + m[1] \in Pixels
<1>1. m[1] \in Nat /\ m[2] \in Nat /\ m[1] < ScreenW /\ m[2] < ScreenH
  BY Numbers DEF Mice
<1> QED BY <1>1, PixelIn

(* A title bar that does not hang over the edge is drawn where it is       *)
(* clicked.                                                                *)
LEMMA TitleSeen ==
  ASSUME TypeOK, NEW p \in Proc, Home(p), ~Hangs(p), NEW m \in Mice, NEW left, OverTitle(p, m, left)
  PROVE  m[2] * ScreenW + m[1] \in Rendered(p)
<1>1. /\ type[p] \in {"WINDOWED", "MINIMIZED"}
      /\ InRect(Minus(pos[p], FrameOffset), Plus(pos[p], <<SizeOf(p)[1], 0>>), m)
  BY DEF OverTitle
<1> DEFINE X == pos[p][1]
           Y == pos[p][2]
           w == SizeOf(p)[1]
<1>2. pos[p] = <<X, Y>> /\ X \in Nat /\ Y \in Nat
  BY Numbers DEF TypeOK
<1>3. w \in Nat /\ X + w <= ScreenW /\ Bar <= Y /\ Y <= ScreenH
  BY <1>1, <1>2, Numbers DEF Home, WindowHome, BarHome, Hangs, SizeOf
<1>4. Minus(pos[p], FrameOffset) = <<X, Y - Bar>> /\ Plus(pos[p], <<w, 0>>) = <<X + w, Y>>
  BY <1>2, <1>3, Numbers DEF Minus, Plus, FrameOffset
<1> HIDE DEF X, Y, w
<1>5. X < m[1] /\ m[1] < X + w /\ Y - Bar < m[2] /\ m[2] < Y
  <2>1. InRect(<<X, Y - Bar>>, <<X + w, Y>>, m)
    BY <1>1, <1>4 DEF w
  <2>2. 1 \in 1 .. 2 /\ 2 \in 1 .. 2
    OBVIOUS
  <2> QED BY <2>1, <2>2 DEF InRect
<1>6. m[2] * ScreenW + m[1] \in Lines(X, X + w, Y - Bar, Y)
  <2>1. /\ X \in Int /\ X + w \in Int /\ Y - Bar \in Int /\ Y \in Int
        /\ m[1] \in Int /\ m[2] \in Int
        /\ X <= m[1] /\ m[1] < X + w /\ Y - Bar <= m[2] /\ m[2] < Y
    BY <1>2, <1>3, <1>5, Numbers, MouseOnScreen
  <2> QED BY <2>1, LinesHit, Zenon
<1>7. OnScreen(<<X, Y - Bar>>) /\ OnScreen(<<X + w, Y>>)
  BY <1>2, <1>3, Numbers DEF OnScreen
<1>8. m[2] * ScreenW + m[1] \in DrawRect(<<X, Y - Bar>>, <<X + w, Y>>)
  BY <1>6, <1>7 DEF DrawRect
<1>9. DrawRect(<<X, Y - Bar>>, <<X + w, Y>>) \subseteq Frame(p)
  BY <1>1, <1>4, Zenon DEF Frame, w
<1> QED BY <1>8, <1>9 DEF Rendered

(* And so is what a process shows: a minimized one shows nothing.          *)
LEMMA ContentSeen ==
  ASSUME TypeOK, NEW p \in Proc, Home(p), NEW m \in Mice, OverContent(p, m)
  PROVE  m[2] * ScreenW + m[1] \in Rendered(p)
<1> DEFINE X == pos[p][1]
           Y == pos[p][2]
           w == Size[p][1]
           h == Size[p][2]
<1>1. pos[p] = <<X, Y>> /\ X \in Nat /\ Y \in Nat /\ w \in Nat /\ h \in Nat /\ Size[p] = <<w, h>>
  BY Numbers DEF TypeOK
<1>2. \A d \in 1 .. 2 : pos[p][d] < m[d] /\ m[d] < Plus(pos[p], SizeOf(p))[d]
  BY DEF OverContent, InRect
<1>3. m[1] \in Nat /\ m[2] \in Nat
  BY MouseOnScreen
<1>4. type[p] # "MINIMIZED"
  <2> SUFFICES ASSUME type[p] = "MINIMIZED" PROVE FALSE
    OBVIOUS
  <2>1. Plus(pos[p], SizeOf(p))[2] = Y
    BY <1>1, Numbers DEF Plus, SizeOf
  <2> QED BY <1>1, <1>2, <1>3, <2>1
<1>5. Plus(pos[p], SizeOf(p)) = <<X + w, Y + h>>
  BY <1>1, <1>4 DEF Plus, SizeOf
<1>6. Fits(p)
  <2>1. CASE type[p] = "WINDOWED"
    BY <1>1, <2>1, Numbers DEF Home, WindowHome, Fits
  <2>2. CASE type[p] # "WINDOWED"
    <3>1. pos[p] = Place[p]
      BY <1>4, <2>2 DEF Home
    <3> QED BY <1>1, <3>1, Numbers, PlacesAssumption DEF Fits
  <2> QED BY <2>1, <2>2
<1>7. X < m[1] /\ m[1] < X + w /\ Y < m[2] /\ m[2] < Y + h
  BY <1>1, <1>2, <1>5
<1> HIDE DEF X, Y, w, h
<1>8. m[2] * ScreenW + m[1] \in Lines(X, X + w + 1, Y, Y + h)
  <2>1. /\ X \in Int /\ X + w + 1 \in Int /\ Y \in Int /\ Y + h \in Int
        /\ m[1] \in Int /\ m[2] \in Int
        /\ X <= m[1] /\ m[1] < X + w + 1 /\ Y <= m[2] /\ m[2] < Y + h
    BY <1>1, <1>3, <1>7
  <2> QED BY <2>1, LinesHit, Zenon
<1>9. Lines(X, X + w + 1, Y, Y + h) = Content(p)
  BY <1>4, <1>6, Zenon DEF Content, X, Y, w, h
<1> QED BY <1>8, <1>9 DEF Rendered

-----------------------------------------------------------------------------
(***************************************************************************)
(* The picture.                                                            *)
(***************************************************************************)
LEMMA RowOf ==
  ASSUME NEW c \in Pixels
  PROVE  \E x \in 0 .. ScreenW - 1, y \in 0 .. ScreenH - 1 : c = y * ScreenW + x
<1> DEFINE y == c \div ScreenW
           x == c % ScreenW
<1>1. ScreenW \in Nat /\ ScreenW > 0 /\ ScreenH \in Nat
  BY Numbers
<1>2. c \in Int /\ 0 <= c
  BY DEF Pixels
<1>3. ScreenW * ScreenH \in Int
  BY <1>1
<1>4. c < ScreenW * ScreenH
  BY <1>2, <1>3 DEF Pixels
<1>5. x \in 0 .. ScreenW - 1 /\ y \in Int /\ c = ScreenW * y + x
  BY <1>1, <1>2
<1> HIDE DEF x, y
<1>6. \A a, b \in Nat : a * b \in Nat
  OBVIOUS
<1>7. y >= 0
  <2> SUFFICES ASSUME y < 0 PROVE FALSE
    BY <1>5
  <2>1. (-1 - y) * ScreenW \in Nat
    BY <1>1, <1>5, <1>6
  <2>2. (-1 - y) * ScreenW = - ScreenW - ScreenW * y
    BY <1>1, <1>5
  <2> QED BY <1>1, <1>2, <1>5, <2>1, <2>2
<1>8. y < ScreenH
  <2> SUFFICES ASSUME y >= ScreenH PROVE FALSE
    BY <1>1, <1>5
  <2>1. (y - ScreenH) * ScreenW \in Nat
    BY <1>1, <1>5, <1>6
  <2>2. (y - ScreenH) * ScreenW = ScreenW * y - ScreenW * ScreenH
    BY <1>1, <1>5
  <2>3. ScreenW * y \in Int
    BY <1>1, <1>5
  <2> QED BY <1>3, <1>4, <1>5, <2>1, <2>2, <2>3
<1>9. c = y * ScreenW + x /\ y \in 0 .. ScreenH - 1
  BY <1>1, <1>5, <1>7, <1>8
<1> QED BY <1>5, <1>9

(* The desktop is rendered everywhere.                                     *)
LEMMA DeskCovers ==
  ASSUME TypeOK, NEW p \in Proc, Home(p), Type[p] = "FULLSCREEN"
  PROVE  Pixels \subseteq Rendered(p)
<1>1. type[p] = "FULLSCREEN"
  BY DEF TypeOK
<1>2. pos[p] = <<0, 0>> /\ Size[p] = <<ScreenW, ScreenH>>
  BY <1>1, PlacesAssumption DEF Home
<1>3. Fits(p)
  BY <1>2, Numbers DEF Fits
<1>4. Content(p) = Lines(0, 0 + ScreenW + 1, 0, 0 + ScreenH)
  BY <1>1, <1>2, <1>3 DEF Content
<1>5. ASSUME NEW c \in Pixels PROVE c \in Lines(0, 0 + ScreenW + 1, 0, 0 + ScreenH)
  <2>1. PICK x \in 0 .. ScreenW - 1, y \in 0 .. ScreenH - 1 : c = y * ScreenW + x
    BY RowOf
  <2>2. /\ x \in Int /\ y \in Int /\ 0 \in Int
        /\ 0 + ScreenW + 1 \in Int /\ 0 + ScreenH \in Int
        /\ 0 <= x /\ x < 0 + ScreenW + 1 /\ 0 <= y /\ y < 0 + ScreenH
    BY Numbers
  <2> QED BY <2>1, <2>2, LinesHit, Zenon
<1> QED BY <1>4, <1>5 DEF Rendered

(* Who is seen at a pixel of a picture: the highest rendered there, or     *)
(* with nobody rendered there who was seen before.                         *)
LEMMA PictureSeen ==
  ASSUME list \in Seq(Proc), NEW on \in [Proc -> SUBSET Pixels],
         NEW p \in Proc, NEW c \in Picture(on)[p]
  PROVE  /\ c \in Pixels
         /\ \/ \E i \in 1 .. Len(list) :
                  /\ list[i] = p /\ c \in Rendered(p)
                  /\ \A j \in i + 1 .. Len(list) : c \notin Rendered(list[j])
            \/ c \in on[p] /\ \A i \in 1 .. Len(list) : c \notin Rendered(list[i])
<1> DEFINE layers   == {[at |-> i, drawn |-> Rendered(list[i]) \cap Pixels] : i \in 1 .. Len(list)}
           above(i) == UNION {l.drawn : l \in {k \in layers : k.at > i}}
           layer(i) == [at |-> i, drawn |-> Rendered(list[i]) \cap Pixels]
<1>1. Picture(on)[p] = (on[p] \ above(0)) \cup
                       UNION {l.drawn \ above(l.at) : l \in {k \in layers : list[k.at] = p}}
  BY Zenon DEF Picture
<1>2. ASSUME NEW i \in Nat, c \in Pixels, c \notin above(i), NEW j \in 1 .. Len(list), j > i
      PROVE  c \notin Rendered(list[j])
  <2>1. layer(j) \in layers /\ layer(j).at = j /\ layer(j).drawn = Rendered(list[j]) \cap Pixels
    OBVIOUS
  <2>2. layer(j) \in {k \in layers : k.at > i}
    BY <1>2, <2>1
  <2>3. c \notin layer(j).drawn
    BY <1>2, <2>2
  <2> QED BY <1>2, <2>1, <2>3
<1>3. CASE c \in on[p] \ above(0)
  <2>1. c \in Pixels /\ c \in on[p] /\ c \notin above(0)
    BY <1>3
  <2>2. \A i \in 1 .. Len(list) : i > 0
    OBVIOUS
  <2> HIDE DEF above
  <2> QED BY <1>2, <2>1, <2>2
<1>4. CASE c \notin on[p] \ above(0)
  <2>1. PICK l \in layers : list[l.at] = p /\ c \in l.drawn /\ c \notin above(l.at)
    BY <1>1, <1>4
  <2>2. PICK i \in 1 .. Len(list) : l = layer(i)
    OBVIOUS
  <2>3. l.at = i /\ l.drawn = Rendered(list[i]) \cap Pixels
    BY <2>2
  <2>4. list[i] = p /\ c \in Rendered(p) /\ c \in Pixels /\ c \notin above(i)
    BY <2>1, <2>3
  <2>5. i \in Nat /\ \A j \in i + 1 .. Len(list) : j \in 1 .. Len(list) /\ j > i
    OBVIOUS
  <2> HIDE DEF above, layers, layer
  <2> QED BY <1>2, <2>4, <2>5
<1> QED BY <1>3, <1>4

LEMMA PictureType ==
  ASSUME list \in Seq(Proc), NEW on \in [Proc -> SUBSET Pixels]
  PROVE  Picture(on) \in [Proc -> SUBSET Pixels]
<1>1. \A p \in Proc : Picture(on)[p] \subseteq Pixels
  BY PictureSeen
<1>2. Picture(on) = [p \in Proc |-> Picture(on)[p]]
  BY DEF Picture
<1> QED BY <1>1, <1>2

(* A picture shows of each process only what is rendered of it now.        *)
LEMMA PictureClean ==
  ASSUME TypeOK, Desk, \A p \in Proc : Home(p), NEW on \in [Proc -> SUBSET Pixels]
  PROVE  \A p \in Proc : IF p \in ToSet(list) THEN Picture(on)[p] \subseteq Rendered(p)
                                               ELSE Picture(on)[p] = {}
<1>1. list \in Seq(Proc)
  BY DEF TypeOK
<1>2. PICK k \in 1 .. Len(list) : Pixels \subseteq Rendered(list[k])
  BY <1>1, DeskCovers DEF Desk, ToSet
<1>3. ASSUME NEW p \in Proc, NEW c \in Picture(on)[p]
      PROVE  p \in ToSet(list) /\ c \in Rendered(p)
  <2>1. c \in Pixels /\ c \in Rendered(list[k])
    BY <1>1, <1>2, PictureSeen
  <2>2. PICK i \in 1 .. Len(list) : list[i] = p /\ c \in Rendered(p)
    BY <1>1, <2>1, PictureSeen
  <2> QED BY <1>1, <2>2 DEF ToSet
<1> QED BY <1>3

(* What a process paints depends on where it is and on nothing else that   *)
(* changes.                                                                *)
LEMMA SameRendered ==
  ASSUME NEW p, type'[p] = type[p], pos'[p] = pos[p]
  PROVE  Rendered(p)' = Rendered(p) /\ Home(p)' = Home(p)
<1>1. SizeOf(p)' = SizeOf(p)
  BY DEF SizeOf
<1>2. CloseButton(p)' = CloseButton(p)
  BY <1>1 DEF CloseButton
<1>3. MinimizeButton(p)' = MinimizeButton(p)
  BY <1>2 DEF MinimizeButton
<1>4. PrintTitle(p)' = PrintTitle(p)
  <2>1. TextAt(p)' = TextAt(p)
    BY DEF TextAt
  <2> QED BY <2>1 DEF PrintTitle
<1>5. Frame(p)' = Frame(p)
  BY <1>1, <1>2, <1>3, <1>4 DEF Frame
<1>6. Content(p)' = Content(p)
  BY DEF Content, Fits
<1> QED BY <1>5, <1>6 DEF Rendered, Home, WindowHome, BarHome

LEMMA PaintParts ==
  ASSUME NEW p \in Proc, NEW on \in [Proc -> SUBSET Pixels]
  PROVE  /\ Paint(p, on) \in [Proc -> SUBSET Pixels]
         /\ Paint(p, on)[p] \subseteq on[p] \cup Rendered(p)
         /\ \A q \in Proc : q # p => Paint(p, on)[q] \subseteq on[q]
  BY DEF Paint

-----------------------------------------------------------------------------
(***************************************************************************)
(* The invariant, action by action.                                        *)
(***************************************************************************)
LEMMA InvInit == Init => Inv
<1> SUFFICES ASSUME Init PROVE Inv
  OBVIOUS
<1>1. list \in Seq(Proc) /\ IsInjective(list) /\ Desk
  <2>1. Cardinality(Proc) \in Nat
    BY PlacesAssumption, FS_CardinalityType
  <2>2. Cardinality(Proc) # 0
    BY PlacesAssumption, FS_EmptySet
  <2>3. /\ list \in [1 .. Cardinality(Proc) -> Proc] /\ Type[list[1]] = "FULLSCREEN"
        /\ \A i, j \in 1 .. Cardinality(Proc) : i # j => list[i] # list[j]
    BY DEF Init, SetToSeqs
  <2> QED BY <2>1, <2>2, <2>3 DEF Desk, ToSet, IsInjective
<1>2. type = Type /\ pos = Place /\ focus = None /\ moving = None /\ delta = <<0, 0>>
      /\ redraw = FALSE /\ pending = {} /\ shown = Picture(Blank)
  BY DEF Init
<1>3. Blank \in [Proc -> SUBSET Pixels]
  BY DEF Blank
<1>4. TypeOK
  <2>1. pos \in [Proc -> (0 .. ScreenW) \X (0 .. ScreenH)]
    <3>1. ASSUME NEW p \in Proc PROVE pos[p] \in (0 .. ScreenW) \X (0 .. ScreenH)
      BY <1>2, Numbers, PlacesAssumption
    <3> QED BY <1>2, <3>1, WindowsAssumption
  <2>2. shown \in [Proc -> SUBSET Pixels]
    BY <1>1, <1>2, <1>3, PictureType
  <2>3. type \in [Proc -> Types] /\ \A p \in Proc : type[p] = Type[p]
    BY <1>2, WindowsAssumption DEF Types
  <2> QED BY <1>1, <1>2, <2>1, <2>2, <2>3 DEF TypeOK, Types
<1>5. \A p \in Proc : Home(p)
  BY <1>2, WindowsAssumption, PlacesAssumption DEF Home, WindowHome
<1>6. NoGhost
  BY <1>1, <1>2, <1>3, <1>4, <1>5, PictureClean DEF NoGhost
<1> QED BY <1>1, <1>2, <1>4, <1>5, <1>6 DEF Inv

(* A step that moves nothing and shows nothing new: the list may change    *)
(* its order.                                                              *)
LEMMA Reordered ==
  ASSUME Inv, UNCHANGED <<type, pos, shown>>, list' \in Seq(Proc), IsInjective(list'),
         ToSet(list') = ToSet(list), focus' \in ToSet(list) \cup {None},
         moving' \in {p \in ToSet(list) : Type[p] = "WINDOWED"} \cup {None},
         redraw' \in BOOLEAN, redraw => redraw', pending' \subseteq Proc,
         delta' \in Int \X Int
  PROVE  Inv'
<1>1. \A p \in Proc : Rendered(p)' = Rendered(p) /\ Home(p)' = Home(p)
  BY SameRendered
<1>2. TypeOK'
  BY DEF Inv, TypeOK, Pixels
<1>3. Desk'
  BY DEF Inv, Desk
<1>4. NoGhost'
  BY <1>1 DEF Inv, NoGhost
<1> QED BY <1>1, <1>2, <1>3, <1>4 DEF Inv

LEMMA FocusedList ==
  ASSUME Inv, NEW p \in ToSet(list), SetFocusedProcess(p)
  PROVE  /\ list' \in Seq(Proc) /\ IsInjective(list') /\ ToSet(list') = ToSet(list)
         /\ focus' = p /\ redraw' \in BOOLEAN /\ (redraw => redraw')
<1>1. list \in Seq(Proc) /\ IsInjective(list) /\ Len(list) - 1 \in Nat /\ redraw \in BOOLEAN
  BY DEF Inv, TypeOK, ToSet
<1>2. redraw' = (redraw \/ Windowed(focus) \/ Windowed(p)) /\ focus' = p
  BY DEF SetFocusedProcess
<1>3. CASE list' = list
  BY <1>1, <1>2, <1>3 DEF Windowed
<1>4. CASE list' = SetDepth(list, p, Len(list) - 1)
  BY <1>1, <1>2, <1>4, SetDepthList DEF Windowed
<1> QED BY <1>3, <1>4 DEF SetFocusedProcess

(* A window, as one or minimized, goes to where SetPos takes it.           *)
LEMMA Moved ==
  ASSUME Inv, NEW p \in Proc, Type[p] = "WINDOWED", NEW t \in {"WINDOWED", "MINIMIZED"},
         NEW to \in Int \X Int,
         type' = [type EXCEPT ![p] = t], pos' = [pos EXCEPT ![p] = SetPos(p, t, to)],
         redraw' = TRUE, UNCHANGED <<list, delta, pending, shown>>,
         focus' \in ToSet(list) \cup {None},
         moving' \in {q \in ToSet(list) : Type[q] = "WINDOWED"} \cup {None}
  PROVE  Inv'
<1>1. type \in [Proc -> Types] /\ pos \in [Proc -> (0 .. ScreenW) \X (0 .. ScreenH)]
  BY DEF Inv, TypeOK, Types
<1>2. /\ type'[p] = t /\ pos'[p] = SetPos(p, t, to)
      /\ \A q \in Proc : q # p => type'[q] = type[q] /\ pos'[q] = pos[q]
  BY <1>1
<1>3. Home(p)' /\ SetPos(p, t, to) \in (0 .. ScreenW) \X (0 .. ScreenH)
  <2>1. CASE t = "WINDOWED"
    BY <1>2, <2>1, SetPosHome DEF Home, WindowHome
  <2>2. CASE t = "MINIMIZED"
    BY <1>2, <2>2, SetPosHome DEF Home, BarHome
  <2> QED BY <2>1, <2>2
<1>4. \A q \in Proc : Home(q)'
  <2>1. ASSUME NEW q \in Proc, q # p PROVE Home(q)'
    BY <1>2, <2>1, SameRendered DEF Inv
  <2> QED BY <1>3, <2>1
<1>5. type' \in [Proc -> Types] /\ pos' \in [Proc -> (0 .. ScreenW) \X (0 .. ScreenH)]
  BY <1>1, <1>3 DEF Types
<1>6. \A q \in Proc : type'[q] # Type[q] => Type[q] = "WINDOWED" /\ type'[q] = "MINIMIZED"
  BY <1>2 DEF Inv, TypeOK
<1>7. TypeOK'
  BY <1>5, <1>6 DEF Inv, TypeOK, Types, Pixels
<1> QED BY <1>4, <1>7 DEF Inv, Desk, NoGhost

LEMMA InvMouse == Inv /\ MouseInterupt => Inv'
<1> SUFFICES ASSUME Inv, NEW m \in Spots, NEW left \in BOOLEAN,
                    Move(m, left) \/ Tell(m, left) \/ Close(m) \/ Minimize(m) \/ Grab(m)
             PROVE  Inv'
  BY DEF MouseInterupt
<1>1. /\ list \in Seq(Proc) /\ IsInjective(list)
      /\ type \in [Proc -> Types] /\ pos \in [Proc -> (0 .. ScreenW) \X (0 .. ScreenH)]
      /\ focus \in ToSet(list) \cup {None} /\ pending \subseteq Proc
      /\ moving \in {p \in ToSet(list) : Type[p] = "WINDOWED"} \cup {None}
      /\ delta \in Int \X Int
      /\ \A p \in Proc : type[p] # Type[p] => Type[p] = "WINDOWED"
  BY DEF Inv, TypeOK, Types
<1>2. ToSet(list) \subseteq Proc
  BY <1>1 DEF ToSet
<1>3. m[1] \in Int /\ m[2] \in Int
  BY WindowsAssumption, Numbers
<1>4. \A p \in Proc : pos[p] \in Int \X Int
  BY <1>1, Numbers
<1>5. CASE Move(m, left)
  <2>1. moving \in Proc /\ Type[moving] = "WINDOWED" /\ type[moving] \in {"WINDOWED", "MINIMIZED"}
    BY <1>1, <1>2, <1>5 DEF Move, Inv, TypeOK
  <2>2. Plus(m, delta) \in Int \X Int
    BY <1>1, <1>3 DEF Plus
  <2>3. type' = [type EXCEPT ![moving] = type[moving]]
    BY <1>1, <1>5, <2>1 DEF Move
  <2>4. /\ pos' = [pos EXCEPT ![moving] = SetPos(moving, type[moving], Plus(m, delta))]
        /\ redraw' = TRUE /\ UNCHANGED <<list, delta, pending, shown>>
        /\ focus' \in ToSet(list) \cup {None}
        /\ moving' \in {q \in ToSet(list) : Type[q] = "WINDOWED"} \cup {None}
    BY <1>1, <1>5 DEF Move
  <2> QED BY <2>1, <2>2, <2>3, <2>4, Moved
<1>6. CASE Tell(m, left)
  <2>1. PICK p \in Proc :
          /\ p = Over(m, left)
          /\ IF left THEN SetFocusedProcess(p) ELSE UNCHANGED <<list, focus, redraw>>
          /\ pending' = pending \cup ({p} \cap Answers)
    BY <1>6 DEF Tell
  <2>2. UNCHANGED <<type, pos, moving, delta, shown>>
    BY <1>6 DEF Tell
  <2>3. p \in ToSet(list)
    BY <1>1, <2>1, OverListed
  <2>4. pending' \subseteq Proc
    BY <1>1, <2>1
  <2>5. CASE left
    <3>1. SetFocusedProcess(p)
      BY <2>1, <2>5
    <3> QED BY <1>1, <2>2, <2>3, <2>4, <3>1, FocusedList, Reordered
  <2>6. CASE ~left
    <3>1. UNCHANGED <<list, focus, redraw>> /\ redraw' \in BOOLEAN
      BY <2>1, <2>6 DEF Inv, TypeOK
    <3> QED BY <1>1, <2>2, <2>4, <3>1, Reordered
  <2> QED BY <2>5, <2>6
<1>7. CASE Close(m)
  <2>1. PICK p \in Proc : /\ p = Over(m, TRUE) /\ OverTitle(p, m, TRUE)
                          /\ focus' = FocusLeft(p) /\ list' = Erase(list, p)
                          /\ pending' = pending \ {p}
    BY <1>7 DEF Close
  <2>2. moving = None /\ redraw' = TRUE /\ UNCHANGED <<type, pos, moving, delta, shown>>
    BY <1>7 DEF Close
  <2>3. p \in ToSet(list)
    BY <1>1, <2>1, OverListed
  <2>4. /\ list' \in Seq(Proc) /\ IsInjective(list') /\ ToSet(list') = ToSet(list) \ {p}
    BY <1>1, <2>1, <2>3, EraseList
  <2>5. Type[p] # "FULLSCREEN"
    BY <1>1, <2>1, WindowsAssumption DEF OverTitle
  <2>6. focus' \in ToSet(list') \cup {None} /\ pending' \subseteq Proc
    BY <1>1, <2>1, <2>4 DEF FocusLeft
  <2>7. TypeOK'
    BY <2>2, <2>4, <2>6 DEF Inv, TypeOK, Pixels
  <2>8. \A q \in Proc : Home(q)'
    BY <2>2, SameRendered DEF Inv
  <2>9. Desk'
    BY <2>4, <2>5 DEF Inv, Desk
  <2> QED BY <1>1, <2>2, <2>7, <2>8, <2>9 DEF Inv, NoGhost
<1>8. CASE Minimize(m)
  <2>1. PICK p \in Proc : /\ OverTitle(p, m, TRUE)
           /\ LET t == IF type[p] = "MINIMIZED" THEN "WINDOWED" ELSE "MINIMIZED"
              IN  type' = [type EXCEPT ![p] = t] /\ pos' = [pos EXCEPT ![p] = Placed(p, t)]
    BY <1>8 DEF Minimize
  <2>2. redraw' = TRUE /\ UNCHANGED <<list, focus, moving, delta, pending, shown>>
    BY <1>8 DEF Minimize, RedrawAsked
  <2>3. Type[p] = "WINDOWED"
    BY <1>1, <2>1, WindowsAssumption DEF OverTitle
  <2> DEFINE t == IF type[p] = "MINIMIZED" THEN "WINDOWED" ELSE "MINIMIZED"
  <2>4. t \in {"WINDOWED", "MINIMIZED"} /\ pos[p] \in Int \X Int
    BY <1>4
  <2>5. type' = [type EXCEPT ![p] = t] /\ pos' = [pos EXCEPT ![p] = SetPos(p, t, pos[p])]
    BY <2>1 DEF Placed
  <2> HIDE DEF t
  <2> QED BY <1>1, <2>2, <2>3, <2>4, <2>5, Moved
<1>9. CASE Grab(m)
  <2>1. PICK p \in Proc : /\ p = Over(m, TRUE) /\ OverTitle(p, m, TRUE)
                          /\ moving' = p /\ delta' = Grabbed(p, m) /\ SetFocusedProcess(p)
    BY <1>9 DEF Grab
  <2>2. UNCHANGED <<type, pos, pending, shown>>
    BY <1>9 DEF Grab
  <2>3. p \in ToSet(list)
    BY <1>1, <2>1, OverListed
  <2>4. Type[p] = "WINDOWED"
    BY <1>1, <2>1, WindowsAssumption DEF OverTitle
  <2>5. delta' \in Int \X Int
    <3>1. pos[p][1] \in Int /\ pos[p][2] \in Int
      BY <1>4
    <3>2. delta' = <<pos[p][1] - m[1], pos[p][2] - m[2]>>
      BY <2>1, Zenon DEF Grabbed, Minus
    <3> QED BY <1>3, <3>1, <3>2
  <2> QED BY <1>1, <2>1, <2>2, <2>3, <2>4, <2>5, FocusedList, Reordered
<1> QED BY <1>5, <1>6, <1>7, <1>8, <1>9

LEMMA InvStart == Inv /\ Start => Inv'
<1> SUFFICES ASSUME Inv, NEW p \in Proc, p \notin ToSet(list),
                    type' = [type EXCEPT ![p] = Type[p]],
                    pos' = [pos EXCEPT ![p] = Place[p]],
                    list' = SetDepth(Append(list, p), p, 1),
                    pending' = pending \cup {p},
                    UNCHANGED <<focus, moving, delta, redraw, shown>>
             PROVE  Inv'
  BY DEF Start
<1>1. /\ list \in Seq(Proc) /\ IsInjective(list)
      /\ type \in [Proc -> Types] /\ pos \in [Proc -> (0 .. ScreenW) \X (0 .. ScreenH)]
  BY DEF Inv, TypeOK, Types
<1>2. /\ list' \in Seq(Proc) /\ IsInjective(list') /\ ToSet(list') = ToSet(list) \cup {p}
  <2>1. /\ Append(list, p) \in Seq(Proc) /\ IsInjective(Append(list, p))
        /\ ToSet(Append(list, p)) = ToSet(list) \cup {p} /\ Len(Append(list, p)) = Len(list) + 1
    BY <1>1, AppendList
  <2>2. 1 < Len(list) + 1
    BY <1>1 DEF Inv, Desk, ToSet
  <2> QED BY <2>1, <2>2, SetDepthList
<1>3. /\ type'[p] = Type[p] /\ pos'[p] = Place[p]
      /\ \A q \in Proc : q # p => type'[q] = type[q] /\ pos'[q] = pos[q]
  BY <1>1
<1>4. Home(p)' /\ Place[p] \in (0 .. ScreenW) \X (0 .. ScreenH) /\ Type[p] \in Types
  <2>1. Home(p)'
    BY <1>3, Numbers, WindowsAssumption, PlacesAssumption DEF Home, WindowHome
  <2> QED BY <2>1, Numbers, WindowsAssumption, PlacesAssumption DEF Types
<1>5. \A q \in Proc : q # p => Home(q)' /\ Rendered(q)' = Rendered(q)
  <2>1. ASSUME NEW q \in Proc, q # p PROVE Home(q)' /\ Rendered(q)' = Rendered(q)
    BY <1>3, <2>1, SameRendered DEF Inv
  <2> QED BY <2>1
<1>6. type' \in [Proc -> Types] /\ pos' \in [Proc -> (0 .. ScreenW) \X (0 .. ScreenH)]
  BY <1>1, <1>4
<1>7. TypeOK'
  <2>1. \A q \in Proc : type'[q] # Type[q] => Type[q] = "WINDOWED" /\ type'[q] = "MINIMIZED"
    BY <1>3 DEF Inv, TypeOK
  <2> QED BY <1>2, <1>6, <2>1 DEF Inv, TypeOK, Types, Pixels
<1>8. NoGhost'
  <2>1. shown[p] = {} \/ redraw
    BY DEF Inv, NoGhost
  <2> QED BY <1>2, <1>5, <2>1 DEF Inv, NoGhost
<1> QED BY <1>2, <1>4, <1>5, <1>7, <1>8 DEF Inv, Desk

LEMMA InvDraw == Inv /\ (Draw \/ Update) => Inv'
<1> SUFFICES ASSUME Inv, Draw \/ Update PROVE Inv'
  OBVIOUS
<1>1. /\ list \in Seq(Proc) /\ IsInjective(list) /\ shown \in [Proc -> SUBSET Pixels]
      /\ pending \subseteq Proc
  BY DEF Inv, TypeOK
<1>2. UNCHANGED <<list, type, pos, focus, moving, delta>>
  BY DEF Draw, Update
<1>3. \A p \in Proc : Rendered(p)' = Rendered(p) /\ Home(p)' = Home(p)
  BY <1>2, SameRendered
<1>4. ASSUME shown' \in [Proc -> SUBSET Pixels], pending' \subseteq Proc, redraw' \in BOOLEAN
      PROVE  TypeOK' /\ Desk' /\ \A p \in Proc : Home(p)'
  BY <1>2, <1>3, <1>4 DEF Inv, TypeOK, Desk, Pixels
<1>5. CASE Draw
  <2>1. PICK i \in 1 .. Len(list) :
          /\ IF Covered(i) THEN redraw' = TRUE /\ UNCHANGED shown
                           ELSE shown' = Paint(list[i], shown) /\ UNCHANGED redraw
          /\ pending' = pending \ {list[i]}
    BY <1>5 DEF Draw
  <2>2. list[i] \in Proc /\ list[i] \in ToSet(list)
    BY <1>1 DEF ToSet
  <2>3. CASE Covered(i)
    BY <1>1, <1>2, <1>4, <2>1, <2>3 DEF Inv, NoGhost
  <2>4. CASE ~Covered(i)
    <3>1. shown' = Paint(list[i], shown) /\ redraw' = redraw /\ redraw \in BOOLEAN
      BY <2>1, <2>4 DEF Inv, TypeOK
    <3>2. /\ shown' \in [Proc -> SUBSET Pixels]
          /\ shown'[list[i]] \subseteq shown[list[i]] \cup Rendered(list[i])
          /\ \A q \in Proc : q # list[i] => shown'[q] \subseteq shown[q]
      BY <1>1, <2>2, <3>1, PaintParts
    <3>3. NoGhost'
      BY <1>2, <1>3, <2>2, <3>1, <3>2 DEF Inv, NoGhost
    <3> QED BY <1>1, <1>2, <1>4, <2>1, <3>1, <3>2, <3>3 DEF Inv
  <2> QED BY <2>3, <2>4
<1>6. CASE Update
  <2>1. shown' = Picture(shown) /\ redraw' = FALSE /\ pending' = pending
    BY <1>6 DEF Update
  <2>2. Picture(shown) \in [Proc -> SUBSET Pixels]
    BY <1>1, PictureType
  <2>3. \A p \in Proc : IF p \in ToSet(list) THEN Picture(shown)[p] \subseteq Rendered(p)
                                             ELSE Picture(shown)[p] = {}
    BY <1>1, PictureClean DEF Inv
  <2>4. NoGhost'
    BY <1>2, <1>3, <2>1, <2>3 DEF NoGhost
  <2> QED BY <1>1, <1>2, <1>4, <2>1, <2>2, <2>4 DEF Inv
<1> QED BY <1>5, <1>6

LEMMA InvKept == Spec => []Inv
<1>1. Inv /\ [Next]_vars => Inv'
  <2> SUFFICES ASSUME Inv, [Next]_vars PROVE Inv'
    OBVIOUS
  <2>1. CASE UNCHANGED vars
    <3>1. UNCHANGED <<list, type, pos, focus, moving, delta, redraw, pending, shown>>
      BY <2>1 DEF vars
    <3> QED BY <3>1, Reordered DEF Inv, TypeOK
  <2> QED BY <2>1, InvMouse, InvStart, InvDraw DEF Next
<1> QED BY <1>1, InvInit, PTL DEF Spec

-----------------------------------------------------------------------------
(* Drags, clicks, starts and kills leave every window's frame on the       *)
(* screen, and nothing on it of where a window was or of what is closed,   *)
(* unless a redraw is requested.                                           *)
THEOREM PictureCorrect == Spec => []PictureRight
<1>1. Inv => PictureRight
  <2> SUFFICES ASSUME Inv PROVE FrameInside
    BY DEF Inv, PictureRight
  <2>1. ToSet(list) \subseteq Proc /\ pos \in [Proc -> (0 .. ScreenW) \X (0 .. ScreenH)]
    BY DEF Inv, TypeOK, ToSet
  <2>2. ASSUME NEW p \in ToSet(list), type[p] = "WINDOWED" PROVE WindowHome(p) /\ p \in Proc
    BY <2>1, <2>2 DEF Inv, Home
  <2>3. \A p \in Proc : pos[p][1] \in Int /\ pos[p][2] \in Int
    BY <2>1, Numbers
  <2> QED BY <2>2, <2>3, Numbers DEF FrameInside, WindowHome
<1> QED BY <1>1, InvKept, PTL

(* In a complete picture, a click on what is seen of a process reaches it. *)
THEOREM ClickCorrect == Spec => []ClickMeetsPicture
<1>1. Inv => ClickMeetsPicture
  <2> SUFFICES ASSUME Inv, shown = Picture(shown), ~(\E q \in ToSet(list) : Hangs(q)),
                      NEW p \in ToSet(list), NEW m \in Mice,
                      m[2] * ScreenW + m[1] \in shown[p],
                      OverTitle(p, m, TRUE) \/ OverContent(p, m)
               PROVE  Over(m, TRUE) = p
    BY DEF ClickMeetsPicture
  <2> DEFINE c == m[2] * ScreenW + m[1]
  <2>1. /\ TypeOK /\ list \in Seq(Proc) /\ shown \in [Proc -> SUBSET Pixels]
        /\ \A q \in Proc : Home(q)
    BY DEF Inv, TypeOK
  <2>2. \A i \in 1 .. Len(list) : list[i] \in Proc /\ list[i] \in ToSet(list)
    BY <2>1 DEF ToSet
  <2>3. PICK k \in 1 .. Len(list) : list[k] = p
    BY <2>1 DEF ToSet
  <2>4. ASSUME NEW i \in 1 .. Len(list), OverTitle(list[i], m, TRUE) \/ OverContent(list[i], m)
        PROVE  c \in Rendered(list[i])
    BY <2>1, <2>2, <2>4, TitleSeen, ContentSeen
  <2> HIDE DEF c
  <2>5. PICK i \in 1 .. Len(list) : /\ list[i] = p
                                    /\ \A j \in i + 1 .. Len(list) : c \notin Rendered(list[j])
    <3>1. c \in Rendered(list[k])
      BY <2>3, <2>4
    <3>2. c \in Picture(shown)[p] /\ p \in Proc
      BY <2>2, <2>3 DEF c
    <3> QED BY <2>1, <3>1, <3>2, PictureSeen
  <2>6. \A j \in i + 1 .. Len(list) : ~OverTitle(list[j], m, TRUE) /\ ~OverContent(list[j], m)
    <3>1. \A j \in i + 1 .. Len(list) : j \in 1 .. Len(list)
      OBVIOUS
    <3> QED BY <2>4, <2>5, <3>1
  <2> QED BY <2>1, <2>5, <2>6, OverHighest
<1> QED BY <1>1, InvKept, PTL

-----------------------------------------------------------------------------
(***************************************************************************)
(* Within the reach of the mouse.  A window that is moved is held to the   *)
(* right of its left edge, so that the mouse, which keeps a margin, takes  *)
(* no title bar into the margin.                                           *)
(***************************************************************************)
InReach == /\ moving # None => delta[1] < 0
           /\ \A p \in Proc : type[p] = "MINIMIZED" => pos[p][1] < ScreenW - RightMargin

Half(n) == n \div 2

LEMMA Sizes ==
  /\ ButtonSize \in Nat /\ ButtonSize > 1 /\ MinWidth > 1
  /\ GlyphW \in Nat /\ GlyphW > 0 /\ GlyphH \in Nat /\ GlyphH > 0
  /\ Half(Bar) \in Nat /\ Half(ButtonSize) \in Nat /\ Half(GlyphH) \in Nat
  /\ Half(Bar) + Half(ButtonSize) < Bar
  /\ ButtonSize - Half(ButtonSize) <= Half(Bar)
  /\ GlyphH - Half(GlyphH) <= Half(Bar) + Edge
  /\ RightMargin < Edge + ButtonSize + Half(ButtonSize)
  /\ LowerMargin < Edge + Half(Bar) + Half(ButtonSize)
  /\ 0 < Half(ButtonSize) /\ Half(ButtonSize) < ButtonSize
<1>1. \A n \in Nat : Half(n) \in Nat /\ (n > 1 => 0 < Half(n) /\ Half(n) < n)
  BY DEF Half
<1>2. ButtonSize \in Nat /\ GlyphW \in Nat /\ GlyphW > 0 /\ GlyphH \in Nat /\ GlyphH > 0
  BY WindowsAssumption
<1> QED BY <1>1, <1>2, Numbers, ReachAssumption DEF Half

LEMMA WidthOf ==
  ASSUME NEW p \in Proc, Type[p] = "WINDOWED"
  PROVE  /\ ButtonSize + Half(ButtonSize) <= Size[p][1]
         /\ Edge + ButtonSize + Half(ButtonSize) + Edge <= ScreenW
         /\ Edge + Bar + Size[p][2] + Edge <= ScreenH
<1>1. ButtonSize + Half(ButtonSize) <= Size[p][1]
  BY ReachAssumption DEF Half
<1> QED BY <1>1, Numbers, Sizes, PlacesAssumption

LEMMA ReachInit == Init => InReach
  BY WindowsAssumption DEF Init, InReach

LEMMA ReachKept == Inv /\ InReach /\ [Next]_vars => InReach'
<1> SUFFICES ASSUME Inv, InReach, [Next]_vars PROVE InReach'
  OBVIOUS
<1>1. /\ list \in Seq(Proc) /\ type \in [Proc -> Types] /\ delta \in Int \X Int
      /\ pos \in [Proc -> (0 .. ScreenW) \X (0 .. ScreenH)]
      /\ moving \in {p \in ToSet(list) : Type[p] = "WINDOWED"} \cup {None}
      /\ \A p \in Proc : type[p] # Type[p] => Type[p] = "WINDOWED"
  BY DEF Inv, TypeOK, Types
<1>2. \A p \in ToSet(list) : p \in Proc
  BY <1>1 DEF ToSet
<1>3. \A m \in Spots : m[1] \in Int /\ m[2] \in Int /\ m[1] <= ScreenW - RightMargin
  BY WindowsAssumption, Numbers
(* A window of a title bar that SetPos has taken to x.                     *)
<1>4. ASSUME NEW p \in Proc, Type[p] = "WINDOWED", NEW t, NEW to \in Int \X Int,
             t = "MINIMIZED" => to[1] < ScreenW - RightMargin,
             type' = [type EXCEPT ![p] = t], pos' = [pos EXCEPT ![p] = SetPos(p, t, to)]
      PROVE  \A q \in Proc : type'[q] = "MINIMIZED" => pos'[q][1] < ScreenW - RightMargin
  <2>1. ASSUME t = "MINIMIZED" PROVE SetPos(p, t, to)[1] < ScreenW - RightMargin
    <3>1. SetPos(p, t, to)[1] = Clamp(to[1], Edge, ScreenW - 0 - Edge)
      BY <2>1 DEF SetPos
    <3>2. Edge < ScreenW - RightMargin
      BY <1>4, WidthOf, Numbers, Sizes
    <3>3. to[1] \in Int /\ to[1] < ScreenW - RightMargin
      BY <1>4, <2>1
    <3>4. Edge <= ScreenW - 0 - Edge
      BY <1>4, WidthOf, Numbers, Sizes
    <3>5. CASE to[1] < Edge
      BY <3>1, <3>2, <3>5 DEF Clamp
    <3>6. CASE to[1] > ScreenW - 0 - Edge /\ ~(to[1] < Edge)
      <4>1. SetPos(p, t, to)[1] = ScreenW - 0 - Edge
        BY <3>1, <3>6 DEF Clamp
      <4> QED BY <3>3, <3>6, <4>1, Numbers
    <3>7. CASE ~(to[1] < Edge) /\ ~(to[1] > ScreenW - 0 - Edge)
      BY <3>1, <3>3, <3>7 DEF Clamp
    <3> QED BY <3>5, <3>6, <3>7
  <2>2. \A q \in Proc : q # p => type'[q] = type[q] /\ pos'[q] = pos[q]
    BY <1>1, <1>4
  <2>3. type'[p] = t /\ pos'[p] = SetPos(p, t, to)
    BY <1>1, <1>4
  <2> QED BY <2>1, <2>2, <2>3 DEF InReach
<1>5. ASSUME NEW m \in Spots, NEW left \in BOOLEAN, Move(m, left) PROVE InReach'
  <2>1. moving \in Proc /\ Type[moving] = "WINDOWED" /\ moving # None
    BY <1>1, <1>2, <1>5 DEF Move
  <2>2. Plus(m, delta) = <<m[1] + delta[1], m[2] + delta[2]>> /\ delta' = delta
    BY <1>5 DEF Plus, Move
  <2>3. delta[1] \in Int /\ delta[2] \in Int /\ delta[1] < 0
    BY <1>1, <2>1 DEF InReach
  <2>4. Plus(m, delta) \in Int \X Int /\ Plus(m, delta)[1] < ScreenW - RightMargin
    BY <1>3, <2>2, <2>3, Numbers
  <2>5. type' = [type EXCEPT ![moving] = type[moving]]
    BY <1>1, <1>5, <2>1 DEF Move
  <2>6. pos' = [pos EXCEPT ![moving] = SetPos(moving, type[moving], Plus(m, delta))]
    BY <1>5 DEF Move
  <2>7. \A q \in Proc : type'[q] = "MINIMIZED" => pos'[q][1] < ScreenW - RightMargin
    BY <1>4, <2>1, <2>4, <2>5, <2>6
  <2> QED BY <2>2, <2>3, <2>7 DEF InReach
<1>6. ASSUME NEW m \in Spots, NEW left \in BOOLEAN, Tell(m, left) PROVE InReach'
  BY <1>6 DEF Tell, InReach
<1>7. ASSUME NEW m \in Spots, Close(m) PROVE InReach'
  BY <1>7 DEF Close, InReach
<1>8. ASSUME NEW m \in Spots, Minimize(m) PROVE InReach'
  <2>1. PICK p \in Proc : /\ OverTitle(p, m, TRUE)
           /\ LET t == IF type[p] = "MINIMIZED" THEN "WINDOWED" ELSE "MINIMIZED"
              IN  type' = [type EXCEPT ![p] = t] /\ pos' = [pos EXCEPT ![p] = Placed(p, t)]
    BY <1>8 DEF Minimize
  <2>2. moving' = None
    BY <1>8 DEF Minimize
  <2>3. Type[p] = "WINDOWED" /\ type[p] \in {"WINDOWED", "MINIMIZED"}
    BY <1>1, <2>1, WindowsAssumption DEF OverTitle
  <2> DEFINE t == IF type[p] = "MINIMIZED" THEN "WINDOWED" ELSE "MINIMIZED"
  <2>4. type' = [type EXCEPT ![p] = t] /\ pos' = [pos EXCEPT ![p] = SetPos(p, t, pos[p])]
    BY <2>1 DEF Placed
  <2>5. pos[p] \in Int \X Int
    BY <1>1, Numbers
  <2>6. t = "MINIMIZED" => pos[p][1] < ScreenW - RightMargin
    <3>1. t = "MINIMIZED" => WindowHome(p)
      BY <2>3 DEF Inv, Home
    <3> HIDE DEF t
    <3> QED BY <2>3, <2>5, <3>1, WidthOf, Numbers, Sizes DEF WindowHome
  <2> HIDE DEF t
  <2> QED BY <1>4, <2>2, <2>3, <2>4, <2>5, <2>6 DEF InReach
<1>9. ASSUME NEW m \in Spots, Grab(m) PROVE InReach'
  <2>1. PICK p \in Proc : OverTitle(p, m, TRUE) /\ delta' = Grabbed(p, m)
    BY <1>9 DEF Grab
  <2>2. UNCHANGED <<type, pos>>
    BY <1>9 DEF Grab
  <2>3. InRect(Minus(pos[p], FrameOffset), Plus(pos[p], <<SizeOf(p)[1], 0>>), m)
    BY <2>1 DEF OverTitle
  <2>4. Minus(pos[p], FrameOffset)[1] < m[1]
    BY <2>3 DEF InRect
  <2>5. pos[p][1] \in Int /\ m[1] \in Int
    BY <1>1, <1>3, Numbers
  <2>6. Minus(pos[p], FrameOffset)[1] = pos[p][1] - 0
    BY DEF Minus, FrameOffset
  <2>7. delta'[1] = pos[p][1] - m[1]
    BY <2>1 DEF Grabbed, Minus
  <2>8. delta'[1] < 0
    BY <2>4, <2>5, <2>6, <2>7
  <2> QED BY <2>2, <2>8 DEF InReach
<1>10. CASE MouseInterupt
  BY <1>10, <1>5, <1>6, <1>7, <1>8, <1>9 DEF MouseInterupt
<1>11. CASE Start
  <2>1. PICK p \in Proc : type' = [type EXCEPT ![p] = Type[p]] /\ pos' = [pos EXCEPT ![p] = Place[p]]
    BY <1>11 DEF Start
  <2>2. UNCHANGED <<moving, delta>>
    BY <1>11 DEF Start
  <2>3. type'[p] = Type[p] /\ \A q \in Proc : q # p => type'[q] = type[q] /\ pos'[q] = pos[q]
    BY <1>1, <2>1
  <2> QED BY <2>2, <2>3, WindowsAssumption DEF InReach
<1>12. CASE Draw \/ Update
  BY <1>12 DEF Draw, Update, InReach
<1>13. CASE UNCHANGED vars
  BY <1>13 DEF vars, InReach
<1> QED BY <1>10, <1>11, <1>12, <1>13 DEF Next

-----------------------------------------------------------------------------
(* Where the buttons are.                                                  *)
LEMMA CornerOf ==
  ASSUME NEW p \in Proc, NEW x \in Int, NEW y \in Int, NEW w \in Int,
         pos[p] = <<x, y>>, SizeOf(p)[1] = w
  PROVE  /\ CloseButton(p) = <<x + w - Half(ButtonSize) - ButtonSize,
                               y - Half(Bar) - Half(ButtonSize)>>
         /\ MinimizeButton(p) = <<x + w - Half(ButtonSize) - ButtonSize - (ButtonSize + 3 * Edge),
                                  y - Half(Bar) - Half(ButtonSize)>>
<1>1. CloseButton(p) = <<x + w + (-Half(ButtonSize) - ButtonSize),
                         y + 0 + (-Half(Bar) - Half(ButtonSize))>>
  BY DEF CloseButton, Plus, Half
<1>2. CloseButton(p) = <<x + w - Half(ButtonSize) - ButtonSize,
                         y - Half(Bar) - Half(ButtonSize)>>
  BY <1>1, Sizes, Numbers
<1> QED BY <1>2, Sizes, Numbers DEF MinimizeButton, Minus

LEMMA InRectOf ==
  ASSUME NEW a, NEW b, NEW c, NEW d, NEW x, NEW y
  PROVE  InRect(<<a, b>>, <<c, d>>, <<x, y>>) <=> a < x /\ x < c /\ b < y /\ y < d
  BY DEF InRect

LEMMA MouseTo ==
  ASSUME NEW x \in Nat, NEW y \in Nat, x <= ScreenW - RightMargin, y <= ScreenH - LowerMargin
  PROVE  <<x, y>> \in Mice
  BY Numbers DEF Mice

(* The corner of the title bar is above the buttons.                       *)
LEMMA TitleReached ==
  ASSUME Inv, InReach, NEW p \in Proc, Type[p] = "WINDOWED"
  PROVE  \E m \in Mice : OverTitle(p, m, TRUE) /\ ~OnButton(CloseButton(p), m)
                         /\ ~OnButton(MinimizeButton(p), m)
<1> DEFINE X == pos[p][1]
           Y == pos[p][2]
           w == SizeOf(p)[1]
           m == <<X + 1, Y - Bar + 1>>
<1>1. type[p] \in {"WINDOWED", "MINIMIZED"}
  BY DEF Inv, TypeOK
<1>2. pos[p] = <<X, Y>> /\ X \in Nat /\ Y \in Nat
  BY Numbers DEF Inv, TypeOK
<1>3. w \in Nat /\ w > 1
  BY <1>1, WidthOf, Numbers, Sizes DEF SizeOf
<1>4. Edge <= X /\ Edge + Bar <= Y /\ Y + Edge <= ScreenH
  BY <1>1, <1>2, Numbers DEF Inv, Home, WindowHome, BarHome
<1>5. X < ScreenW - RightMargin
  <2>1. CASE type[p] = "MINIMIZED"
    BY <2>1 DEF InReach
  <2>2. CASE type[p] = "WINDOWED"
    <3>1. X + Size[p][1] + Edge <= ScreenW
      BY <2>2 DEF Inv, Home, WindowHome
    <3> QED BY <1>2, <3>1, WidthOf, Numbers, Sizes
  <2> QED BY <1>1, <2>1, <2>2
<1> HIDE DEF X, Y, w
<1>6. m \in Mice
  <2>1. X + 1 \in Nat /\ Y - Bar + 1 \in Nat
    BY <1>2, <1>4, Numbers
  <2>2. X + 1 <= ScreenW - RightMargin /\ Y - Bar + 1 <= ScreenH - LowerMargin
    BY <1>2, <1>4, <1>5, Numbers, Sizes
  <2> QED BY <2>1, <2>2, MouseTo
<1>7. Minus(pos[p], FrameOffset) = <<X, Y - Bar>> /\ Plus(pos[p], <<w, 0>>) = <<X + w, Y>>
  BY <1>2, <1>3, Numbers DEF Minus, Plus, FrameOffset
<1>8. InRect(<<X, Y - Bar>>, <<X + w, Y>>, m)
  <2>1. X < X + 1 /\ X + 1 < X + w /\ Y - Bar < Y - Bar + 1 /\ Y - Bar + 1 < Y
    BY <1>2, <1>3, Numbers, Sizes
  <2> QED BY <2>1, InRectOf
<1>9. OverTitle(p, m, TRUE)
  BY <1>1, <1>7, <1>8 DEF OverTitle, w
<1>10. ASSUME NEW x \in Int
       PROVE  ~OnButton(<<x, Y - Half(Bar) - Half(ButtonSize)>>, m)
  <2>1. ~(Y - Half(Bar) - Half(ButtonSize) < Y - Bar + 1)
    BY <1>2, Numbers, Sizes
  <2>2. Plus(<<x, Y - Half(Bar) - Half(ButtonSize)>>, <<ButtonSize, ButtonSize>>)
           = <<x + ButtonSize, Y - Half(Bar) - Half(ButtonSize) + ButtonSize>>
    BY DEF Plus
  <2> QED BY <2>1, <2>2, InRectOf DEF OnButton
<1>11. ~OnButton(CloseButton(p), m) /\ ~OnButton(MinimizeButton(p), m)
  <2>1. X \in Int /\ Y \in Int /\ w \in Int
    BY <1>2, <1>3
  <2>2. /\ X + w - Half(ButtonSize) - ButtonSize \in Int
        /\ X + w - Half(ButtonSize) - ButtonSize - (ButtonSize + 3 * Edge) \in Int
    BY <2>1, Sizes, Numbers
  <2>3. /\ CloseButton(p) = <<X + w - Half(ButtonSize) - ButtonSize,
                              Y - Half(Bar) - Half(ButtonSize)>>
        /\ MinimizeButton(p)
             = <<X + w - Half(ButtonSize) - ButtonSize - (ButtonSize + 3 * Edge),
                 Y - Half(Bar) - Half(ButtonSize)>>
    BY <1>2, <2>1, CornerOf DEF w
  <2> HIDE DEF m
  <2> QED BY <1>10, <2>2, <2>3
<1> HIDE DEF m
<1> QED BY <1>6, <1>9, <1>11

LEMMA CloseReached ==
  ASSUME Inv, NEW p \in Proc, type[p] = "WINDOWED"
  PROVE  \E m \in Mice : OnButton(CloseButton(p), m)
<1> DEFINE X == pos[p][1]
           Y == pos[p][2]
           w == Size[p][1]
           x == X + w - Half(ButtonSize) - ButtonSize
           y == Y - Half(Bar) - Half(ButtonSize)
<1>1. Type[p] = "WINDOWED"
  BY WindowsAssumption DEF Inv, TypeOK
<1>2. pos[p] = <<X, Y>> /\ X \in Nat /\ Y \in Nat /\ w \in Nat /\ SizeOf(p)[1] = w
  BY Numbers DEF Inv, TypeOK, SizeOf
<1>3. Edge <= X /\ X + w + Edge <= ScreenW /\ Edge + Bar <= Y /\ Y + Edge <= ScreenH
  BY <1>2, Numbers DEF Inv, Home, WindowHome
<1>4. ButtonSize + Half(ButtonSize) <= w
  BY <1>1, WidthOf
<1>5. X \in Int /\ Y \in Int /\ w \in Int
  BY <1>2
<1>6. CloseButton(p) = <<x, y>>
  BY <1>2, <1>5, CornerOf
<1> HIDE DEF X, Y, w
<1>7. x + 1 \in Nat /\ y + 1 \in Nat /\ x \in Int /\ y \in Int
  BY <1>2, <1>3, <1>4, Numbers, Sizes
<1>8. x + 1 <= ScreenW - RightMargin /\ y + 1 <= ScreenH - LowerMargin
  BY <1>2, <1>3, Numbers, Sizes
<1> HIDE DEF x, y
<1>9. <<x + 1, y + 1>> \in Mice
  BY <1>7, <1>8, MouseTo
<1>10. OnButton(<<x, y>>, <<x + 1, y + 1>>)
  <2>1. Plus(<<x, y>>, <<ButtonSize, ButtonSize>>) = <<x + ButtonSize, y + ButtonSize>>
    BY DEF Plus
  <2>2. x < x + 1 /\ x + 1 < x + ButtonSize /\ y < y + 1 /\ y + 1 < y + ButtonSize
    BY <1>7, Sizes
  <2> QED BY <2>1, <2>2, InRectOf DEF OnButton
<1> QED BY <1>6, <1>9, <1>10

-----------------------------------------------------------------------------
(***************************************************************************)
(* Within Backbuffer.  What is drawn above the lower edge of the screen,   *)
(* at most a column too wide, ends at the first pixel past it.             *)
(***************************************************************************)
LEMMA LinesEnd ==
  ASSUME NEW x1 \in Int, NEW x2 \in Int, NEW y1 \in Int, NEW y2 \in Int,
         x2 <= ScreenW + 1, y2 <= ScreenH
  PROVE  \A c \in Lines(x1, x2, y1, y2) : c <= PastTheEnd
<1>1. ScreenW \in Nat /\ ScreenH \in Nat
  BY Numbers
<1>2. ASSUME NEW x \in x1 .. x2 - 1, NEW y \in y1 .. y2 - 1 PROVE y * ScreenW + x <= PastTheEnd
  <2>1. \A a, b \in Nat : a * b \in Nat
    OBVIOUS
  <2>2. x \in Int /\ y \in Int /\ x <= ScreenW /\ ScreenH - y - 1 \in Nat
    BY <1>1
  <2>3. (ScreenH - y - 1) * ScreenW \in Nat
    BY <1>1, <2>1, <2>2
  <2>4. (ScreenH - y - 1) * ScreenW = ScreenW * ScreenH - y * ScreenW - ScreenW
    BY <1>1, <2>2
  <2>5. ScreenW * ScreenH \in Int /\ y * ScreenW \in Int
    BY <1>1, <2>2
  <2> HIDE DEF PastTheEnd
  <2>6. y * ScreenW + x <= ScreenW * ScreenH
    BY <1>1, <2>2, <2>3, <2>4, <2>5
  <2> QED BY <2>6 DEF PastTheEnd
<1> QED BY <1>2 DEF Lines

LEMMA PairMin ==
  ASSUME NEW a \in Int, NEW b \in Int
  PROVE  Min({a, b}) \in Int /\ Min({a, b}) <= a /\ Min({a, b}) <= b
<1>1. \E x \in {a, b} : \A y \in {a, b} : x <= y
  BY SMT
<1>2. Min({a, b}) \in {a, b} /\ \A y \in {a, b} : Min({a, b}) <= y
  BY <1>1, Zenon DEF Min
<1> QED BY <1>2

LEMMA PairMax ==
  ASSUME NEW a \in Int, NEW b \in Int
  PROVE  Max({a, b}) \in Int
<1>1. \E x \in {a, b} : \A y \in {a, b} : x >= y
  BY SMT
<1>2. Max({a, b}) \in {a, b}
  BY <1>1, Zenon DEF Max
<1> QED BY <1>2

LEMMA PutPixelsEnd ==
  ASSUME NEW x1 \in Int, NEW x2 \in Int, NEW y1 \in Int, NEW y2 \in Int, y2 <= ScreenH
  PROVE  \A c \in PutPixels(x1, x2, y1, y2) : c <= PastTheEnd
<1>1. /\ Max({x1, 0}) \in Int /\ Max({y1, 0}) \in Int
      /\ Min({x2, ScreenW + 1}) \in Int /\ Min({x2, ScreenW + 1}) <= ScreenW + 1
      /\ Min({y2, ScreenH + 1}) \in Int /\ Min({y2, ScreenH + 1}) <= ScreenH
  <2>1. 0 \in Int /\ ScreenW + 1 \in Int /\ ScreenH + 1 \in Int /\ ScreenH \in Int
    BY Numbers
  <2>2. /\ Max({x1, 0}) \in Int /\ Max({y1, 0}) \in Int
        /\ Min({x2, ScreenW + 1}) \in Int /\ Min({x2, ScreenW + 1}) <= ScreenW + 1
        /\ Min({y2, ScreenH + 1}) \in Int /\ Min({y2, ScreenH + 1}) <= y2
    BY <2>1, PairMin, PairMax
  <2> QED BY <2>1, <2>2
<1> HIDE DEF PastTheEnd
<1> QED BY <1>1, LinesEnd DEF PutPixels

LEMMA RectEnds ==
  ASSUME NEW x1 \in Int, NEW x2 \in Int, NEW y1 \in Int, NEW y2 \in Int, y2 + Edge <= ScreenH
  PROVE  /\ \A c \in DrawRect(<<x1, y1>>, <<x2, y2>>) : c <= PastTheEnd
         /\ y1 <= y2 => \A c \in DrawRectEdge(<<x1, y1>>, <<x2, y2>>) : c <= PastTheEnd
<1>1. Edge \in Nat /\ ScreenW \in Nat /\ ScreenH \in Nat
  BY Numbers
<1>2. ASSUME NEW c \in DrawRect(<<x1, y1>>, <<x2, y2>>) PROVE c <= PastTheEnd
  <2>1. OnScreen(<<x2, y2>>) /\ c \in Lines(x1, x2, y1, y2)
    BY <1>2 DEF DrawRect
  <2>2. x2 <= ScreenW + 1 /\ y2 <= ScreenH
    BY <1>1, <2>1 DEF OnScreen
  <2> HIDE DEF PastTheEnd
  <2> QED BY <2>1, <2>2, LinesEnd
<1>3. ASSUME y1 <= y2, NEW c \in DrawRectEdge(<<x1, y1>>, <<x2, y2>>) PROVE c <= PastTheEnd
  <2>1. /\ x1 - Edge \in Int /\ x2 + Edge \in Int /\ y1 - Edge \in Int /\ y2 + Edge \in Int
        /\ y1 <= ScreenH
    BY <1>1, <1>3
  <2>2. \/ c \in PutPixels(x1 - Edge, x2 + Edge, y1 - Edge, y1)
        \/ c \in PutPixels(x1 - Edge, x2 + Edge, y2, y2 + Edge)
        \/ c \in PutPixels(x1 - Edge, x1, y1 - Edge, y2 + Edge)
        \/ c \in PutPixels(x2, x2 + Edge, y1 - Edge, y2 + Edge)
    BY <1>3 DEF DrawRectEdge
  <2> QED BY <2>1, <2>2, PutPixelsEnd, Zenon
<1> QED BY <1>2, <1>3

LEMMA ButtonEnd ==
  ASSUME NEW x \in Int, NEW y \in Int, y + ButtonSize + Edge <= ScreenH
  PROVE  \A c \in Button(<<x, y>>) : c <= PastTheEnd
<1>1. Plus(<<x, y>>, <<ButtonSize, ButtonSize>>) = <<x + ButtonSize, y + ButtonSize>>
  BY DEF Plus
<1>2. x + ButtonSize \in Int /\ y + ButtonSize \in Int /\ y <= y + ButtonSize
  BY Sizes
<1>3. /\ \A c \in DrawRect(<<x, y>>, <<x + ButtonSize, y + ButtonSize>>) : c <= PastTheEnd
      /\ \A c \in DrawRectEdge(<<x, y>>, <<x + ButtonSize, y + ButtonSize>>) : c <= PastTheEnd
  BY <1>2, RectEnds, Zenon
<1> QED BY <1>1, <1>3, Zenon DEF Button

(* The characters of a text that fits are on one line.                     *)
LEMMA GlyphsInLine ==
  ASSUME NEW x \in Int, NEW y \in Int, NEW n \in Nat, x + (n + 1) * GlyphW <= ScreenW
  PROVE  \A i \in 1 .. n : GlyphPos(<<x, y>>, n)[i] = <<x + (i - 1) * GlyphW, y>>
<1> DEFINE D == 0 .. n - 1
           step(f) == [i \in D |-> IF i = 0 THEN NextGlyph(<<x, y>>)
                                            ELSE NextGlyph(Plus(f[i - 1], <<GlyphW, 0>>))]
           line == [i \in D |-> <<x + i * GlyphW, y>>]
           at == CHOOSE f : f = step(f)
<1>1. GlyphW \in Nat /\ GlyphW > 0 /\ ScreenW \in Nat
  BY Sizes, Numbers
<1>2. \A a, b \in Nat : a * b \in Nat
  OBVIOUS
<1>3. ASSUME NEW i \in D PROVE NextGlyph(<<x + i * GlyphW, y>>) = <<x + i * GlyphW, y>>
  <2>1. (n - 1 - i) * GlyphW \in Nat
    BY <1>1, <1>2
  <2>2. (n - 1 - i) * GlyphW = (n + 1) * GlyphW - 2 * GlyphW - i * GlyphW
    BY <1>1
  <2>3. i * GlyphW \in Int /\ (n + 1) * GlyphW \in Int /\ 2 * GlyphW \in Int
    BY <1>1
  <2>4. ~(x + i * GlyphW + 2 * GlyphW > ScreenW)
    BY <1>1, <2>1, <2>2, <2>3
  <2> QED BY <2>4 DEF NextGlyph
<1>4. ASSUME NEW i \in D, i # 0
      PROVE  i - 1 \in D /\ Plus(line[i - 1], <<GlyphW, 0>>) = <<x + i * GlyphW, y>>
  <2>1. i - 1 \in D
    BY <1>4
  <2>2. line[i - 1] = <<x + (i - 1) * GlyphW, y>>
    BY <2>1
  <2>3. x + (i - 1) * GlyphW + GlyphW = x + i * GlyphW
    BY <1>1
  <2>4. Plus(line[i - 1], <<GlyphW, 0>>) = <<x + (i - 1) * GlyphW + GlyphW, y + 0>>
    BY <2>2 DEF Plus
  <2> QED BY <2>1, <2>3, <2>4
<1>5. line = step(line)
  <2>1. ASSUME NEW i \in D PROVE line[i] = step(line)[i]
    <3>1. line[i] = <<x + i * GlyphW, y>>
      OBVIOUS
    <3>2. CASE i = 0
      <4>1. x + i * GlyphW = x
        BY <1>1, <3>2
      <4> QED BY <1>3, <3>1, <3>2, <4>1
    <3>3. CASE i # 0
      BY <1>3, <1>4, <3>1, <3>3
    <3> QED BY <3>2, <3>3
  <2> QED BY <2>1
<1>6. at = step(at)
  <2> HIDE DEF step, line
  <2> QED BY <1>5, Zenon
<1>7. \A i \in D : at[i] = line[i]
  <2> SUFFICES ASSUME \E i \in D : at[i] # line[i] PROVE FALSE
    OBVIOUS
  <2> DEFINE T == {i \in D : at[i] # line[i]}
  <2>1. T \in SUBSET Nat /\ T # {}
    <3> HIDE DEF at, step, line
    <3> QED BY SMT
  <2> HIDE DEF T
  <2>2. PICK k \in T : \A j \in T : <<j, k>> \notin OpToRel(<, Nat)
    BY <2>1, NatLessThanWellFounded, WFMin, Zenon
  <2>3. \A j \in T : ~(j < k)
    BY <2>1, <2>2, Zenon DEF OpToRel
  <2>4. k \in D /\ at[k] # line[k]
    BY DEF T
  <2>5. at[k] = step(at)[k]
    BY <1>6
  <2>6. CASE k = 0
    <3>1. at[k] = NextGlyph(<<x, y>>) /\ line[k] = NextGlyph(<<x, y>>)
      <4>1. step(line)[k] = NextGlyph(<<x, y>>) /\ step(at)[k] = NextGlyph(<<x, y>>)
        BY <2>4, <2>6
      <4> QED BY <1>5, <2>5, <4>1
    <3> QED BY <2>4, <3>1
  <2>7. CASE k # 0
    <3>1. k - 1 \in D /\ k - 1 < k
      BY <2>4, <2>7
    <3>2. at[k - 1] = line[k - 1]
      BY <2>3, <3>1 DEF T
    <3>3. /\ step(at)[k] = NextGlyph(Plus(at[k - 1], <<GlyphW, 0>>))
          /\ step(line)[k] = NextGlyph(Plus(line[k - 1], <<GlyphW, 0>>))
      BY <2>4, <2>7
    <3> HIDE DEF at, step, line
    <3> QED BY <1>5, <2>4, <2>5, <3>2, <3>3
  <2> QED BY <2>6, <2>7
<1>8. GlyphPos(<<x, y>>, n) = [i \in 1 .. n |-> at[i - 1]]
  BY Zenon DEF GlyphPos
<1> HIDE DEF at
<1>9. ASSUME NEW i \in 1 .. n PROVE GlyphPos(<<x, y>>, n)[i] = <<x + (i - 1) * GlyphW, y>>
  <2>1. i - 1 \in D
    OBVIOUS
  <2>2. GlyphPos(<<x, y>>, n)[i] = line[i - 1]
    BY <1>7, <1>8, <2>1
  <2> QED BY <2>1, <2>2
<1> QED BY <1>9

(* And so is the title of what does not hang over the right edge.          *)
LEMMA TitleEnd ==
  ASSUME Inv, NEW p \in Proc, type[p] \in {"WINDOWED", "MINIMIZED"}, ~Hangs(p)
  PROVE  \A c \in PrintTitle(p) : c <= PastTheEnd
<1> DEFINE X == pos[p][1]
           Y == pos[p][2]
           w == SizeOf(p)[1]
           n == TitleLength[p]
           x == X + 2 * Edge
           y == Y - Half(Bar) - Half(GlyphH)
<1>1. Type[p] = "WINDOWED"
  BY WindowsAssumption DEF Inv, TypeOK
<1>2. pos[p] = <<X, Y>> /\ X \in Nat /\ Y \in Nat /\ w \in Nat /\ n \in Nat
  BY Numbers, ReachAssumption DEF Inv, TypeOK, SizeOf
<1>3. X + w <= ScreenW /\ Y + Edge <= ScreenH
  BY <1>2, Numbers DEF Inv, Home, WindowHome, BarHome, Hangs, SizeOf
<1>4. 2 * Edge + (n + 1) * GlyphW <= w
  BY <1>1, ReachAssumption DEF SizeOf
<1>5. TextAt(p) = <<X + 2 * Edge, Y + (-Half(Bar) - Half(GlyphH))>>
  BY <1>2 DEF TextAt, Plus, Half
<1> HIDE DEF X, Y, w, n
<1>6. x \in Int /\ y \in Int /\ x + (n + 1) * GlyphW <= ScreenW /\ TextAt(p) = <<x, y>>
  <2>1. (n + 1) * GlyphW \in Int /\ 2 * Edge \in Int
    BY <1>2, Sizes, Numbers
  <2>2. Y + (-Half(Bar) - Half(GlyphH)) = Y - Half(Bar) - Half(GlyphH)
    BY <1>2, Sizes
  <2>3. x \in Int /\ y \in Int /\ TextAt(p) = <<x, y>>
    BY <1>2, <1>5, <2>2, Sizes, Numbers
  <2>4. x + (n + 1) * GlyphW <= ScreenW
    BY <1>2, <1>3, <1>4, <2>1, Sizes, Numbers
  <2> QED BY <2>3, <2>4
<1>7. y + GlyphH <= ScreenH
  BY <1>2, <1>3, Sizes, Numbers
<1> HIDE DEF x, y
<1>8. \A i \in 1 .. n : GlyphPos(TextAt(p), n)[i] = <<x + (i - 1) * GlyphW, y>>
  BY <1>2, <1>6, GlyphsInLine
<1>9. ASSUME NEW c \in PrintTitle(p) PROVE c <= PastTheEnd
  <2>1. PICK at \in ToSet(GlyphPos(TextAt(p), n)) :
               c \in PutPixels(at[1], at[1] + GlyphW, at[2], at[2] + GlyphH)
    BY <1>9 DEF PrintTitle, n
  <2>2. DOMAIN GlyphPos(TextAt(p), n) = 1 .. n
    BY Zenon DEF GlyphPos
  <2>3. PICK i \in 1 .. n : at = GlyphPos(TextAt(p), n)[i]
    BY <2>2, Zenon DEF ToSet
  <2>4. at[1] = x + (i - 1) * GlyphW /\ at[2] = y
    BY <1>8, <2>3
  <2>5. at[1] \in Int /\ at[1] + GlyphW \in Int /\ at[2] \in Int /\ at[2] + GlyphH \in Int
        /\ at[2] + GlyphH <= ScreenH
    BY <1>2, <1>6, <1>7, <2>4, Sizes
  <2> QED BY <2>1, <2>5, PutPixelsEnd
<1> QED BY <1>9

LEMMA EdgesEnd ==
  ASSUME Inv, NEW p \in Proc
  PROVE  \A c \in Rendered(p) : c > PastTheEnd => Hangs(p) /\ c \in PrintTitle(p)
<1> DEFINE X == pos[p][1]
           Y == pos[p][2]
           w == SizeOf(p)[1]
           h == SizeOf(p)[2]
<1>1. pos[p] = <<X, Y>> /\ X \in Nat /\ Y \in Nat /\ w \in Nat /\ h \in Nat /\ SizeOf(p) = <<w, h>>
  BY Numbers DEF Inv, TypeOK, SizeOf
<1>2. ASSUME NEW c \in Frame(p), c \notin PrintTitle(p) PROVE c <= PastTheEnd
  <2>1. /\ type[p] \in {"WINDOWED", "MINIMIZED"}
        /\ \/ c \in DrawRectEdge(Minus(pos[p], FrameOffset), Plus(pos[p], SizeOf(p)))
           \/ c \in DrawRect(Minus(pos[p], FrameOffset), Plus(pos[p], <<w, 0>>))
           \/ c \in Button(CloseButton(p)) \/ c \in Button(MinimizeButton(p))
    BY <1>2 DEF Frame
  <2>2. Y + h + Edge <= ScreenH
    BY <1>1, <2>1, Numbers DEF Inv, Home, WindowHome, BarHome, SizeOf
  <2>3. /\ Minus(pos[p], FrameOffset) = <<X, Y - Bar>> /\ Plus(pos[p], SizeOf(p)) = <<X + w, Y + h>>
        /\ Plus(pos[p], <<w, 0>>) = <<X + w, Y>>
    BY <1>1, Numbers DEF Minus, Plus, FrameOffset
  <2> DEFINE x1 == X + w - Half(ButtonSize) - ButtonSize
             x2 == X + w - Half(ButtonSize) - ButtonSize - (ButtonSize + 3 * Edge)
             y == Y - Half(Bar) - Half(ButtonSize)
  <2>4. CloseButton(p) = <<x1, y>> /\ MinimizeButton(p) = <<x2, y>>
    <3>1. X \in Int /\ Y \in Int /\ w \in Int
      BY <1>1
    <3> QED BY <1>1, <3>1, CornerOf
  <2> HIDE DEF X, Y, w, h
  <2>5. x1 \in Int /\ x2 \in Int /\ y \in Int /\ y + ButtonSize + Edge <= ScreenH
    BY <1>1, <2>2, Sizes, Numbers
  <2> HIDE DEF x1, x2, y
  <2>6. /\ X + w \in Int /\ Y - Bar \in Int /\ Y + h \in Int /\ Y - Bar <= Y + h
        /\ X \in Int /\ Y \in Int /\ Y + Edge <= ScreenH
    BY <1>1, <2>2, Numbers
  <2>7. /\ \A d \in Button(<<x1, y>>) : d <= PastTheEnd
        /\ \A d \in Button(<<x2, y>>) : d <= PastTheEnd
    BY <2>5, ButtonEnd
  <2>8. \A d \in DrawRectEdge(<<X, Y - Bar>>, <<X + w, Y + h>>) : d <= PastTheEnd
    BY <2>2, <2>6, RectEnds, Zenon
  <2>9. \A d \in DrawRect(<<X, Y - Bar>>, <<X + w, Y>>) : d <= PastTheEnd
    BY <2>6, RectEnds, Zenon
  <2>10. \/ c \in DrawRectEdge(<<X, Y - Bar>>, <<X + w, Y + h>>)
         \/ c \in DrawRect(<<X, Y - Bar>>, <<X + w, Y>>)
         \/ c \in Button(<<x1, y>>) \/ c \in Button(<<x2, y>>)
    BY <2>1, <2>3, <2>4, Zenon
  <2> QED BY <2>7, <2>8, <2>9, <2>10, Zenon
<1>3. ASSUME NEW c \in Content(p) PROVE c <= PastTheEnd
  <2>1. Fits(p) /\ c \in Lines(X, X + Size[p][1] + 1, Y, Y + Size[p][2])
    BY <1>3 DEF Content
  <2>2. Size[p][1] \in Nat /\ Size[p][2] \in Nat /\ ScreenW \in Nat /\ ScreenH \in Nat
    BY Numbers
  <2>3. X + Size[p][1] <= ScreenW /\ Y + Size[p][2] <= ScreenH
    BY <2>1 DEF Fits
  <2> HIDE DEF X, Y
  <2>4. /\ X \in Int /\ X + Size[p][1] + 1 \in Int /\ Y \in Int /\ Y + Size[p][2] \in Int
        /\ X + Size[p][1] + 1 <= ScreenW + 1
    BY <1>1, <2>2, <2>3
  <2> QED BY <2>1, <2>3, <2>4, LinesEnd, Zenon
<1>4. ASSUME NEW c \in PrintTitle(p), c \in Frame(p), ~Hangs(p) PROVE c <= PastTheEnd
  <2>1. type[p] \in {"WINDOWED", "MINIMIZED"}
    BY <1>4 DEF Frame
  <2> QED BY <1>4, <2>1, TitleEnd
<1>5. \A c \in Rendered(p) : c \in Int
  <2>1. \A x1, x2, y1, y2 : \A c \in Lines(x1, x2, y1, y2) : c \in Int
    BY Numbers DEF Lines
  <2>2. \A x1, x2, y1, y2 : \A c \in PutPixels(x1, x2, y1, y2) : c \in Int
    BY <2>1, Zenon DEF PutPixels
  <2>3. \A a, b : \A c \in DrawRect(a, b) : c \in Int
    BY <2>1 DEF DrawRect
  <2>4. \A a, b : \A c \in DrawRectEdge(a, b) : c \in Int
    BY <2>2, Zenon DEF DrawRectEdge
  <2>5. \A a : \A c \in Button(a) : c \in Int
    BY <2>3, <2>4, Zenon DEF Button
  <2>6. \A c \in PrintTitle(p) : c \in Int
    BY <2>2 DEF PrintTitle
  <2>7. \A c \in Frame(p) : c \in Int
    <3> SUFFICES ASSUME NEW c \in Frame(p) PROVE c \in Int
      OBVIOUS
    <3>1. \/ c \in DrawRectEdge(Minus(pos[p], FrameOffset), Plus(pos[p], SizeOf(p)))
          \/ c \in DrawRect(Minus(pos[p], FrameOffset), Plus(pos[p], <<SizeOf(p)[1], 0>>))
          \/ c \in Button(CloseButton(p)) \/ c \in Button(MinimizeButton(p)) \/ c \in PrintTitle(p)
      BY DEF Frame
    <3> QED BY <2>3, <2>4, <2>5, <2>6, <3>1, Zenon
  <2>8. \A c \in Content(p) : c \in Int
    BY <2>1 DEF Content
  <2> QED BY <2>7, <2>8 DEF Rendered
<1>6. PastTheEnd \in Int
  BY Numbers DEF PastTheEnd
<1> SUFFICES ASSUME NEW c \in Rendered(p), c > PastTheEnd PROVE Hangs(p) /\ c \in PrintTitle(p)
  OBVIOUS
<1>7. ~(c <= PastTheEnd)
  BY <1>5, <1>6
<1>8. c \in Frame(p) /\ c \in PrintTitle(p)
  BY <1>2, <1>3, <1>7 DEF Rendered
<1> QED BY <1>4, <1>7, <1>8

(* Wherever a window is dragged and minimized, the mouse can take it back  *)
(* and close it, and what is rendered past the end of Backbuffer is one    *)
(* pixel or the title of a minimized window over the right edge.           *)
THEOREM ReachCorrect == Spec => []StaysInReach
<1>1. Inv /\ InReach => StaysInReach
  <2> SUFFICES ASSUME Inv, InReach PROVE Reachable /\ OnePast
    BY DEF StaysInReach
  <2>1. \A p \in ToSet(list) : p \in Proc
    BY DEF Inv, TypeOK, ToSet
  <2>2. Reachable
    BY <2>1, TitleReached, CloseReached DEF Reachable
  <2>3. OnePast
    BY <2>1, EdgesEnd, Zenon DEF OnePast
  <2> QED BY <2>2, <2>3
<1> QED BY <1>1, InvKept, ReachInit, ReachKept, PTL DEF Spec
=============================================================================
