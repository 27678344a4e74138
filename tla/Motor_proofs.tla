---------------------------- MODULE Motor_proofs ----------------------------
(* Theorems about the driver fiber, for any clock and any duration of its    *)
(* sleep                                                                     *)
EXTENDS Motor, TLAPS

(* Where the preload registers are at rest, and where only In1 is written *)
AtRest == pc \in {"off1", "ccr1"} \/ Asleep
Halfway == pc \in {"on1", "off2", "ccr2"}
Written == pc \in {"on2", "step"}

MotorTypeOK ==
    /\ AtRest \/ Halfway \/ Written
    /\ steper \in BOOLEAN /\ updated \in BOOLEAN
    /\ ccr \in [In -> BOOLEAN]
    /\ shadow \in [In -> BOOLEAN]

(* What a swap has written.  At rest steper is one ahead of the registers, *)
(* which are both zero before the first swap.                              *)
PreloadsFollow ==
    /\ AtRest => \A i \in In : ccr[i] => ~half(i)
    /\ Halfway => (ccr["In1"] <=> half("In1")) /\ (ccr["In2"] => ~half("In2"))
    /\ Written => \A i \in In : ccr[i] <=> half(i)

(* The timer compares with a pair of values at rest from the update event of *)
(* the sleep until that of the swap                                         *)
OneDrives ==
    pc = "off1" \/ (Asleep /\ updated) \/ (Swapping /\ ~updated) => ~Both

IInv == MotorTypeOK /\ PreloadsFollow /\ OneDrives

LEMMA InitInv == Init => IInv
BY DEF Init, ClockInit, IInv, MotorTypeOK, PreloadsFollow, OneDrives, AtRest, Halfway,
       Written, Asleep, InNow, Swapping, Both, In, half

(* At rest at most one register holds a duty *)
LEMMA RestIsOne == MotorTypeOK /\ PreloadsFollow /\ ~Halfway => \E i \in In : ~ccr[i]
BY DEF MotorTypeOK, PreloadsFollow, AtRest, Halfway, Written, In, half

LEMMA NextInv == IInv /\ [Next]_vars => IInv'
<1> SUFFICES ASSUME IInv, [Next]_vars PROVE IInv'
  OBVIOUS
<1> USE DEF IInv, MotorTypeOK, AtRest, Halfway, Written, Asleep, InNow, Swapping, In
<1>1. CASE UNCHANGED vars
  BY <1>1 DEF vars, clockVars, timerVars, PreloadsFollow, OneDrives, Both, half
<1>2. CASE Fiber
  <2>1. CASE Swap
    <3>1. ASSUME NEW i \in In, NEW p, NEW q, Disable(i, p, q)
          PROVE  pc = p /\ pc' = q /\ UNCHANGED <<steper, ccr, shadow, updated>>
      BY <3>1 DEF Disable, Statement
    <3>2. ASSUME NEW i \in In, NEW p, NEW q, Enable(i, p, q)
          PROVE  pc = p /\ pc' = q /\ UNCHANGED <<steper, ccr, shadow, updated>>
      BY <3>2 DEF Enable, Statement
    <3>3. ASSUME NEW i \in In, NEW p, NEW q, SetCompareValue(i, p, q)
          PROVE  /\ pc = p /\ pc' = q /\ UNCHANGED <<steper, shadow, updated>>
                 /\ ccr' = [ccr EXCEPT ![i] = half(i)]
      BY <3>3 DEF SetCompareValue, Statement
    <3>4. CASE Disable("In1", "off1", "ccr1")
      <4>1. MotorTypeOK'
        BY <3>1, <3>4 DEF half
      <4>2. PreloadsFollow'
        BY <3>1, <3>4 DEF PreloadsFollow, half
      <4>3. OneDrives'
        BY <3>1, <3>4 DEF OneDrives, Both
      <4> QED  BY <4>1, <4>2, <4>3
    <3>5. CASE SetCompareValue("In1", "ccr1", "on1")
      <4>1. MotorTypeOK'
        BY <3>3, <3>5 DEF half
      <4>2. PreloadsFollow'
        BY <3>3, <3>5 DEF PreloadsFollow, half
      <4>3. OneDrives'
        BY <3>3, <3>5 DEF OneDrives, Both
      <4> QED  BY <4>1, <4>2, <4>3
    <3>6. CASE Enable("In1", "on1", "off2")
      <4>1. MotorTypeOK'
        BY <3>2, <3>6 DEF half
      <4>2. PreloadsFollow'
        BY <3>2, <3>6 DEF PreloadsFollow, half
      <4>3. OneDrives'
        BY <3>2, <3>6 DEF OneDrives, Both
      <4> QED  BY <4>1, <4>2, <4>3
    <3>7. CASE Disable("In2", "off2", "ccr2")
      <4>1. MotorTypeOK'
        BY <3>1, <3>7 DEF half
      <4>2. PreloadsFollow'
        BY <3>1, <3>7 DEF PreloadsFollow, half
      <4>3. OneDrives'
        BY <3>1, <3>7 DEF OneDrives, Both
      <4> QED  BY <4>1, <4>2, <4>3
    <3>8. CASE SetCompareValue("In2", "ccr2", "on2")
      <4>1. MotorTypeOK'
        BY <3>3, <3>8 DEF half
      <4>2. PreloadsFollow'
        <5>1. pc = "ccr2" /\ pc' = "on2" /\ steper' = steper
          BY <3>3, <3>8
        <5>2. ccr'["In1"] = ccr["In1"] /\ ccr'["In2"] = half("In2")
          BY <3>3, <3>8
        <5>3. ccr["In1"] <=> half("In1")
          BY <5>1 DEF PreloadsFollow
        <5>4. \A i \in In : ccr'[i] <=> half(i)'
          BY <5>1, <5>2, <5>3 DEF half
        <5> QED  BY <5>1, <5>4 DEF PreloadsFollow
      <4>3. OneDrives'
        BY <3>3, <3>8 DEF OneDrives, Both
      <4> QED  BY <4>1, <4>2, <4>3
    <3>9. CASE Enable("In2", "on2", "step")
      <4>1. MotorTypeOK'
        BY <3>2, <3>9 DEF half
      <4>2. PreloadsFollow'
        BY <3>2, <3>9 DEF PreloadsFollow, half
      <4>3. OneDrives'
        BY <3>2, <3>9 DEF OneDrives, Both
      <4> QED  BY <4>1, <4>2, <4>3
    <3> QED  BY <2>1, <3>4, <3>5, <3>6, <3>7, <3>8, <3>9 DEF Swap
  <2>2. CASE NextStep
    BY <2>2 DEF NextStep, CallSleep, Statement, PreloadsFollow, OneDrives, Both, half
  <2>3. CASE Awake
    <3>1. pc = "check" /\ pc' = "off1" /\ updated /\ UNCHANGED <<steper, ccr, shadow>>
      BY <2>3 DEF Awake, Wakes, Reads, Statement
    <3>2. updated' = FALSE
      BY <2>3 DEF Awake
    <3>3. PreloadsFollow'
      BY <3>1 DEF PreloadsFollow, half
    <3>4. OneDrives'
      BY <3>1, <3>2 DEF OneDrives, Both
    <3> QED  BY <3>1, <3>2, <3>3, <3>4
  <2>4. CASE Sleeping /\ UNCHANGED <<steper, timerVars>>
    <3>1. Asleep /\ Asleep'
      BY <2>4 DEF Sleeping, ClearFlag, ReadCounter, ReadTicks, ReadAgain, Started, Resumed,
                  SleepsOn, Reads, Statement
    <3> QED  BY <2>4, <3>1 DEF timerVars, PreloadsFollow, OneDrives, Both, half
  <2> QED  BY <1>2, <2>1, <2>2, <2>3, <2>4 DEF Fiber
<1>3. CASE (Count \/ SysTick_Handler) /\ UNCHANGED <<steper, timerVars>>
  BY <1>3 DEF Count, SysTick_Handler, timerVars, PreloadsFollow, OneDrives, Both, half
<1>4. CASE Update
  <2>1. UNCHANGED <<pc, steper, ccr>> /\ shadow' = ccr /\ updated' = TRUE
    BY <1>4 DEF Update, clockVars
  <2>2. PreloadsFollow'
    BY <2>1 DEF PreloadsFollow, half
  <2>3. ~Halfway => ~Both'
    BY <2>1, RestIsOne DEF Both
  <2> QED  BY <2>1, <2>2, <2>3 DEF OneDrives, Both
<1> QED  BY <1>1, <1>2, <1>3, <1>4 DEF Next

(* An update event that falls between the two calls of a swap drives both   *)
(* inputs until the next event and never longer, however the readings of the *)
(* clock, the tick interrupt and the timer fall.                             *)
THEOREM OverlapEndsSoon == Spec => OverlapIsShort
<1>1. IInv /\ Update /\ Both => ~Both'
  <2> SUFFICES ASSUME IInv, Update, Both PROVE ~Both'
    OBVIOUS
  <2>1. ~Halfway => ~Both'
    BY RestIsOne DEF IInv, Update, Both
  <2>2. CASE Halfway
    BY <2>2 DEF IInv, OneDrives, Update, Swapping, Halfway
  <2> QED  BY <2>1, <2>2
<1>2. IInv /\ [Next]_vars => [Update /\ Both => ~Both']_vars
  BY <1>1
<1> QED  BY <1>2, InitInv, NextInv, PTL DEF Spec, OverlapIsShort

-----------------------------------------------------------------------------
(* Arithmetic with remainders, whatever they are taken by *)

LEMMA DivMod ==
    ASSUME NEW m \in Nat \ {0}, NEW x \in Int
    PROVE  x \div m \in Int /\ x % m \in 0..m - 1 /\ x = m * (x \div m) + (x % m)
OBVIOUS

LEMMA NoMultipleBetween ==
    ASSUME NEW m \in Nat \ {0}, NEW k \in Int, -m < m * k, m * k < m
    PROVE  k = 0
<1>1. k >= 1 => m * k >= m
  OBVIOUS
<1>2. k <= -1 => m * k <= -m
  OBVIOUS
<1> QED  BY <1>1, <1>2

LEMMA ModUnique ==
    ASSUME NEW m \in Nat \ {0}, NEW q \in Int, NEW r \in 0..m - 1, NEW x \in Int, x = m * q + r
    PROVE  x % m = r /\ x \div m = q
<1> DEFINE d == x \div m
           e == x % m
<1>1. d \in Int /\ e \in 0..m - 1 /\ x = m * d + e
  BY DivMod
<1> HIDE DEF d, e
<1>2. m * (q - d) = e - r
  BY <1>1
<1>3. q - d = 0
  BY <1>1, <1>2, NoMultipleBetween
<1> QED  BY <1>1, <1>3 DEF d, e

LEMMA SameMod ==
    ASSUME NEW m \in Nat \ {0}, NEW x \in Int, NEW y \in Int, NEW k \in Int, x = y + m * k
    PROVE  x % m = y % m
<1> DEFINE d == y \div m
           e == y % m
<1>1. d \in Int /\ e \in 0..m - 1 /\ y = m * d + e
  BY DivMod
<1> HIDE DEF d, e
<1>2. x = m * (d + k) + e
  BY <1>1
<1>3. x % m = e
  BY <1>1, <1>2, ModUnique
<1> QED  BY <1>3 DEF e

LEMMA ModAdds ==
    ASSUME NEW m \in Nat \ {0}, NEW x \in Int, NEW y \in Int
    PROVE  ((x % m) + y) % m = (x + y) % m
<1> DEFINE d == x \div m
           e == x % m
<1>1. d \in Int /\ e \in Int /\ x = m * d + e
  BY DivMod
<1> HIDE DEF d, e
<1>2. ASSUME NEW a \in Int, NEW b \in Int, a = x + y, b = e + y PROVE b % m = a % m
  <2>1. a = b + m * d
    BY <1>1, <1>2
  <2> QED  BY <1>1, <2>1, SameMod
<1>3. (e + y) % m = (x + y) % m
  BY <1>1, <1>2
<1> QED  BY <1>3 DEF e

LEMMA DivMonotone ==
    ASSUME NEW m \in Nat \ {0}, NEW x \in Int, NEW y \in Int, x <= y
    PROVE  x \div m <= y \div m
<1> DEFINE d == x \div m
           e == x % m
           g == y \div m
           h == y % m
<1>1. d \in Int /\ e \in 0..m - 1 /\ x = m * d + e
  BY DivMod
<1>2. g \in Int /\ h \in 0..m - 1 /\ y = m * g + h
  BY DivMod
<1> HIDE DEF d, e, g, h
<1>3. m * (g - d) > -m
  BY <1>1, <1>2
<1>4. g - d > -1
  <2>1. g - d <= -1 => m * (g - d) <= -m
    BY <1>1, <1>2
  <2> QED  BY <1>1, <1>2, <1>3, <2>1
<1>5. d <= g
  BY <1>1, <1>2, <1>4
<1> QED  BY <1>5 DEF d, g

(* now() puts whole units together; that is the number of parts cut off. *)
LEMMA UnitsOfCounts ==
    ASSUME NEW c \in Nat \ {0}, NEW w \in Nat \ {0}, NEW u \in Int, NEW y \in Int
    PROVE  (u + (y \div c)) % w = ((u * c + y) % (w * c)) \div c
<1> DEFINE q == y \div c
           r == y % c
<1>1. q \in Int /\ r \in 0..c - 1 /\ y = c * q + r
  BY DivMod
<1> HIDE DEF q, r
<1> DEFINE a == u + q
           k == a \div w
           b == a % w
<1>2. a \in Int
  BY <1>1
<1> HIDE DEF a
<1>3. k \in Int /\ b \in 0..w - 1 /\ a = w * k + b
  BY <1>2, DivMod
<1> HIDE DEF k, b
<1> DEFINE m == w * c
           low == c * b + r
<1>4. m \in Nat \ {0}
  <2>1. w * c \in Nat /\ w * c >= 1
    <3>1. w * c >= c
      OBVIOUS
    <3> QED  BY <3>1
  <2> QED  BY <2>1
<1>5. low \in 0..m - 1
  <2>1. c * b >= 0 /\ c * b <= c * (w - 1)
    BY <1>3
  <2>2. c * (w - 1) = m - c
    OBVIOUS
  <2> HIDE DEF m
  <2> QED  BY <1>1, <1>3, <1>4, <2>1, <2>2
<1>6. u * c + y = m * k + low
  <2>1. u * c + y = c * a + r
    BY <1>1 DEF a
  <2>2. c * a = c * (w * k) + c * b
    BY <1>2, <1>3
  <2>3. c * (w * k) = m * k
    BY <1>3
  <2> QED  BY <1>1, <1>2, <1>3, <2>1, <2>2, <2>3
<1>7. (u * c + y) % m = low
  <2>1. ASSUME NEW x \in Int, x = u * c + y PROVE x % m = low
    <3>1. x = m * k + low
      BY <1>6, <2>1
    <3> HIDE DEF m, low
    <3> QED  BY <1>3, <1>4, <1>5, <3>1, ModUnique
  <2> QED  BY <2>1
<1>8. low \div c = b
  <2>1. low \in Int
    BY <1>1, <1>3
  <2> QED  BY <1>1, <1>3, <2>1, ModUnique
<1>9. (u + q) % w = b
  BY DEF a, b
<1> QED  BY <1>7, <1>8, <1>9 DEF q

(* The units from c to g counts later, on a clock of w units that goes round *)
IsLater(n, w, m, c, g) ==
    ((((c + g) % m) \div n) - (c \div n) + w) % w = ((c + g) \div n) - (c \div n)

LEMMA LaterAcrossWrap ==
    ASSUME NEW n \in Nat \ {0}, NEW w \in Nat \ {0}, NEW m \in Nat \ {0}, m = w * n,
           NEW c \in 0..m - 1, NEW g \in Nat, g + n <= m
    PROVE  IsLater(n, w, m, c, g)
<1> DEFINE d == c \div n
           e == c % n
           h == (c + g) \div n
           j == (c + g) % n
<1>1. d \in Int /\ e \in 0..n - 1 /\ c = n * d + e
  BY DivMod
<1>2. h \in Int /\ j \in 0..n - 1 /\ c + g = n * h + j
  <2>1. ASSUME NEW x \in Int PROVE x \div n \in Int /\ x % n \in 0..n - 1 /\ x = n * (x \div n) + (x % n)
    BY DivMod
  <2> QED  BY <2>1
<1>3. d <= h
  BY DivMonotone
<1> HIDE DEF d, e, h, j
<1>4. h - d < w
  <2>1. n * (h - d) < n * w
    BY <1>1, <1>2
  <2>2. h - d >= w => n * (h - d) >= n * w
    BY <1>1, <1>2
  <2> QED  BY <1>1, <1>2, <2>1, <2>2
<1>5. CASE c + g < m
  <2>1. (c + g) % m = c + g
    BY <1>5
  <2>2. (h - d + w) % w = h - d
    <3>1. ASSUME NEW x \in Int, NEW y \in 0..w - 1, x = h - d + w, y = h - d PROVE x % w = y
      <4>1. x = w * 1 + y
        BY <1>1, <1>2, <3>1
      <4> QED  BY <4>1, ModUnique
    <3> QED  BY <1>1, <1>2, <1>3, <1>4, <3>1
  <2> QED  BY <2>1, <2>2 DEF d, h, IsLater
<1>6. CASE c + g >= m
  <2>1. (c + g) % m = c + g - m
    <3>1. ASSUME NEW x \in Int, NEW y \in 0..m - 1, x = c + g, y = c + g - m PROVE x % m = y
      <4>1. x = m * 1 + y
        BY <3>1
      <4> QED  BY <4>1, ModUnique
    <3> QED  BY <1>6, <3>1
  <2>2. (c + g - m) \div n = h - w
    <3>1. ASSUME NEW x \in Int, x = c + g - m PROVE x \div n = h - w
      <4>1. x = n * (h - w) + j
        BY <1>2, <3>1
      <4> QED  BY <1>2, <4>1, ModUnique
    <3> QED  BY <3>1
  <2>3. (h - w - d + w) % w = h - d
    <3>1. ASSUME NEW x \in Int, NEW y \in 0..w - 1, x = h - w - d + w, y = h - d PROVE x % w = y
      <4>1. x = w * 0 + y
        BY <1>1, <1>2, <3>1
      <4> QED  BY <4>1, ModUnique
    <3> QED  BY <1>1, <1>2, <1>3, <1>4, <3>1
  <2> QED  BY <2>1, <2>2, <2>3 DEF d, h, IsLater
<1> QED  BY <1>5, <1>6

-----------------------------------------------------------------------------
(* Readings of the clock *)

LEMMA ClockNumbers ==
    /\ Period \in Nat \ {0} /\ Step \in Nat \ {0} /\ Scale \in Nat \ {0} /\ Wrap \in Nat \ {0}
    /\ Step < Period /\ Period <= Scale
    /\ Round \in Nat \ {0} /\ Round = Wrap * Period
    /\ Load \in Nat \ {0} /\ Load = Period - 1
    /\ MaxCall \in Nat /\ (MaxCall + 1) * Step \in Nat /\ (MaxCall + 1) * Step + 2 * Period <= Round
    /\ Duration \in Nat \ {0} /\ Duration * Period \in Nat /\ Duration * Period <= Round
<1>1. /\ Period \in Nat /\ Step \in Nat \ {0} /\ Scale \in Nat /\ Wrap \in Nat
      /\ Step < Period /\ Period <= Scale
      /\ Duration \in Nat \ {0} /\ MaxSleep \in Nat /\ MaxCall \in Nat
      /\ (Duration + 1) * Period <= MaxSleep * Step
      /\ (MaxSleep + 2 * (MaxCall + 1)) * Step < Wrap * Period
  BY ClockAssumption
<1> DEFINE d == Duration * Period
           s == MaxSleep * Step
           c == (MaxCall + 1) * Step
           r == Wrap * Period
<1>2. /\ d \in Nat /\ s \in Nat /\ c \in Nat /\ r \in Nat /\ d >= Period
  BY <1>1
<1>3. (Duration + 1) * Period = d + Period
  BY <1>1
<1>4. (MaxSleep + 2 * (MaxCall + 1)) * Step = s + 2 * c
  BY <1>1
<1>5. Wrap # 0
  BY <1>1, <1>2, <1>4
<1> HIDE DEF d, s, c, r
<1>6. d + Period <= s /\ s + 2 * c < r
  BY <1>1, <1>3, <1>4 DEF d, s, c, r
<1>7. /\ r \in Nat \ {0} /\ c + 2 * Period <= r /\ d <= r
      /\ Period - 1 \in Nat \ {0} /\ Period # 0 /\ Scale # 0
  BY <1>1, <1>2, <1>6
<1> QED  BY <1>1, <1>2, <1>5, <1>7 DEF d, c, r, Round, Load

LEMMA DivShifts ==
    ASSUME NEW m \in Nat \ {0}, NEW x \in Int, NEW k \in Int
    PROVE  (x + m * k) \div m = (x \div m) + k
<1> DEFINE q == x \div m
           r == x % m
<1>1. q \in Int /\ r \in 0..m - 1 /\ x = m * q + r
  BY DivMod
<1> HIDE DEF q, r
<1>2. ASSUME NEW y \in Int, NEW j \in Int, y = x + m * k, j = q + k PROVE y \div m = j
  <2>1. y = m * j + r
    BY <1>1, <1>2
  <2> QED  BY <1>1, <2>1, ModUnique
<1>3. x + m * k \in Int /\ q + k \in Int
  BY <1>1
<1> QED  BY <1>2, <1>3 DEF q

(* The multiplier is a reciprocal, cut off *)
Lost == (Scale * Step) % Period

LEMMA Multiplier ==
    /\ us_per_Ncycles \in Int /\ Lost \in 0..Period - 1 /\ Lost \in 0..Scale
    /\ Scale * Step = Period * us_per_Ncycles + Lost
<1>1. Scale * Step \in Int
  BY ClockNumbers
<1>2. ASSUME NEW x \in Int PROVE x \div Period \in Int /\ x % Period \in 0..Period - 1 /\ x = Period * (x \div Period) + (x % Period)
  BY DivMod, ClockNumbers
<1>3. us_per_Ncycles \in Int /\ Lost \in 0..Period - 1 /\ Scale * Step = Period * us_per_Ncycles + Lost
  BY <1>1, <1>2 DEF us_per_Ncycles, Lost
<1> QED  BY <1>3, ClockNumbers

(* What is lost of d counts is at most one part for each of them *)
LEMMA ShortIs ==
    ASSUME NEW d \in Nat
    PROVE  /\ Short(d) \in Nat /\ Short(d) <= d
           /\ d * Lost <= Scale * Short(d) /\ Scale * Short(d) < d * Lost + Scale
<1> DEFINE l == d * Lost
           x == l + Scale - 1
           q == x \div Scale
           r == x % Scale
<1>1. l \in Nat /\ l <= d * Scale /\ d * Scale = Scale * d
  BY Multiplier, ClockNumbers
<1>2. Scale \in Nat \ {0}
  BY ClockNumbers
<1>3. x \in Int /\ Short(d) = q
  BY <1>1, <1>2 DEF Short, Lost
<1> HIDE DEF l
<1>4. q \in Int /\ r \in 0..Scale - 1 /\ x = Scale * q + r
  <2> HIDE DEF x
  <2> QED  BY <1>2, <1>3, DivMod
<1> HIDE DEF q, r
<1>5. l <= Scale * q /\ Scale * q < l + Scale
  BY <1>1, <1>2, <1>4
<1>6. q >= 0
  <2>1. q <= -1 => Scale * q <= -Scale
    BY <1>2, <1>4
  <2> QED  BY <1>1, <1>2, <1>4, <1>5, <2>1
<1>7. q <= d
  <2>1. q >= d + 1 => Scale * q >= Scale * d + Scale
    BY <1>2, <1>4
  <2>2. Scale * q \in Int /\ Scale * d \in Int
    BY <1>2, <1>4
  <2> QED  BY <1>1, <1>2, <1>4, <1>5, <2>1, <2>2
<1> QED  BY <1>3, <1>4, <1>5, <1>6, <1>7 DEF l

LEMMA ShortGrows ==
    ASSUME NEW c \in Nat, NEW d \in Nat, c <= d
    PROVE  Short(c) <= Short(d) /\ Short(d) <= Short(c) + (d - c)
<1> DEFINE x == c * Lost + Scale - 1
           y == d * Lost + Scale - 1
           z == x + Scale * (d - c)
<1>1. Lost \in 0..Scale /\ Scale \in Nat \ {0}
  BY Multiplier, ClockNumbers
<1>2. x \in Int /\ y \in Int /\ z \in Int /\ x <= y
  BY <1>1
<1>3. y <= z
  <2>1. d * Lost = c * Lost + (d - c) * Lost
    BY <1>1
  <2>2. (d - c) * Lost <= (d - c) * Scale /\ (d - c) * Scale = Scale * (d - c)
    BY <1>1
  <2> QED  BY <1>1, <2>1, <2>2
<1>4. Short(c) = x \div Scale /\ Short(d) = y \div Scale
  BY DEF Short, Lost
<1>5. z \div Scale = (x \div Scale) + (d - c)
  <2> HIDE DEF x
  <2> QED  BY <1>1, <1>2, DivShifts
<1> HIDE DEF x, y, z
<1>6. x \div Scale <= y \div Scale /\ y \div Scale <= z \div Scale
  BY <1>1, <1>2, <1>3, DivMonotone
<1> QED  BY <1>4, <1>5, <1>6

LEMMA SlipIs ==
    /\ Slip \in Nat /\ Slip < Period
    /\ \A d \in 0..Load : Short(d) \in Nat /\ Short(d) <= Slip
<1>1. Load \in Nat /\ Load = Period - 1 /\ Period \in Nat
  BY ClockNumbers
<1>2. Slip \in Nat /\ Slip <= Load
  BY <1>1, ShortIs DEF Slip
<1>3. ASSUME NEW d \in 0..Load PROVE Short(d) \in Nat /\ Short(d) <= Slip
  <2>1. d \in Nat /\ d <= Load
    BY <1>1
  <2> QED  BY <1>1, <2>1, ShortIs, ShortGrows DEF Slip
<1> QED  BY <1>1, <1>2, <1>3

(* The whole units that the product and the shift give for d counts *)
LEMMA Converts ==
    ASSUME NEW d \in 0..Load
    PROVE  (d * us_per_Ncycles) \div Scale = (d * Step - Short(d)) \div Period
<1> DEFINE p == d * us_per_Ncycles
           q == p \div Scale
           r == p % Scale
           s == Short(d)
           z == (d * Step - s) - Period * q
<1>1. /\ d \in Nat /\ Scale \in Nat \ {0} /\ Period \in Nat \ {0} /\ Step \in Nat
      /\ us_per_Ncycles \in Int /\ Lost \in Nat
      /\ Scale * Step = Period * us_per_Ncycles + Lost
  BY Multiplier, ClockNumbers
<1>2. s \in Nat /\ d * Lost <= Scale * s /\ Scale * s < d * Lost + Scale
  BY <1>1, ShortIs
<1>3. p \in Int
  BY <1>1
<1>4. q \in Int /\ r \in 0..Scale - 1 /\ p = Scale * q + r
  <2> HIDE DEF p
  <2> QED  BY <1>1, <1>3, DivMod
<1>5. Scale * (d * Step) = Period * p + d * Lost
  <2>1. Scale * (d * Step) = d * (Scale * Step)
    BY <1>1
  <2>2. d * (Period * us_per_Ncycles + Lost) = Period * (d * us_per_Ncycles) + d * Lost
    BY <1>1
  <2> QED  BY <1>1, <2>1, <2>2
<1> HIDE DEF p, q, r, s
<1>6. Scale * z = Period * r + (d * Lost - Scale * s)
  <2>1. Period * p = Period * (Scale * q) + Period * r
    BY <1>1, <1>4
  <2>2. Scale * z = Scale * (d * Step) - Scale * s - Scale * (Period * q)
    BY <1>1, <1>2, <1>4
  <2>3. Scale * (Period * q) = Period * (Scale * q)
    BY <1>1, <1>4
  <2>4. /\ Scale * (d * Step) \in Int /\ Scale * s \in Int /\ Period * (Scale * q) \in Int
        /\ Period * r \in Int /\ d * Lost \in Int
    BY <1>1, <1>2, <1>4
  <2> QED  BY <1>5, <2>1, <2>2, <2>3, <2>4
<1>7. z \in Int
  BY <1>1, <1>2, <1>4
<1>8. Period * r \in Nat /\ Period * r < Scale * Period
  <2>1. Period * r <= Period * (Scale - 1) /\ Period * (Scale - 1) = Scale * Period - Period
    BY <1>1, <1>4
  <2> QED  BY <1>1, <1>4, <2>1
<1> DEFINE y == d * Step - s
<1>9. y = Period * q + z /\ y \in Int
  BY <1>1, <1>2, <1>4, <1>7
<1> HIDE DEF z, y
<1>10. Scale * z > -Scale /\ Scale * z < Scale * Period
  <2>1. d * Lost \in Int /\ Scale * s \in Int /\ Scale * Period \in Int /\ Scale * z \in Int
    BY <1>1, <1>2, <1>7
  <2> QED  BY <1>1, <1>2, <1>6, <1>8, <2>1
<1>11. z >= 0
  <2>1. z <= -1 => Scale * z <= -Scale
    BY <1>1, <1>7
  <2> QED  BY <1>1, <1>7, <1>10, <2>1
<1>12. z < Period
  <2>1. z >= Period => Scale * z >= Scale * Period
    BY <1>1, <1>7
  <2> QED  BY <1>1, <1>7, <1>10, <2>1
<1>13. y \div Period = q
  <2>1. z \in 0..Period - 1
    BY <1>1, <1>7, <1>11, <1>12
  <2> QED  BY <1>1, <1>4, <1>9, <2>1, ModUnique
<1> QED  BY <1>13 DEF y, q, p, s

-----------------------------------------------------------------------------
(* What is known in between *)

ClockTypeOK ==
    /\ val \in 0..Load /\ read_val \in 0..Load
    /\ pending \in BOOLEAN /\ interrupt \in BOOLEAN
    /\ val = 0 => pending
    /\ lag \in Nat /\ slept \in Nat /\ called \in Nat
    /\ micro_time \in 0..Wrap - 1 /\ us \in 0..Wrap - 1
    /\ start \in Int

(* The counter had counted down d when it was x counts ago, ticks in between *)
InTick(x, d) == \E k \in Nat : x + d = (Load - val) + k * Period

(* The moment that the two values read make up, with u for the ticks *)
Moment(u) == u * Period + (Load - read_val) * Step

(* A reading is of a moment of the call; that of the first call is the       *)
(* moment from which slept counts                                            *)
Fits(u) ==
    \E a \in 0..called :
        /\ (Truth - a * Step) % Round = Moment(u) % Round
        /\ InTick(a, Load - read_val)
        /\ start = -1 => slept = a

(* A reading in progress fits unless the interrupt has set the flag, or is   *)
(* pending since before the counter was read: then it is to come before the  *)
(* flag is looked at.                                                       *)
ReadingFits ==
    /\ pc = "time" /\ ~interrupt /\ ~(pending /\ lag >= 1) => Fits(micro_time)
    /\ pc = "check" /\ ~interrupt /\ ~(pending /\ lag >= 2) => Fits(us)

CallIsShort ==
    InNow => /\ called <= MaxCall \/ (called = MaxCall + 1 /\ val # 0)
             /\ start # -1 => called <= slept

(* The first reading is of the moment that is slept counts ago, less what    *)
(* the conversion lost of it                                                *)
StartsAt(t) ==
    \E d \in 0..Load :
        InTick(slept, d) /\ t = ((Truth - slept * Step - Short(d)) % Round) \div Period
StartIs == Asleep /\ start # -1 => StartsAt(start)

ClockInv == ClockTypeOK /\ ReadingFits /\ CallIsShort /\ StartIs /\ HeldLongEnough

LEMMA RoundMod == \A z \in Int : z % Round \in 0..Round - 1 /\ z \div Period \in Int
<1>1. ASSUME NEW z \in Int PROVE z % Round \in 0..Round - 1 /\ z \div Period \in Int
  BY DivMod, ClockNumbers
<1> QED  BY <1>1

-----------------------------------------------------------------------------
(* The true time *)

Raw == micro_time * Period + (Load - val) * Step + (IF pending /\ val # 0 THEN Period * Step ELSE 0)

LEMMA TruthIs == ClockTypeOK => Raw \in Int /\ Truth = Raw % Round /\ Truth \in 0..Round - 1
<1> SUFFICES ASSUME ClockTypeOK PROVE Raw \in Int /\ Truth = Raw % Round /\ Truth \in 0..Round - 1
  OBVIOUS
<1>1. Raw \in Int
  <2>1. /\ micro_time * Period \in Int /\ (Load - val) * Step \in Int /\ Period * Step \in Int
    BY ClockNumbers DEF ClockTypeOK
  <2> QED  BY <2>1 DEF Raw
<1>2. Truth = Raw % Round
  BY DEF Truth, Raw
<1> QED  BY <1>1, <1>2, RoundMod

LEMMA TruthCounts == ASSUME ClockTypeOK, Count PROVE Truth' = (Truth + Step) % Round
<1>1. /\ ~(val = 1 /\ pending) /\ micro_time' = micro_time
      /\ val' = IF val = 0 THEN Load ELSE val - 1
      /\ pending' = (pending \/ val = 1)
  BY DEF Count
<1>2. Raw' = Raw + Step
  <2> DEFINE t == micro_time * Period
             b == Period * Step
  <2>1. /\ t \in Int /\ val \in 0..Load /\ Load \in Nat \ {0} /\ b \in Int /\ Step \in Nat
        /\ Load * Step = b - Step /\ pending \in BOOLEAN
    <3>1. (Period - 1) * Step = Period * Step - Step
      BY ClockNumbers
    <3> QED  BY <3>1, ClockNumbers DEF ClockTypeOK
  <2>2. Raw' = t + (Load - val') * Step + (IF pending' /\ val' # 0 THEN b ELSE 0)
    BY <1>1 DEF Raw, Load
  <2>3. Raw = t + (Load - val) * Step + (IF pending /\ val # 0 THEN b ELSE 0)
    BY DEF Raw
  <2> HIDE DEF t, b
  <2>4. CASE val = 0
    <3>1. pending /\ pending' /\ val' = Load
      BY <1>1, <2>4 DEF ClockTypeOK
    <3>2. Raw' = t + (Load - Load) * Step + b /\ (Load - Load) * Step = 0
      BY <2>1, <2>2, <3>1
    <3>3. Raw = t + Load * Step
      BY <2>1, <2>3, <2>4
    <3> QED  BY <2>1, <3>2, <3>3
  <2>5. CASE val # 0
    <3>1. val' = val - 1 /\ (pending' /\ val' # 0 <=> pending /\ val # 0)
      BY <1>1, <2>1, <2>5
    <3>2. (Load - val') * Step = (Load - val) * Step + Step
      BY <2>1, <3>1
    <3>3. (Load - val) * Step \in Int
      BY <2>1
    <3> DEFINE c == (Load - val) * Step
    <3>4. Raw' = t + (c + Step) + (IF pending /\ val # 0 THEN b ELSE 0)
      BY <2>2, <3>1, <3>2
    <3>5. Raw = t + c + (IF pending /\ val # 0 THEN b ELSE 0) /\ c \in Int
      BY <2>3, <3>3
    <3> HIDE DEF c
    <3> QED  BY <2>1, <3>4, <3>5
  <2> QED  BY <2>4, <2>5
<1>3. Truth' = Raw' % Round
  BY DEF Truth, Raw, Round, Load
<1>4. (Raw + Step) % Round = ((Raw % Round) + Step) % Round
  <2>1. ASSUME NEW x \in Int, NEW y \in Int PROVE ((x % Round) + y) % Round = (x + y) % Round
    BY ModAdds, ClockNumbers
  <2> QED  BY <2>1, TruthIs, ClockNumbers
<1> QED  BY <1>2, <1>3, <1>4, TruthIs

LEMMA TruthTicks == ASSUME ClockTypeOK, SysTick_Handler PROVE Truth' = Truth
<1>1. /\ pending /\ val # 0 /\ pending' = FALSE /\ val' = val
      /\ micro_time' = (micro_time + Step) % Wrap
  BY DEF SysTick_Handler
<1> DEFINE q == (micro_time + Step) \div Wrap
           r == (micro_time + Step) % Wrap
<1>2. q \in Int /\ r \in Int /\ micro_time + Step = Wrap * q + r
  <2>1. ASSUME NEW x \in Int PROVE x \div Wrap \in Int /\ x % Wrap \in Int /\ x = Wrap * (x \div Wrap) + (x % Wrap)
    BY DivMod, ClockNumbers
  <2>2. micro_time + Step \in Int
    BY ClockNumbers DEF ClockTypeOK
  <2> QED  BY <2>1, <2>2
<1>3. micro_time' = r
  BY <1>1
<1> HIDE DEF q, r
<1> DEFINE a == micro_time * Period
           b == Period * Step
           c == r * Period
           d == Round * q
           e == (Load - val) * Step
<1>4. /\ a \in Int /\ b \in Int /\ c \in Int /\ d \in Int /\ e \in Int
  BY <1>2, ClockNumbers DEF ClockTypeOK
<1>5. a + b = c + d
  <2>1. micro_time \in Int /\ Step \in Int /\ Period \in Int /\ Wrap \in Int /\ Round = Wrap * Period
    BY ClockNumbers DEF ClockTypeOK
  <2>2. (micro_time + Step) * Period = (Wrap * q + r) * Period
    BY <1>2
  <2>3. (Wrap * q + r) * Period = (Wrap * Period) * q + r * Period
    BY <1>2, <2>1
  <2>4. (micro_time + Step) * Period = micro_time * Period + Period * Step
    BY <2>1
  <2> QED  BY <1>4, <2>1, <2>2, <2>3, <2>4
<1>6. Raw' = c + e + 0 /\ Raw = a + e + b
  BY <1>1, <1>3 DEF Raw, Load
<1> HIDE DEF a, b, c, d, e
<1>7. Raw' \in Int /\ Raw = Raw' + d
  BY <1>4, <1>5, <1>6
<1>8. Raw % Round = Raw' % Round
  <2>1. ASSUME NEW x \in Int, NEW y \in Int, x = y + Round * q PROVE x % Round = y % Round
    BY <1>2, <2>1, SameMod, ClockNumbers
  <2> QED  BY <1>7, <2>1, TruthIs DEF d
<1>9. Truth' = Raw' % Round
  BY DEF Truth, Raw, Round, Load
<1> QED  BY <1>8, <1>9, TruthIs

LEMMA TruthStays == UNCHANGED tickVars => Truth' = Truth
BY DEF tickVars, Truth, Load, Round

-----------------------------------------------------------------------------
(* Where readings lie *)

(* A reading that fits is of some moment of the call, less what the          *)
(* conversion loses                                                         *)
LEMMA ReadingIs ==
    ASSUME ClockTypeOK, Fits(us)
    PROVE  \E a \in 0..called, d \in 0..Load :
             /\ Reading = ((Truth - a * Step - Short(d)) % Round) \div Period
             /\ InTick(a, d)
             /\ start = -1 => slept = a
<1>1. PICK a \in 0..called : /\ (Truth - a * Step) % Round = Moment(us) % Round
                             /\ InTick(a, Load - read_val)
                             /\ start = -1 => slept = a
  BY DEF Fits
<1> DEFINE d == Load - read_val
           s == Short(d)
           y == d * Step - s
<1>2. d \in 0..Load /\ us \in Int /\ a \in Int /\ Step \in Int /\ Period \in Int
  BY ClockNumbers DEF ClockTypeOK
<1>3. s \in Int /\ y \in Int
  BY <1>2, SlipIs
<1>4. (d * us_per_Ncycles) \div Scale = y \div Period
  BY <1>2, Converts
<1> HIDE DEF d
<1>5. Reading = (us + (y \div Period)) % Wrap
  BY <1>4 DEF Reading, d
<1>6. Reading = ((us * Period + y) % Round) \div Period
  <2> HIDE DEF y, s
  <2>1. Period \in Nat \ {0} /\ Wrap \in Nat \ {0}
    BY ClockNumbers
  <2>2. (us + (y \div Period)) % Wrap = ((us * Period + y) % (Wrap * Period)) \div Period
    BY <1>2, <1>3, <2>1, UnitsOfCounts, Zenon
  <2> QED  BY <1>5, <2>2 DEF Round
<1> DEFINE t == Truth - a * Step
           n == Moment(us)
<1>7. t \in Int /\ n \in Int /\ us * Period + y = n - s
  <2>1. us * Period \in Int /\ d * Step \in Int /\ a * Step \in Int /\ Truth \in Int
    BY <1>2, TruthIs, ClockNumbers
  <2>2. n = us * Period + d * Step
    BY DEF Moment, d
  <2> QED  BY <1>3, <2>1, <2>2
<1> HIDE DEF t, n, s, y
<1>8. (t - s) % Round = (n - s) % Round
  <2>1. ASSUME NEW x \in Int, NEW w \in Int PROVE ((x % Round) + w) % Round = (x + w) % Round
    BY ModAdds, ClockNumbers
  <2>2. t - s = t + (-s) /\ n - s = n + (-s) /\ -s \in Int
    BY <1>3, <1>7
  <2>3. t % Round = n % Round
    BY <1>1 DEF t, n
  <2> QED  BY <1>7, <2>1, <2>2, <2>3
<1>9. Reading = ((t - s) % Round) \div Period
  BY <1>6, <1>7, <1>8
<1> QED  BY <1>1, <1>2, <1>9 DEF t, s, d

LEMMA LaterIs ==
    ASSUME NEW c \in 0..Round - 1, NEW g \in Nat, g + Period <= Round
    PROVE  Later(((c + g) % Round) \div Period, c \div Period) = ((c + g) \div Period) - (c \div Period)
<1>1. Wrap \in Nat \ {0} /\ Period \in Nat \ {0} /\ Round \in Nat \ {0} /\ Round = Wrap * Period
  BY ClockNumbers
<1>2. IsLater(Period, Wrap, Round, c, g)
  BY <1>1, LaterAcrossWrap
<1> QED  BY <1>2 DEF IsLater, Later

(* From the moment x parts ago to that y parts ago *)
LEMMA FromTo ==
    ASSUME NEW x \in Int, NEW y \in Int, Truth \in Int
    PROVE  (Truth - y) % Round = (((Truth - x) % Round) + (x - y)) % Round
<1>1. ASSUME NEW z \in Int, NEW w \in Int PROVE ((z % Round) + w) % Round = (z + w) % Round
  BY ModAdds, ClockNumbers
<1>2. (Truth - x) + (x - y) = Truth - y /\ Truth - x \in Int /\ x - y \in Int
  OBVIOUS
<1> QED  BY <1>1, <1>2

(* What now() returns when it sees no interrupt fits *)
LEMMA ReadsFit ==
    ASSUME ClockInv, MaxLag <= 2, pc = "check", ~interrupt, pending => lag < MaxLag
    PROVE  Fits(us)
BY ClockAssumption DEF ClockInv, ClockTypeOK, ReadingFits

LEMMA ReadsInCall ==
    ASSUME ClockInv, MaxLag <= 2, pc = "check", ~interrupt, pending => lag < MaxLag,
           NEW earliest, earliest = UnitAt(called * Step + Slip)
    PROVE  Later(Reading, earliest) <= Later(UnitAt(0), earliest)
<1>1. ClockTypeOK /\ Truth \in Int /\ Step \in Nat /\ called \in Nat /\ MaxCall \in Nat
  BY TruthIs, ClockNumbers DEF ClockInv, ClockTypeOK
<1>2. PICK a \in 0..called, d \in 0..Load : Reading = ((Truth - a * Step - Short(d)) % Round) \div Period
  BY <1>1, ReadsFit, ReadingIs
<1> DEFINE e == called * Step + Slip
           h == a * Step + Short(d)
           c == (Truth - e) % Round
           f == e - h
<1>3. /\ a * Step \in Nat /\ called * Step \in Nat /\ a * Step <= called * Step
      /\ called * Step <= (MaxCall + 1) * Step
  <2>1. called <= MaxCall + 1
    BY <1>1 DEF ClockInv, CallIsShort, InNow
  <2> QED  BY <1>1, <2>1
<1>4. Short(d) \in Nat /\ Short(d) <= Slip /\ Slip \in Nat /\ Slip < Period
  BY SlipIs
<1>5. h \in Nat /\ e \in Nat /\ f \in Nat /\ f <= e /\ Truth - a * Step - Short(d) = Truth - h
  BY <1>1, <1>3, <1>4
<1>6. e + Period <= Round
  <2> DEFINE m == (MaxCall + 1) * Step
             n == called * Step
  <2>1. m \in Nat /\ m + 2 * Period <= Round /\ n \in Nat /\ n <= m /\ Period \in Nat /\ Round \in Nat
    BY <1>3, ClockNumbers
  <2> HIDE DEF m, n
  <2>2. n + Slip + Period <= Round
    BY <1>4, <2>1
  <2> QED  BY <2>2 DEF n
<1> HIDE DEF e, h
<1>7. c \in 0..Round - 1
  BY <1>1, <1>5, RoundMod
<1>8. earliest = c \div Period
  BY DEF UnitAt, e
<1>9. Reading = ((c + f) % Round) \div Period
  <2>1. (Truth - h) % Round = (c + f) % Round
    BY <1>1, <1>5, FromTo
  <2> QED  BY <1>2, <1>5, <2>1
<1>10. UnitAt(0) = ((c + e) % Round) \div Period
  <2>1. (Truth - 0) % Round = (c + (e - 0)) % Round
    <3>1. e \in Int /\ 0 \in Int
      BY <1>5
    <3> QED  BY <1>1, <3>1, FromTo
  <2> QED  BY <1>5, <2>1 DEF UnitAt
<1> HIDE DEF c, f
<1>11. f + Period <= Round
  BY <1>5, <1>6, ClockNumbers
<1>12. /\ Later(UnitAt(0), earliest) = ((c + e) \div Period) - (c \div Period)
       /\ Later(Reading, earliest) = ((c + f) \div Period) - (c \div Period)
  BY <1>5, <1>6, <1>7, <1>8, <1>9, <1>10, <1>11, LaterIs
<1>13. (c + f) \div Period <= (c + e) \div Period
  <2>1. ASSUME NEW x \in Int, NEW y \in Int, x <= y PROVE x \div Period <= y \div Period
    BY <2>1, DivMonotone, ClockNumbers
  <2>2. c + f \in Int /\ c + e \in Int /\ c + f <= c + e
    BY <1>5, <1>7, ClockNumbers
  <2> QED  BY <2>1, <2>2
<1>14. (c + f) \div Period \in Int /\ (c + e) \div Period \in Int /\ c \div Period \in Int
  <2>1. c + f \in Int /\ c + e \in Int /\ c \in Int
    BY <1>5, <1>7, ClockNumbers
  <2> QED  BY <2>1, RoundMod
<1> QED  BY <1>12, <1>13, <1>14

(* A later reading is no earlier time: what the conversion loses grows less  *)
(* than the count                                                           *)
LEMMA ReadingsGrow ==
    ASSUME ClockTypeOK, NEW a \in Nat, NEW x \in Nat, a <= x,
           NEW c \in 0..Load, NEW d \in 0..Load, InTick(x, c), InTick(a, d)
    PROVE  (x * Step + Short(c)) - (a * Step + Short(d)) \in Nat
<1>1. PICK k \in Nat : x + c = (Load - val) + k * Period
  BY DEF InTick
<1>2. PICK l \in Nat : a + d = (Load - val) + l * Period
  BY DEF InTick
<1>3. /\ Step \in Nat \ {0} /\ Period \in Nat \ {0} /\ Load = Period - 1 /\ Load \in Nat
      /\ val \in Int /\ c \in Nat /\ d \in Nat
  BY ClockNumbers DEF ClockTypeOK
<1>4. Short(c) \in Nat /\ Short(d) \in Nat /\ Short(d) <= d
  BY <1>3, ShortIs
<1>5. x - a = (d - c) + (k - l) * Period
  <2>1. k * Period \in Int /\ l * Period \in Int /\ (k - l) * Period = k * Period - l * Period
    BY <1>3
  <2> QED  BY <1>1, <1>2, <1>3, <2>1
<1>6. (x - a) * Step = x * Step - a * Step /\ (x - a) * Step \in Nat /\ x * Step \in Nat /\ a * Step \in Nat
  BY <1>3
<1>7. (x - a) * Step >= x - a
  BY <1>3
<1>8. CASE k = l
  <2>1. (k - l) * Period = 0
    BY <1>3, <1>8
  <2>2. x - a = d - c /\ c <= d
    BY <1>3, <1>5, <2>1
  <2>3. Short(d) <= Short(c) + (d - c)
    BY <1>3, <2>2, ShortGrows
  <2> QED  BY <1>3, <1>4, <1>6, <1>7, <2>2, <2>3
<1>9. CASE k > l
  <2>1. (k - l) * Period >= Period
    BY <1>3, <1>9
  <2>2. x - a >= d + 1
    BY <1>3, <1>5, <2>1
  <2> QED  BY <1>3, <1>4, <1>6, <1>7, <2>2
<1>10. CASE k < l
  <2>1. (k - l) * Period <= -Period
    BY <1>3, <1>10
  <2>2. x - a < 0
    BY <1>3, <1>5, <2>1
  <2> QED  BY <2>2
<1> QED  BY <1>8, <1>9, <1>10

(* A sleep that ends was long enough *)
LEMMA WakesLate ==
    ASSUME ClockInv, MaxLag <= 2, pc = "check", ~interrupt, pending => lag < MaxLag,
           start # -1, Later(Reading, start) >= Duration
    PROVE  slept * Step + Slip > (Duration - 1) * Period
<1>1. /\ ClockTypeOK /\ Truth \in Int /\ slept \in Nat /\ called \in Nat /\ called <= slept
      /\ Step \in Nat \ {0} /\ Period \in Nat \ {0} /\ slept * Step \in Nat
  BY TruthIs, ClockNumbers DEF ClockInv, ClockTypeOK, CallIsShort, InNow
<1>2. PICK a \in 0..called, d \in 0..Load :
        Reading = ((Truth - a * Step - Short(d)) % Round) \div Period /\ InTick(a, d)
  BY <1>1, ReadsFit, ReadingIs
<1>3. PICK b \in 0..Load :
        InTick(slept, b) /\ start = ((Truth - slept * Step - Short(b)) % Round) \div Period
  BY DEF ClockInv, StartIs, StartsAt, Asleep, InNow
<1>4. Short(b) \in Nat /\ Short(b) <= Slip /\ Slip \in Nat /\ Short(d) \in Nat
  BY SlipIs
<1> DEFINE e == slept * Step + Short(b)
           h == a * Step + Short(d)
           c == (Truth - e) % Round
           g == e - h
           m == Duration * Period
<1>5. g \in Nat
  <2>1. a \in Nat /\ a <= slept
    BY <1>1
  <2>2. (slept * Step + Short(b)) - (a * Step + Short(d)) \in Nat
    BY <1>1, <1>2, <1>3, <2>1, ReadingsGrow
  <2> QED  BY <2>2
<1>6. h \in Nat /\ e \in Nat /\ g <= e /\ e <= slept * Step + Slip
  <2>1. a * Step \in Nat
    BY <1>1
  <2> QED  BY <1>1, <1>4, <2>1
<1>7. (Duration - 1) * Period = m - Period /\ m \in Nat /\ m <= Round
  BY ClockNumbers
<1> SUFFICES ASSUME g <= m - Period PROVE FALSE
  <2> HIDE DEF g, e, m
  <2>1. slept * Step + Slip \in Int
    BY <1>1, <1>4
  <2> QED  BY <1>1, <1>5, <1>6, <1>7, <2>1
<1>8. /\ Reading = ((Truth - h) % Round) \div Period
      /\ start = ((Truth - e) % Round) \div Period
  <2>1. a * Step \in Int /\ slept * Step \in Int
    BY <1>1
  <2>2. Truth - a * Step - Short(d) = Truth - h /\ Truth - slept * Step - Short(b) = Truth - e
    BY <1>1, <1>4, <2>1
  <2> QED  BY <1>2, <1>3, <2>2
<1> HIDE DEF e, h, m
<1>9. c \in 0..Round - 1
  BY <1>1, <1>6, RoundMod
<1>10. Reading = ((c + g) % Round) \div Period
  BY <1>1, <1>6, <1>8, FromTo
<1> HIDE DEF c, g
<1>11. g + Period <= Round
  BY <1>5, <1>7, ClockNumbers
<1>12. ((c + g) \div Period) - (c \div Period) >= Duration
  BY <1>5, <1>8, <1>9, <1>10, <1>11, LaterIs DEF c
<1>13. ASSUME NEW z \in Int PROVE z \div Period \in Int /\ z % Period \in 0..Period - 1 /\ z = Period * (z \div Period) + (z % Period)
  BY DivMod, ClockNumbers
<1> DEFINE p == c \div Period
           q == (c + g) \div Period
           r == c % Period
           s == (c + g) % Period
<1>14. /\ p \in Int /\ r \in 0..Period - 1 /\ c = Period * p + r
       /\ q \in Int /\ s \in 0..Period - 1 /\ c + g = Period * q + s
       /\ q - p >= Duration
  <2>1. c \in Int /\ c + g \in Int
    BY <1>5, <1>9, ClockNumbers
  <2> QED  BY <1>12, <1>13, <2>1
<1> HIDE DEF p, q, r, s
<1> DEFINE x == Period * (q - p)
<1>15. g = x + (s - r)
  BY <1>5, <1>9, <1>14, ClockNumbers
<1>16. x >= Duration * Period /\ x \in Int
  BY <1>14, ClockNumbers
<1>17. s - r > -Period
  BY <1>14, ClockNumbers
<1> HIDE DEF x
<1> QED  BY <1>5, <1>7, <1>14, <1>15, <1>16, <1>17, ClockNumbers DEF m

-----------------------------------------------------------------------------
(* The steps *)

LEMMA ClockStarts == Init => ClockInv
<1> SUFFICES ASSUME Init PROVE ClockInv
  OBVIOUS
<1> USE DEF Init, ClockInit
<1>1. ClockTypeOK
  <2>1. /\ Load \in 0..Load /\ Load # 0 /\ 0 \in 0..Load /\ 0 \in 0..Wrap - 1
        /\ 0 \in Nat /\ -1 \in Int
    BY ClockNumbers
  <2> QED  BY <2>1 DEF ClockTypeOK
<1>2. ReadingFits /\ CallIsShort /\ StartIs /\ HeldLongEnough
  BY DEF ReadingFits, CallIsShort, StartIs, HeldLongEnough, Asleep, InNow
<1> QED  BY <1>1, <1>2 DEF ClockInv

LEMMA StatementDoes ==
    ASSUME ClockTypeOK, NEW at, NEW next, Statement(at, next)
    PROVE  /\ pc = at /\ pc' = next /\ Truth' = Truth
           /\ UNCHANGED <<val, pending, micro_time>>
           /\ lag' \in Nat
           /\ pending => lag < MaxLag /\ lag' = lag + 1
           /\ ~pending => lag' = lag
<1>1. /\ pc = at /\ pc' = next /\ UNCHANGED tickVars
      /\ IF pending THEN lag < MaxLag /\ lag' = lag + 1 ELSE lag' = lag
  BY DEF Statement
<1>2. UNCHANGED <<val, pending, micro_time>> /\ Truth' = Truth
  BY <1>1, TruthStays DEF tickVars
<1> QED  BY <1>1, <1>2 DEF ClockTypeOK

(* Counting takes the true time on by one count, and with it the length of   *)
(* the call, the age of the reading and the sleep.                          *)
LEMMA CountInv == ClockInv /\ Count => ClockInv'
<1> SUFFICES ASSUME ClockInv, Count PROVE ClockInv'
  OBVIOUS
<1>1. /\ InNow => called < MaxCall \/ val = 0
      /\ val' = IF val = 0 THEN Load ELSE val - 1
      /\ pending' = (pending \/ val = 1)
      /\ slept' = IF Asleep THEN slept + 1 ELSE slept
      /\ called' = IF InNow THEN called + 1 ELSE called
      /\ UNCHANGED <<micro_time, lag, interrupt, pc, start, read_val, us>>
  BY DEF Count
<1>2. ClockTypeOK /\ ReadingFits /\ CallIsShort /\ StartIs /\ HeldLongEnough
  BY DEF ClockInv
<1>3. /\ Truth' = (Truth + Step) % Round /\ Truth \in 0..Round - 1 /\ Round \in Nat \ {0}
      /\ Step \in Nat /\ Period \in Nat \ {0} /\ Load \in Nat \ {0} /\ Load = Period - 1
      /\ MaxCall \in Nat
  BY <1>2, TruthCounts, TruthIs, ClockNumbers
<1>4. ClockTypeOK'
  <2>1. pending' \in BOOLEAN /\ (val = 1 => pending')
    BY <1>1
  <2>3. val' \in 0..Load /\ (val' = 0 => val = 1)
    BY <1>1, <1>2, <1>3 DEF ClockTypeOK
  <2>2. slept' \in Nat /\ called' \in Nat
    BY <1>1, <1>2 DEF ClockTypeOK
  <2> QED  BY <1>1, <1>2, <2>1, <2>2, <2>3 DEF ClockTypeOK, Load
(* What was a moment x counts and y parts ago is now one count more *)
<1>5. ASSUME NEW x \in Nat, NEW y \in Int
      PROVE  (Truth' - (x + 1) * Step - y) % Round = (Truth - x * Step - y) % Round
  <2>1. (x + 1) * Step = x * Step + Step /\ x * Step \in Int
    BY <1>3
  <2>2. ASSUME NEW z \in Int, NEW w \in Int PROVE ((z % Round) + w) % Round = (z + w) % Round
    BY <1>3, ModAdds
  <2> DEFINE p == x * Step
             w == -(p + Step + y)
             t == Truth + Step
  <2>3. p \in Int /\ (x + 1) * Step = p + Step
    BY <2>1
  <2> HIDE DEF p
  <2>4. w \in Int /\ t \in Int /\ t + w = Truth - p - y
    BY <1>3, <2>3
  <2>5. Truth' \in Int /\ Truth' = t % Round
    BY <1>3, <2>4, RoundMod
  <2>6. Truth' - (x + 1) * Step - y = Truth' + w
    BY <1>3, <2>3, <2>5
  <2> HIDE DEF w, t
  <2> QED  BY <2>2, <2>4, <2>5, <2>6 DEF p
<1>6. ASSUME NEW x \in Nat, NEW d \in 0..Load, InTick(x, d)
      PROVE  \E k \in Nat : (x + 1) + d = (Load - val') + k * Period
  <2>1. PICK k \in Nat : x + d = (Load - val) + k * Period
    BY <1>6 DEF InTick
  <2>2. k * Period \in Nat /\ (k + 1) * Period = k * Period + Period
    BY <1>3
  <2>3. CASE val = 0
    <3>1. (x + 1) + d = (Load - val') + (k + 1) * Period
      BY <1>1, <1>3, <2>1, <2>2, <2>3
    <3> QED  BY <3>1
  <2>4. CASE val # 0
    <3>1. (x + 1) + d = (Load - val') + k * Period
      BY <1>1, <1>2, <1>3, <2>1, <2>2, <2>4 DEF ClockTypeOK
    <3> QED  BY <3>1
  <2> QED  BY <2>3, <2>4
<1>7. InNow => /\ called' = called + 1 /\ slept' = slept + 1
               /\ called' <= MaxCall \/ (called' = MaxCall + 1 /\ val' # 0)
  BY <1>1, <1>2, <1>3 DEF CallIsShort, Asleep, ClockTypeOK
<1>8. ASSUME InNow, NEW u \in 0..Wrap - 1, Fits(u)
      PROVE  \E a \in 0..called' :
               /\ (Truth' - a * Step) % Round = Moment(u) % Round
               /\ \E k \in Nat : a + (Load - read_val) = (Load - val') + k * Period
               /\ start = -1 => slept' = a
  <2>1. PICK a \in 0..called : /\ (Truth - a * Step) % Round = Moment(u) % Round
                               /\ InTick(a, Load - read_val)
                               /\ start = -1 => slept = a
    BY <1>8 DEF Fits
  <2>2. a \in Nat /\ a + 1 \in 0..called' /\ Load - read_val \in 0..Load
    BY <1>2, <1>3, <1>7, <1>8 DEF ClockTypeOK
  <2>3. (Truth' - (a + 1) * Step) % Round = Moment(u) % Round
    <3>1. (Truth' - (a + 1) * Step - 0) % Round = (Truth - a * Step - 0) % Round
      BY <1>5, <2>2
    <3>2. ASSUME NEW z \in Int PROVE z - 0 = z
      OBVIOUS
    <3>3. Truth' - (a + 1) * Step \in Int /\ Truth - a * Step \in Int
      <4>1. (a + 1) * Step \in Int /\ a * Step \in Int
        BY <1>3, <2>2
      <4>2. Truth' \in Int
        <5>1. Truth + Step \in Int
          BY <1>3
        <5> QED  BY <1>3, <5>1, RoundMod
      <4> QED  BY <1>3, <4>1, <4>2
    <3> QED  BY <2>1, <3>1, <3>2, <3>3
  <2>4. \E k \in Nat : (a + 1) + (Load - read_val) = (Load - val') + k * Period
    BY <1>6, <2>1, <2>2
  <2>5. start = -1 => slept' = a + 1
    BY <1>7, <1>8, <2>1
  <2> QED  BY <2>2, <2>3, <2>4, <2>5
<1>9. ReadingFits'
  <2>1. pc = "time" /\ ~interrupt /\ ~(pending /\ lag >= 1) => Fits(micro_time)'
    BY <1>1, <1>2, <1>8 DEF ReadingFits, InNow, Fits, InTick, Moment, Load, Round, ClockTypeOK
  <2>2. pc = "check" /\ ~interrupt /\ ~(pending /\ lag >= 2) => Fits(us)'
    BY <1>1, <1>2, <1>8 DEF ReadingFits, InNow, Fits, InTick, Moment, Load, Round, ClockTypeOK
  <2> QED  BY <1>1, <2>1, <2>2 DEF ReadingFits
<1>10. CallIsShort'
  <2>1. InNow' <=> InNow
    BY <1>1 DEF InNow
  <2>2. ASSUME InNow, start' # -1 PROVE called' <= slept'
    BY <1>1, <1>2, <1>7, <2>2 DEF CallIsShort, ClockTypeOK
  <2> QED  BY <1>7, <2>1, <2>2 DEF CallIsShort
<1>11. StartIs'
  <2>1. (Asleep' <=> Asleep) /\ start' = start
    BY <1>1 DEF Asleep, InNow
  <2>2. ASSUME Asleep, start # -1 PROVE StartsAt(start)'
    <3>1. slept' = slept + 1 /\ slept \in Nat
      BY <1>1, <1>2, <2>2 DEF ClockTypeOK
    <3>2. PICK d \in 0..Load : InTick(slept, d) /\ start = ((Truth - slept * Step - Short(d)) % Round) \div Period
      BY <1>2, <2>2 DEF StartIs, StartsAt
    <3>3. (Truth' - slept' * Step - Short(d)) % Round = (Truth - slept * Step - Short(d)) % Round
      BY <1>5, <3>1, SlipIs
    <3>4. \E k \in Nat : slept' + d = (Load - val') + k * Period
      BY <1>6, <3>1, <3>2
    <3> QED  BY <2>1, <3>2, <3>3, <3>4 DEF StartsAt, InTick, Load, Round, Short
  <2> QED  BY <2>1, <2>2 DEF StartIs
<1>12. HeldLongEnough'
  BY <1>1, <1>2 DEF HeldLongEnough, Asleep, InNow, Slip, Short, Load
<1> QED  BY <1>4, <1>9, <1>10, <1>11, <1>12 DEF ClockInv

(* The interrupt changes no time; it sets the flag, so that a reading under *)
(* way is taken again.                                                      *)
LEMMA TickInv == ClockInv /\ SysTick_Handler => ClockInv'
<1> SUFFICES ASSUME ClockInv, SysTick_Handler PROVE ClockInv'
  OBVIOUS
<1>1. /\ val # 0 /\ micro_time' = (micro_time + Step) % Wrap
      /\ interrupt' = TRUE /\ pending' = FALSE /\ lag' = 0
      /\ UNCHANGED <<val, pc, start, slept, read_val, us, called>>
  BY DEF SysTick_Handler, sleepVars, nowVars
<1>2. ClockTypeOK /\ CallIsShort /\ StartIs /\ HeldLongEnough
  BY DEF ClockInv
<1>3. Truth' = Truth
  BY <1>2, TruthTicks
<1>4. ClockTypeOK'
  <2>1. micro_time' \in 0..Wrap - 1
    <3>1. ASSUME NEW z \in Int PROVE z % Wrap \in 0..Wrap - 1
      BY DivMod, ClockNumbers
    <3>2. micro_time + Step \in Int
      BY <1>2, ClockNumbers DEF ClockTypeOK
    <3> QED  BY <1>1, <3>1, <3>2
  <2> QED  BY <1>1, <1>2, <2>1 DEF ClockTypeOK, Load
<1>5. ReadingFits'
  BY <1>1 DEF ReadingFits
<1>6. CallIsShort' /\ HeldLongEnough'
  BY <1>1, <1>2 DEF CallIsShort, HeldLongEnough, InNow, Slip, Short, Load
<1>7. StartIs'
  BY <1>1, <1>2, <1>3 DEF StartIs, StartsAt, InTick, Short, Asleep, InNow, Load, Round
<1> QED  BY <1>4, <1>5, <1>6, <1>7 DEF ClockInv

(* The statements of the swap take no reading *)
LEMMA SwapInv ==
    ASSUME ClockInv, NEW at, NEW next \in {"ccr1", "on1", "off2", "ccr2", "on2", "step"},
           Statement(at, next), KeepsTime
    PROVE  ClockInv'
<1>1. /\ pc' = next /\ lag' \in Nat
      /\ UNCHANGED <<val, pending, micro_time, interrupt, start, slept, read_val, us, called>>
  BY StatementDoes DEF ClockInv, KeepsTime, sleepVars, nowVars
<1>2. ClockTypeOK'
  BY <1>1 DEF ClockInv, ClockTypeOK, Load
<1>3. ReadingFits' /\ CallIsShort' /\ StartIs' /\ HeldLongEnough'
  BY <1>1 DEF ReadingFits, CallIsShort, StartIs, HeldLongEnough, Asleep, InNow
<1> QED  BY <1>2, <1>3 DEF ClockInv

(* A call begins: nothing is read yet *)
LEMMA CallInv ==
    ASSUME ClockInv, NEW at, Statement(at, "clear"), called' = 0,
           UNCHANGED <<interrupt, read_val, us>>,
           (start' = -1 /\ slept' = 0) \/ (at = "yield" /\ UNCHANGED <<start, slept>>)
    PROVE  ClockInv'
<1>1. /\ pc = at /\ pc' = "clear" /\ Truth' = Truth /\ lag' \in Nat
      /\ UNCHANGED <<val, pending, micro_time>> /\ ClockTypeOK
  BY StatementDoes DEF ClockInv
<1>2. ClockTypeOK'
  BY <1>1 DEF ClockTypeOK, Load
<1>3. CallIsShort'
  BY <1>2, ClockNumbers DEF CallIsShort, ClockTypeOK
<1>4. StartIs'
  BY <1>1 DEF ClockInv, StartIs, StartsAt, InTick, Short, Asleep, InNow, Load, Round
<1>5. ReadingFits' /\ HeldLongEnough'
  BY <1>1 DEF ReadingFits, HeldLongEnough
<1> QED  BY <1>2, <1>3, <1>4, <1>5 DEF ClockInv

(* The statements within a call of now() *)
LEMMA ReadInv == ClockInv /\ (ClearFlag \/ ReadCounter \/ ReadTicks \/ ReadAgain) => ClockInv'
<1> SUFFICES ASSUME ClockInv, ClearFlag \/ ReadCounter \/ ReadTicks \/ ReadAgain PROVE ClockInv'
  OBVIOUS
<1>1. ClockTypeOK /\ ReadingFits /\ CallIsShort /\ StartIs
  BY DEF ClockInv
<1>2. PICK at, next : /\ at \in {"clear", "val", "time", "check"} /\ next \in {"clear", "val", "time", "check"}
                      /\ Statement(at, next)
  BY DEF ClearFlag, ReadCounter, ReadTicks, ReadAgain
<1>3. /\ pc = at /\ pc' = next /\ Truth' = Truth /\ lag' \in Nat
      /\ UNCHANGED <<val, pending, micro_time>>
      /\ pending => lag < MaxLag /\ lag' = lag + 1
      /\ ~pending => lag' = lag
  BY <1>1, <1>2, StatementDoes
<1>4. /\ start' = start /\ called' = called
      /\ interrupt' \in BOOLEAN /\ read_val' \in 0..Load /\ us' \in 0..Wrap - 1 /\ slept' \in Nat
      /\ slept' = slept \/ start = -1
  <2>1. CASE ClearFlag \/ ReadAgain
    BY <1>1, <2>1 DEF ClockTypeOK, ClearFlag, ReadAgain, sleepVars, nowVars
  <2>2. CASE ReadCounter
    BY <1>1, <2>2 DEF ClockTypeOK, ReadCounter
  <2>3. CASE ReadTicks
    BY <1>1, <2>3 DEF ClockTypeOK, ReadTicks, sleepVars
  <2> QED  BY <2>1, <2>2, <2>3
<1>5. ClockTypeOK'
  BY <1>1, <1>3, <1>4 DEF ClockTypeOK, Load
<1>6. CallIsShort' /\ StartIs' /\ HeldLongEnough'
  <2>1. CallIsShort' /\ HeldLongEnough'
    BY <1>1, <1>2, <1>3, <1>4 DEF CallIsShort, HeldLongEnough, InNow
  <2>2. start # -1 => StartIs'
    BY <1>1, <1>2, <1>3, <1>4 DEF StartIs, StartsAt, InTick, Short, Asleep, InNow, Load, Round
  <2>3. start = -1 => StartIs'
    BY <1>4 DEF StartIs
  <2> QED  BY <2>1, <2>2, <2>3
<1>7. ReadingFits'
  <2>1. CASE ClearFlag \/ ReadAgain
    BY <2>1 DEF ClearFlag, ReadAgain, Statement, ReadingFits
  <2>2. CASE ReadCounter
    <3>1. pc' = "time" /\ read_val' = val /\ slept' = (IF start = -1 THEN 0 ELSE slept)
      BY <2>2 DEF ReadCounter, Statement
    <3>2. ASSUME ~pending PROVE Fits(micro_time)'
      <4> DEFINE w == micro_time * Period + (Load - val) * Step
      <4>1. w \in Int /\ Truth = w % Round
        <5>1. micro_time * Period \in Int /\ (Load - val) * Step \in Int
          BY <1>1, ClockNumbers DEF ClockTypeOK
        <5>2. Truth = (w + 0) % Round
          BY <3>2 DEF Truth
        <5>3. w \in Int /\ w + 0 = w
          BY <5>1
        <5> HIDE DEF w
        <5> QED  BY <5>2, <5>3
      <4>2. Moment(micro_time)' = w
        BY <1>3, <3>1 DEF Moment, Load
      <4> HIDE DEF w
      <4>3. (Truth - 0 * Step) % Round = w % Round
        <5>1. ASSUME NEW x \in Int, NEW y \in Int PROVE ((x % Round) + y) % Round = (x + y) % Round
          BY ModAdds, ClockNumbers
        <5>2. ((w % Round) + 0) % Round = (w + 0) % Round
          BY <4>1, <5>1
        <5>3. w + 0 = w /\ Truth - 0 * Step = (w % Round) + 0
          BY <4>1, RoundMod, ClockNumbers
        <5> QED  BY <5>2, <5>3
      <4>4. 0 + (Load - val) = (Load - val) + 0 * Period /\ 0 \in Nat
        BY <1>1, ClockNumbers DEF ClockTypeOK
      <4>5. 0 \in 0..called'
        BY <1>1, <1>4 DEF ClockTypeOK
      <4>6. (Truth' - 0 * Step) % Round = Moment(micro_time)' % Round
        BY <1>3, <4>2, <4>3
      <4>7. \E k \in Nat : 0 + (Load - read_val') = (Load - val') + k * Period
        BY <1>3, <3>1, <4>4
      <4>8. start' = -1 => slept' = 0
        BY <1>4, <3>1
      <4> QED  BY <4>5, <4>6, <4>7, <4>8 DEF Fits, InTick, Load, Round
    <3>3. pending => lag' >= 1
      BY <1>1, <1>3 DEF ClockTypeOK
    <3> QED  BY <1>3, <3>1, <3>2, <3>3 DEF ReadingFits
  <2>3. CASE ReadTicks
    <3>1. pc = "time" /\ pc' = "check" /\ us' = micro_time /\ UNCHANGED <<interrupt, slept, start, read_val, called>>
      BY <2>3 DEF ReadTicks, Statement, sleepVars
    <3>2. Fits(us)' <=> Fits(micro_time)
      BY <1>3, <3>1 DEF Fits, InTick, Moment, Load, Round
    <3>3. pending /\ lag >= 1 => lag' >= 2
      BY <1>1, <1>3 DEF ClockTypeOK
    <3> QED  BY <1>1, <1>3, <3>1, <3>2, <3>3 DEF ReadingFits
  <2> QED  BY <2>1, <2>2, <2>3
<1> QED  BY <1>5, <1>6, <1>7 DEF ClockInv

(* now() returns: the sleep has begun, goes on, or is over *)
LEMMA ReturnInv == ASSUME MaxLag <= 2 PROVE ClockInv /\ (Started \/ SleepsOn \/ Awake) => ClockInv'
<1> SUFFICES ASSUME ClockInv, Started \/ SleepsOn \/ Awake PROVE ClockInv'
  OBVIOUS
<1>1. ClockTypeOK
  BY DEF ClockInv
<1>2. PICK next : /\ Statement("check", next) /\ ~interrupt
                  /\ next = "yield" \/ (next = "off1" /\ Awake)
                  /\ read_val' = 0 /\ us' = 0 /\ called' = 0 /\ interrupt' = interrupt
  BY DEF Started, SleepsOn, Awake, Wakes, Reads
<1>3. /\ pc = "check" /\ pc' = next /\ Truth' = Truth /\ lag' \in Nat
      /\ UNCHANGED <<val, pending, micro_time>>
      /\ pending => lag < MaxLag
  BY <1>1, <1>2, StatementDoes
<1>4. /\ slept' = slept
      /\ \/ next = "yield" /\ start = -1 /\ start' = Reading
         \/ next = "yield" /\ start # -1 /\ start' = start
         \/ next = "off1" /\ start # -1 /\ start' = start /\ Later(Reading, start) >= Duration
  BY <1>2, <1>3 DEF Started, SleepsOn, Awake, Wakes, Reads, Statement, sleepVars
<1>5. PICK a \in 0..called, d \in 0..Load :
        /\ Reading = ((Truth - a * Step - Short(d)) % Round) \div Period
        /\ InTick(a, d)
        /\ start = -1 => slept = a
  BY <1>1, <1>2, <1>3, ReadsFit, ReadingIs
<1>6. start = -1 => StartsAt(Reading)
  BY <1>5 DEF StartsAt
<1>7. ClockTypeOK'
  <2>1. Reading \in Int
    <3>1. Truth - a * Step - Short(d) \in Int
      <4>1. Truth \in Int /\ a * Step \in Int /\ Short(d) \in Int
        BY <1>1, TruthIs, SlipIs, ClockNumbers
      <4> QED  BY <4>1
    <3> QED  BY <1>5, <3>1, RoundMod
  <2>2. 0 \in 0..Load /\ 0 \in 0..Wrap - 1 /\ 0 \in Nat
    BY ClockNumbers
  <2> QED  BY <1>1, <1>2, <1>3, <1>4, <2>1, <2>2 DEF ClockTypeOK, Load
<1>8. StartIs'
  <2>1. CASE start = -1
    BY <1>3, <1>4, <1>6, <2>1 DEF StartIs, StartsAt, InTick, Short, Asleep, InNow, Load, Round
  <2>2. CASE start # -1
    BY <1>3, <1>4, <2>2 DEF ClockInv, StartIs, StartsAt, InTick, Short, Asleep, InNow, Load, Round
  <2> QED  BY <2>1, <2>2
<1>9. HeldLongEnough'
  <2>1. ASSUME start # -1, Later(Reading, start) >= Duration PROVE slept * Step + Slip > (Duration - 1) * Period
    BY <1>2, <1>3, <2>1, WakesLate
  <2> QED  BY <1>2, <1>3, <1>4, <2>1 DEF HeldLongEnough, Slip, Short, Load
<1>10. ReadingFits' /\ CallIsShort'
  BY <1>2, <1>3 DEF ReadingFits, CallIsShort, InNow
<1> QED  BY <1>7, <1>8, <1>9, <1>10 DEF ClockInv

LEMMA ClockNext == ASSUME MaxLag <= 2 PROVE ClockInv /\ [Next]_vars => ClockInv'
<1> SUFFICES ASSUME ClockInv, [Next]_vars PROVE ClockInv'
  OBVIOUS
<1>1. CASE Swap
  BY <1>1, SwapInv DEF Swap, Disable, SetCompareValue, Enable
<1>2. CASE NextStep
  BY <1>2, CallInv DEF NextStep, CallSleep
<1>3. CASE Resumed
  BY <1>3, CallInv DEF Resumed, sleepVars
<1>4. CASE ClearFlag \/ ReadCounter \/ ReadTicks \/ ReadAgain
  BY <1>4, ReadInv
<1>5. CASE Started \/ SleepsOn \/ Awake
  BY <1>5, ReturnInv
<1>6. CASE Count \/ SysTick_Handler
  BY <1>6, CountInv, TickInv
<1>7. CASE UNCHANGED clockVars
  <2>1. /\ UNCHANGED <<val, pending, micro_time, lag, interrupt, pc, start, slept, read_val, us, called>>
        /\ Truth' = Truth
    BY <1>7, TruthStays DEF clockVars, tickVars, sleepVars, nowVars
  <2>2. ClockTypeOK'
    BY <2>1 DEF ClockInv, ClockTypeOK, Load
  <2>3. ReadingFits'
    BY <2>1 DEF ClockInv, ReadingFits, Fits, InTick, Moment, Load, Round
  <2>4. CallIsShort' /\ HeldLongEnough'
    BY <2>1 DEF ClockInv, CallIsShort, HeldLongEnough, InNow, Slip, Short, Load
  <2>5. StartIs'
    BY <2>1 DEF ClockInv, StartIs, StartsAt, InTick, Short, Asleep, InNow, Load, Round
  <2> QED  BY <2>2, <2>3, <2>4, <2>5 DEF ClockInv
<1> QED  BY <1>1, <1>2, <1>3, <1>4, <1>5, <1>6, <1>7 DEF Next, Fiber, Sleeping, Update, vars

(* A direction is held for the whole sleep, less the fraction of a unit in   *)
(* which it began and what the conversion loses, for every counter, unit and *)
(* duration: wherever the counter and the clock wrap, and wherever the tick   *)
(* interrupt falls.  The one thing asked of the hardware is that a pending     *)
(* interrupt waits for two statements of now() at most.                      *)
THEOREM SleepsAreLongEnough == ASSUME MaxLag <= 2 PROVE Spec => []HeldLongEnough
<1>1. ClockInv => HeldLongEnough
  BY DEF ClockInv
<1>2. ClockInv /\ [Next]_vars => ClockInv'
  BY ClockNext
<1> QED  BY <1>1, <1>2, ClockStarts, PTL DEF Spec

(* A reading of the clock is a time of the call of now(), or less than a unit *)
(* before it, which is what the cut-off reciprocal may lose.                 *)
THEOREM ReadingsAreNow == ASSUME MaxLag <= 2 PROVE Spec => NowIsNow /\ Slip < Period
<1>1. ClockInv /\ [Next]_vars
        => [pc = "check" /\ pc' \notin {"check", "clear"} =>
              LET earliest == UnitAt(called * Step + Slip)
              IN  Later(Reading, earliest) <= Later(UnitAt(0), earliest)]_clockVars
  <2> SUFFICES ASSUME ClockInv, [Next]_vars, pc = "check", pc' \notin {"check", "clear"}
               PROVE  LET earliest == UnitAt(called * Step + Slip)
                      IN  Later(Reading, earliest) <= Later(UnitAt(0), earliest)
    OBVIOUS
  <2>1. Started \/ SleepsOn \/ Awake
    BY DEF Next, Fiber, Swap, Disable, SetCompareValue, Enable, NextStep, CallSleep, Sleeping, ClearFlag,
           ReadCounter, ReadTicks, ReadAgain, Resumed, Statement, Count, SysTick_Handler, Update, vars, clockVars
  <2>2. ~interrupt /\ (pending => lag < MaxLag)
    BY <2>1 DEF Started, SleepsOn, Awake, Wakes, Reads, Statement
  <2> QED  BY <2>2, ReadsInCall
<1>2. ClockInv /\ [Next]_vars => ClockInv'
  BY ClockNext
<1>3. Slip < Period
  BY SlipIs
<1> QED  BY <1>1, <1>2, <1>3, ClockStarts, PTL DEF Spec, NowIsNow
=============================================================================
