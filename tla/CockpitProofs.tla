--------------------------- MODULE CockpitProofs ---------------------------
(***************************************************************************)
(* Theorems about Cockpit for any pids, displays, messages and bound: of   *)
(* the buttons; of what one message does to a widget of Widgets; and, from *)
(* that, of what is drawn after any number of them.                        *)
(***************************************************************************)
EXTENDS Cockpit, TLAPS, FiniteSetTheorems, SequenceTheorems, WellFoundedInduction

(* A pid belongs to one program, and a program that is off has none.  The  *)
(* pid that was read is one, as long as it waits to be signalled.          *)
PidInv ==
  /\ pid \in [Programs -> Pids \cup {NoPid}]
  /\ DOMAIN proc = Programs /\ DOMAIN pidfile = Programs
  /\ \A q \in Programs : pidfile[q] \in Pids \cup {NoPid}
  /\ \A q \in Programs : (pid[q] = NoPid) <=> (proc[q] = "off")
  /\ \A q, r \in Programs : pid[q] = pid[r] /\ pid[q] # NoPid => q = r

FlagInv == flag \in [Programs -> BOOLEAN]

IInv == PidInv /\ FlagInv

(* The initial state satisfies the invariant.                              *)
LEMMA InitInv == Init => IInv
  BY DEF Init, ButtonsInit, IInv, PidInv, FlagInv

(* Of the steps of the buttons, those that end a program, ...              *)
LEMMA GoneStep ==
  ASSUME PidInv, NEW q \in Programs, Gone(q),
         pidfile' \in {pidfile, [pidfile EXCEPT ![q] = NoPid]}
  PROVE  PidInv'
  BY DEF PidInv, Gone

(* ... and all of them, keep pids apart.                                   *)
LEMMA PidStep ==
  ASSUME PidInv, ButtonsNext
  PROVE  PidInv'
  <1> USE DEF PidInv, gpioVars, programs
  <1>1. ASSUME NEW q \in Programs, Exec(q)
        PROVE  PidInv'
    <2>1. PICK p \in Free : pid' = [pid EXCEPT ![q] = p]
      BY <1>1 DEF Exec
    <2>2. p \in Pids /\ p # NoPid /\ \A r \in Programs : pid[r] # p
      BY <2>1, ButtonsAssumption DEF Free, ButtonsAssumption
    <2>3. proc[q] = "off" /\ proc' = [proc EXCEPT ![q] = "exec"] /\ pidfile' = pidfile
      BY <1>1 DEF Exec
    <2> QED  BY <2>1, <2>2, <2>3
  <1>2. ASSUME NEW q \in Programs, Arm(q) \/ OpenPidfile(q) \/ WritePidfile(q) \/ Run(q)
        PROVE  PidInv'
    <2>1. /\ pid' = pid /\ proc[q] # "off"
          /\ \E s \in {"armed", "opened", "loading", "running"} :
               proc' = [proc EXCEPT ![q] = s]
          /\ pidfile' \in {pidfile, [pidfile EXCEPT ![q] = NoPid],
                           [pidfile EXCEPT ![q] = pid[q]]}
      BY <1>2 DEF Arm, OpenPidfile, WritePidfile, Run
    <2> QED  BY <2>1
  <1>3. ASSUME NEW q \in Programs, Exit(q) \/ Crash(q)
        PROVE  PidInv'
    BY <1>3, GoneStep DEF Exit, Crash
  <1>4. CASE Kill
    <2>1. pidfile' = pidfile
      BY <1>4 DEF Kill
    <2>2. CASE \E q \in Programs : Gone(q)
      BY <2>1, <2>2, GoneStep
    <2>3. CASE UNCHANGED <<proc, pid>>
      BY <2>1, <2>3
    <2> QED  BY <1>4, <2>2, <2>3 DEF Kill
  <1>5. CASE (\E q \in Programs : Press(q)) \/ Toggle \/ Stranger \/ GpioStart \/ GpioEnds
             \/ ReadPidfile
    BY <1>5 DEF Press, Toggle, Stranger, GpioStart, GpioEnds, ReadPidfile
  <1> QED  BY <1>1, <1>2, <1>3, <1>4, <1>5 DEF ButtonsNext

(* Flags stay flags.                                                       *)
LEMMA FlagStep ==
  ASSUME FlagInv, [Next]_vars
  PROVE  FlagInv'
  <1> USE DEF FlagInv, gpioVars, programs, buttonVars
  <1>1. CASE UNCHANGED flag
    BY <1>1
  <1>2. CASE \E q \in Programs, b \in BOOLEAN : flag' = [flag EXCEPT ![q] = b]
    BY <1>2
  <1>3. CASE handle_screen_navigation
    BY <1>3, Zenon DEF handle_screen_navigation, Taken, Programs
  <1>4. CASE ButtonsNext
    BY <1>1, <1>2, <1>4 DEF ButtonsNext, Exec, Arm, OpenPidfile, WritePidfile, Run, Exit, Crash,
         Gone, Press, Toggle, Stranger, GpioStart, GpioEnds, ReadPidfile, Kill, Programs
  <1> QED
    BY <1>1, <1>3, <1>4, Zenon DEF Next, Buttons, Save, Push, Reload, Consume, Update, Draw, vars

(* The invariant is inductive.                                             *)
THEOREM Invariance == Spec => []IInv
  <1>1. IInv /\ [Next]_vars => IInv'
    <2> SUFFICES ASSUME IInv, [Next]_vars PROVE PidInv'
      BY FlagStep DEF IInv
    <2>1. CASE Buttons
      BY <2>1, PidStep, Zenon DEF IInv, Buttons
    <2>2. CASE ~Buttons
      <3>1. UNCHANGED <<proc, pid, pidfile>>
        BY <2>2, Zenon DEF Next, Save, Push, Reload, handle_screen_navigation, Consume,
                           Update, Draw, vars, buttonVars, programs
      <3> QED  BY <3>1 DEF IInv, PidInv
    <2> QED  BY <2>1, <2>2
  <1> QED  BY InitInv, <1>1, PTL DEF Spec

(* A press that has reached the engine stays until a frame acts on it or   *)
(* the engine ends.                                                        *)
THEOREM PressesAreKept == Spec => PressIsKept
  <1>1. IInv /\ [Next]_vars =>
          [flag["graphics"] /\ ~flag'["graphics"] =>
             \/ proc'["graphics"] = "off"
             \/ screens # <<>> /\ active_screen' = (active_screen + 1) % Len(screens)]_vars
    <2> SUFFICES ASSUME IInv, Next, flag["graphics"], ~flag'["graphics"],
                        proc'["graphics"] # "off"
                 PROVE  screens # <<>> /\ active_screen' = (active_screen + 1) % Len(screens)
      OBVIOUS
    <2>1. CASE handle_screen_navigation
      BY <2>1 DEF handle_screen_navigation, Taken, IInv, FlagInv
    <2>2. CASE ButtonsNext
      BY <2>2 DEF ButtonsNext, Exec, Arm, OpenPidfile, WritePidfile, Run, Exit, Crash, Gone,
           Press, Toggle, Stranger, GpioStart, GpioEnds, ReadPidfile, Kill, Programs, IInv,
           FlagInv, PidInv, gpioVars, programs
    <2> QED
      BY <2>1, <2>2, Zenon DEF Next, Buttons, Save, Push, Reload, Consume, Update, Draw, programs,
                                buttonVars
  <1> QED  BY Invariance, <1>1, PTL DEF Spec, PressIsKept

-----------------------------------------------------------------------------
(* What one message does to a graph.                                       *)

Points == Int \X Int

(* What is appended comes last.                                            *)
LEMMA Appended ==
  ASSUME NEW S, NEW s \in Seq(S), NEW e \in S
  PROVE  LET a == Append(s, e)
         IN  /\ a \in Seq(S) /\ a # <<>> /\ Len(a) = Len(s) + 1
             /\ \A i \in 1..Len(s) : a[i] = s[i]
             /\ a[Len(a)] = e
  BY AppendProperties

(* The newest points: no more than the limit, and the last is among them.  *)
LEMMA CappedPoints ==
  ASSUME NEW s \in Seq(Points), s # <<>>, NEW n \in Nat \ {0}
  PROVE  /\ Capped(s, n) \in Seq(Points)
         /\ Len(Capped(s, n)) = IF Len(s) > n THEN n ELSE Len(s)
         /\ \A i \in 1..Len(Capped(s, n)) :
              Capped(s, n)[i] = s[Len(s) - Len(Capped(s, n)) + i]
  <1>1. Len(s) \in Nat \ {0}
    OBVIOUS
  <1>2. CASE Len(s) > n
    <2> DEFINE m == Len(s) - n + 1
    <2>1. /\ m \in 1..Len(s) + 1 /\ Capped(s, n) = SubSeq(s, m, Len(s))
          /\ Len(s) - m + 1 = n
      BY <1>1, <1>2 DEF Capped, Newest
    <2>2. /\ SubSeq(s, m, Len(s)) \in Seq(Points)
          /\ Len(SubSeq(s, m, Len(s))) = n
          /\ \A i \in 1..n : SubSeq(s, m, Len(s))[i] = s[m + i - 1]
      BY <1>1, <1>2, SubSeqProperties
    <2> QED  BY <1>1, <1>2, <2>1, <2>2
  <1>3. CASE Len(s) <= n
    <2>1. Capped(s, n) = s
      BY <1>1, <1>3 DEF Capped
    <2> HIDE DEF Points
    <2>2. \A i \in 1..Len(s) : Len(s) - Len(s) + i = i
      BY <1>1
    <2> QED  BY <1>1, <1>3, <2>1, <2>2
  <1> QED  BY <1>1, <1>2, <1>3

Sorted(s) == \A i, j \in 1..Len(s) : i <= j => s[i][1] <= s[j][1]

(* Of points in the order of time, exactly those not older than the cutoff *)
(* stay, if the last is one of them.                                       *)
LEMMA WindowPoints ==
  ASSUME NEW s \in Seq(Points), s # <<>>, Sorted(s), NEW c \in Int, s[Len(s)][1] >= c
  PROVE  LET w == InWindow(s, c)
         IN  /\ w \in Seq(Points) /\ Len(w) \in 1..Len(s)
             /\ \A i \in 1..Len(w) : w[i] = s[Len(s) - Len(w) + i] /\ w[i][1] >= c
             /\ \A i \in 1..(Len(s) - Len(w)) : s[i][1] < c
  <1> DEFINE n == Len(s)
             old == {i \in DOMAIN s : \A j \in 1..i : s[j][1] < c}
             k == Cardinality(old)
             w == InWindow(s, c)
  <1>1. n \in Nat \ {0} /\ DOMAIN s = 1..n /\ \A i \in 1..n : s[i][1] \in Int
    BY DEF Points
  <1>2. old \subseteq 1..n /\ n \notin old
    BY <1>1
  <1>3. \A i \in old : 1..i \subseteq old
    BY <1>1
  <1>4. \A i \in 1..n : i \notin old => \E j \in 1..i : s[j][1] >= c /\ j \notin old
    BY <1>1
  <1>5. \A i \in old : s[i][1] < c
    BY <1>1
  <1>6. w = SubSeq(s, k + 1, n)
    BY DEF InWindow
  <1> HIDE DEF old, w
  <1>7. IsFiniteSet(old) /\ k \in Nat
    <2>1. IsFiniteSet(1..n)
      BY <1>1, FS_Interval
    <2>2. IsFiniteSet(old)
      BY <1>2, <2>1, FS_Subset
    <2> QED  BY <2>2, FS_CardinalityType
  <1>8. \A i \in old : i <= k
    <2> TAKE i \in old
    <2>1. i \in 1..n /\ 1..i \subseteq old
      BY <1>2, <1>3
    <2>2. Cardinality(1..i) = i
      BY <2>1, FS_Interval
    <2>3. Cardinality(1..i) <= k
      BY <1>7, <2>1, FS_Subset
    <2> QED  BY <2>2, <2>3
  <1>9. old = 1..k
    <2>1. old \subseteq 1..k
      BY <1>1, <1>2, <1>7, <1>8
    <2>2. IsFiniteSet(1..k) /\ Cardinality(1..k) = k
      BY <1>7, FS_Interval
    <2> QED  BY <2>1, <2>2, FS_Subset
  <1> HIDE DEF k
  <1>10. k < n
    BY <1>1, <1>2, <1>7, <1>9
  <1>11. s[k + 1][1] >= c
    <2>1. k + 1 \notin old /\ k + 1 \in 1..n
      BY <1>1, <1>7, <1>9, <1>10
    <2>2. PICK j \in 1..(k + 1) : s[j][1] >= c /\ j \notin old
      BY <1>4, <2>1
    <2>3. j = k + 1
      BY <1>7, <1>9, <2>2
    <2> QED  BY <2>2, <2>3
  <1>12. \A i \in (k + 1)..n : s[i][1] >= c
    BY <1>1, <1>7, <1>10, <1>11 DEF Sorted
  <1>13. /\ w \in Seq(Points) /\ Len(w) = n - k
         /\ \A i \in 1..(n - k) : w[i] = s[k + i]
    <2> DEFINE q == SubSeq(s, k + 1, n)
    <2>1. k + 1 \in Int /\ n \in Int /\ \A i \in (k + 1)..n : s[i] \in Points
      BY <1>1, <1>7
    <2>2. /\ q \in Seq(Points)
          /\ Len(q) = IF k + 1 <= n THEN n - (k + 1) + 1 ELSE 0
          /\ \A i \in 1..(n - (k + 1) + 1) : q[i] = s[(k + 1) + i - 1]
      BY <2>1, SubSeqProperties
    <2>3. w = q
      BY <1>6
    <2> HIDE DEF q
    <2>4. k + 1 <= n /\ n - (k + 1) + 1 = n - k /\ \A i \in 1..(n - k) : (k + 1) + i - 1 = k + i
      BY <1>1, <1>7, <1>10
    <2>5. /\ q \in Seq(Points) /\ Len(q) = n - k
          /\ \A i \in 1..(n - k) : q[i] = s[k + i]
      BY <2>2, <2>4
    <2> QED  BY <2>3, <2>5, Zenon
  <1>14. n - Len(w) = k /\ Len(w) \in 1..n
    BY <1>1, <1>7, <1>10, <1>13
  <1>15. \A i \in 1..Len(w) : w[i] = s[n - Len(w) + i] /\ w[i][1] >= c
    BY <1>1, <1>7, <1>10, <1>12, <1>13, <1>14
  <1>16. \A i \in 1..(n - Len(w)) : s[i][1] < c
    BY <1>5, <1>9, <1>14
  <1> QED  BY <1>13, <1>14, <1>15, <1>16, Zenon DEF w

(* What a graph keeps between two messages: points in the order of time,   *)
(* no more than its limit, and none later than now.                        *)
Kept(w, now_) ==
  /\ w.points \in Seq(Points) /\ Sorted(w.points)
  /\ Len(w.points) <= w.graph.max_points
  /\ \A i \in 1..Len(w.points) : w.points[i][1] <= now_

(* The limits of a graph are positive, whatever graphics.json says, and it *)
(* begins without points.                                                  *)
LEMMA Built ==
  ASSUME NEW wc, NEW t \in Int, wc.graph \in Graphs
  PROVE  LET w == Build(wc)
         IN  /\ {"points", "value", "graph"} \subseteq DOMAIN w
             /\ w.graph.max_points \in Nat \ {0} /\ w.graph.window_seconds \in Nat \ {0}
             /\ Kept(w, t)
  <1> DEFINE w == Build(wc)
  <1>1. w.graph = Graph(wc) /\ w.points = <<>>
        /\ {"points", "value", "graph"} \subseteq DOMAIN w
    BY DEF Build
  <1> HIDE DEF w
  <1>2. w.graph.max_points \in Nat \ {0} /\ w.graph.window_seconds \in Nat \ {0}
    BY <1>1 DEF Graph, Graphs
  <1>3. Kept(w, t)
    BY <1>1, <1>2 DEF Kept, Sorted
  <1> QED  BY <1>1, <1>2, <1>3, Zenon DEF w

(* What is left when the oldest are dropped; and what is dropped of it is  *)
(* before the cutoff, unless it is for the limit.                          *)
Suffix(points, all) ==
  /\ Len(points) \in 1..Len(all)
  /\ \A i \in 1..Len(points) : points[i] = all[Len(all) - Len(points) + i]
Windowed(points, all, cutoff, n) ==
  /\ \A i \in 1..Len(points) : points[i][1] >= cutoff
  /\ Len(points) < n => \A i \in 1..(Len(all) - Len(points)) : all[i][1] < cutoff

(* push_y() of a time series: the points end with the new one, are in      *)
(* the order of time and within the window and the limit, and a point of   *)
(* the window is dropped only for the limit, the oldest first.             *)
THEOREM SeriesKept ==
  ASSUME NEW w, NEW t \in Int, NEW v \in Int, Kept(w, t),
         "points" \in DOMAIN w, "value" \in DOMAIN w, "graph" \in DOMAIN w,
         w.graph.max_points \in Nat \ {0}, w.graph.window_seconds \in Nat \ {0},
         NEW all, all = Append(w.points, <<t, v>>), NEW u, u = push_y(w, t, v)
  PROVE  /\ Kept(u, t) /\ u.value = v /\ u.graph = w.graph /\ DOMAIN u = DOMAIN w
         /\ Suffix(u.points, all) /\ u.points[Len(u.points)] = <<t, v>>
         /\ Windowed(u.points, all, t - w.graph.window_seconds, w.graph.max_points)
  <1> DEFINE c == t - w.graph.window_seconds
             max == w.graph.max_points
             in == InWindow(all, c)
             new == <<t, v>>
  <1>1. /\ u.points = Capped(in, max) /\ u.value = v
        /\ u.graph = w.graph /\ DOMAIN u = DOMAIN w
    BY DEF push_y
  <1>2. c \in Int /\ max \in Nat \ {0} /\ c <= t
    OBVIOUS
  <1>a. new \in Points /\ new[1] = t
    BY DEF Points
  <1>3. /\ all \in Seq(Points) /\ all # <<>> /\ Len(all) = Len(w.points) + 1
        /\ \A i \in 1..Len(w.points) : all[i] = w.points[i]
        /\ all[Len(all)] = new
    <2>1. w.points \in Seq(Points)
      BY DEF Kept
    <2> QED  BY <1>a, <2>1, Appended
  <1> DEFINE old == w.points
  <1>b. /\ Len(old) \in Nat /\ \A i \in 1..Len(old) : old[i][1] \in Int /\ old[i][1] <= t
        /\ \A i, j \in 1..Len(old) : i <= j => old[i][1] <= old[j][1]
    <2>1. old \in Seq(Points) /\ Sorted(old) /\ \A i \in 1..Len(old) : old[i][1] <= t
      BY Zenon DEF Kept
    <2> HIDE DEF old
    <2>2. Len(old) \in Nat /\ \A i \in 1..Len(old) : old[i] \in Points
      BY <2>1
    <2>3. \A p \in Points : p[1] \in Int
      BY DEF Points
    <2> QED  BY <2>1, <2>2, <2>3 DEF Sorted
  <1> HIDE DEF new, old, c, max
  <1>4. Sorted(all) /\ \A i \in 1..Len(all) : all[i][1] <= t
    <2>1. /\ Len(all) = Len(old) + 1 /\ all[Len(all)][1] = t
          /\ \A i \in 1..Len(old) : all[i] = old[i]
      BY <1>a, <1>3 DEF old
    <2>2. \A i \in 1..Len(all) : i \in 1..Len(old) \/ i = Len(all)
      BY <1>b, <2>1
    <2>3. \A i \in 1..Len(all) : all[i][1] \in Int /\ all[i][1] <= t
      BY <1>b, <2>1, <2>2
    <2>4. ASSUME NEW i \in 1..Len(all), NEW j \in 1..Len(all), i <= j
          PROVE  all[i][1] <= all[j][1]
      <3>1. CASE j = Len(all)
        BY <2>1, <2>3, <3>1
      <3>2. CASE j \in 1..Len(old)
        <4>1. i \in 1..Len(old)
          BY <1>b, <2>4, <3>2
        <4> QED  BY <1>b, <2>1, <2>4, <3>2, <4>1
      <3> QED  BY <2>2, <3>1, <3>2
    <2> QED  BY <2>3, <2>4 DEF Sorted
  <1>5. all[Len(all)][1] >= c
    BY <1>2, <1>3, <1>4, <1>a
  <1>6. /\ in \in Seq(Points) /\ Len(in) \in 1..Len(all)
        /\ \A i \in 1..Len(in) : in[i] = all[Len(all) - Len(in) + i] /\ in[i][1] >= c
        /\ \A i \in 1..(Len(all) - Len(in)) : all[i][1] < c
    BY <1>2, <1>3, <1>4, <1>5, WindowPoints
  <1> HIDE DEF in
  <1>7. in # <<>>
    BY <1>6
  <1>8. /\ u.points \in Seq(Points)
        /\ Len(u.points) = IF Len(in) > max THEN max ELSE Len(in)
        /\ \A i \in 1..Len(u.points) : u.points[i] = in[Len(in) - Len(u.points) + i]
    <2> DEFINE p == Capped(in, max)
    <2>1. /\ p \in Seq(Points)
          /\ Len(p) = IF Len(in) > max THEN max ELSE Len(in)
          /\ \A i \in 1..Len(p) : p[i] = in[Len(in) - Len(p) + i]
      BY <1>2, <1>6, <1>7, CappedPoints
    <2> HIDE DEF p
    <2>2. u.points = p
      BY <1>1 DEF p
    <2> QED  BY <2>1, <2>2, Zenon
  <1> DEFINE n == Len(u.points)
             dropped == Len(all) - n
  <1>9. /\ n \in Nat \ {0} /\ n <= max /\ n <= Len(in) /\ Len(in) <= Len(all)
        /\ Len(in) \in Nat /\ Len(all) \in Nat
    <2> HIDE DEF n
    <2>1. n = IF Len(in) > max THEN max ELSE Len(in)
      BY <1>8 DEF n
    <2> QED  BY <1>2, <1>3, <1>6, <2>1
  <1>10. \A i \in 1..n : u.points[i] = all[dropped + i] /\ u.points[i][1] >= c
    <2> TAKE i \in 1..n
    <2> DEFINE j == Len(in) - n + i
    <2>1. j \in 1..Len(in) /\ Len(all) - Len(in) + j = dropped + i
      BY <1>9
    <2>2. u.points[i] = in[j]
      BY <1>8
    <2> HIDE DEF j, n
    <2>3. in[j] = all[Len(all) - Len(in) + j] /\ in[j][1] >= c
      BY <1>6, <2>1
    <2> QED  BY <2>1, <2>2, <2>3
  <1>11. u.points[n] = new
    <2>1. n \in 1..n /\ dropped + n = Len(all)
      BY <1>9
    <2> QED  BY <1>3, <1>10, <2>1
  <1>12. n < max => \A i \in 1..dropped : all[i][1] < c
    BY <1>2, <1>6, <1>8, <1>9
  <1>13. Sorted(u.points) /\ \A i \in 1..n : u.points[i][1] <= t
    <2>0. n \in Nat /\ Len(all) \in Nat /\ n <= Len(all) /\ dropped = Len(all) - n
      BY <1>9
    <2> HIDE DEF n, dropped
    <2>1. \A i \in 1..n : dropped + i \in 1..Len(all)
      BY <2>0
    <2>2. \A i, j \in 1..n : i <= j => dropped + i <= dropped + j
      BY <2>0
    <2>3. \A i, j \in 1..Len(all) : i <= j => all[i][1] <= all[j][1]
      BY <1>4, Zenon DEF Sorted
    <2>4. \A i \in 1..n : u.points[i] = all[dropped + i]
      BY <1>10, Zenon
    <2>5. Sorted(u.points)
      <3>1. \A i, j \in 1..n : i <= j => u.points[i][1] <= u.points[j][1]
        <4> TAKE i, j \in 1..n
        <4> HAVE i <= j
        <4>1. /\ dropped + i \in 1..Len(all) /\ dropped + j \in 1..Len(all)
              /\ dropped + i <= dropped + j
          BY <2>1, <2>2
        <4>2. u.points[i] = all[dropped + i] /\ u.points[j] = all[dropped + j]
          BY <2>4, Zenon
        <4>3. all[dropped + i][1] <= all[dropped + j][1]
          BY <2>3, <4>1, Zenon
        <4> QED  BY <4>2, <4>3, Zenon
      <3> QED  BY <3>1, Zenon DEF Sorted, n
    <2>6. \A i \in 1..n : u.points[i][1] <= t
      BY <1>4, <2>1, <2>4, Zenon
    <2> QED  BY <2>5, <2>6
  <1>14. Kept(u, t)
    BY <1>1, <1>8, <1>9, <1>13 DEF Kept, max
  <1>15. Suffix(u.points, all)
    <2>1. n \in 1..Len(all)
      BY <1>9
    <2>2. \A i \in 1..n : u.points[i] = all[dropped + i]
      BY <1>10
    <2> QED  BY <2>1, <2>2, Zenon DEF Suffix
  <1>16. Windowed(u.points, all, c, max)
    BY <1>10, <1>12, Zenon DEF Windowed
  <1> QED  BY <1>1, <1>11, <1>14, <1>15, <1>16, Zenon DEF c, max, new

(* push_xy(): the points end with the new one and are no more than the     *)
(* limit, for which one is dropped at most, the oldest.                    *)
THEOREM CurveKept ==
  ASSUME NEW w, NEW x \in Int, NEW y \in Int,
         "points" \in DOMAIN w, "value" \in DOMAIN w, "graph" \in DOMAIN w,
         w.points \in Seq(Points), w.graph.max_points \in Nat \ {0},
         Len(w.points) <= w.graph.max_points,
         NEW all, all = Append(w.points, <<x, y>>), NEW u, u = push_xy(w, x, y)
  PROVE  /\ u.points \in Seq(Points) /\ Len(u.points) <= w.graph.max_points
         /\ u.value = y /\ u.graph = w.graph /\ DOMAIN u = DOMAIN w
         /\ Suffix(u.points, all) /\ u.points[Len(u.points)] = <<x, y>>
         /\ Len(u.points) < w.graph.max_points => Len(u.points) = Len(all)
         /\ Len(u.points) \in {Len(all) - 1, Len(all)}
  <1> DEFINE max == w.graph.max_points
             new == <<x, y>>
             n == Len(u.points)
  <1>1. /\ u.points = Capped(all, max) /\ u.value = y
        /\ u.graph = w.graph /\ DOMAIN u = DOMAIN w
    BY DEF push_xy
  <1>2. new \in Points
    BY DEF Points
  <1>3. /\ all \in Seq(Points) /\ all # <<>> /\ Len(all) = Len(w.points) + 1
        /\ all[Len(all)] = new
    BY <1>2, Appended
  <1>4. max \in Nat \ {0} /\ Len(all) - 1 <= max /\ Len(all) \in Nat \ {0}
    BY <1>3
  <1> HIDE DEF max, new
  <1>5. /\ u.points \in Seq(Points)
        /\ n = IF Len(all) > max THEN max ELSE Len(all)
        /\ \A i \in 1..n : u.points[i] = all[Len(all) - n + i]
    <2> DEFINE p == Capped(all, max)
    <2>1. /\ p \in Seq(Points)
          /\ Len(p) = IF Len(all) > max THEN max ELSE Len(all)
          /\ \A i \in 1..Len(p) : p[i] = all[Len(all) - Len(p) + i]
      BY <1>3, <1>4, CappedPoints
    <2> HIDE DEF p
    <2>2. u.points = p
      BY <1>1 DEF p
    <2> QED  BY <2>1, <2>2, Zenon
  <1> HIDE DEF n
  <1>6. n > 0 /\ n <= max /\ n \in {Len(all) - 1, Len(all)}
    BY <1>4, <1>5
  <1>7. u.points[n] = new
    <2>1. n \in 1..n /\ Len(all) - n + n = Len(all)
      BY <1>4, <1>6
    <2> QED  BY <1>3, <1>5, <2>1
  <1>8. Suffix(u.points, all)
    <2>1. n \in 1..Len(all)
      BY <1>4, <1>5, <1>6
    <2> QED  BY <1>5, <2>1, Zenon DEF Suffix, n
  <1>9. n < max => n = Len(all)
    BY <1>4, <1>5
  <1> QED  BY <1>1, <1>5, <1>6, <1>7, <1>8, <1>9, Zenon DEF max, new, n

-----------------------------------------------------------------------------
(* The newest of what is heard.                                            *)

(* `points` ends with one point more; n of `all` at most were kept, all of  *)
(* Q, and what was dropped below n is not of Q.                            *)
OneMore(points, all) ==
  Len(all) = Len(points) + 1 /\ \A i \in 1..Len(points) : all[i] = points[i]
KeptOf(points, all, n, Q) ==
  /\ Suffix(points, all) /\ Len(points) <= n
  /\ \A i \in 1..Len(points) : points[i] \in Q
  /\ Len(points) < n => \A i \in 1..(Len(all) - Len(points)) : all[i] \notin Q

(* Of the indices in I those remain that Q holds of, and m comes with them. *)
OneIndexMore(I, at, J, atNew, m, Q) ==
  /\ I \in SUBSET Int /\ J \in SUBSET Int /\ m \in Int /\ m \in J /\ J \subseteq I \cup {m}
  /\ \A k \in I : k < m /\ atNew[k] = at[k] /\ (k \in J <=> at[k] \in Q)
  /\ \A k, l \in I : k < l /\ k \in J => l \in J

(* A point is appended and the oldest are dropped: for the limit, or       *)
(* because what they stand for counts no more (is not in Q).  What remains *)
(* are the newest of what counts now.                                      *)
LEMMA NewestStep ==
  ASSUME NEW P, NEW old \in Seq(P), NEW all \in Seq(P), NEW new \in Seq(P),
         NEW n \in Nat \ {0}, NEW Q, OneMore(old, all), KeptOf(new, all, n, Q),
         NEW I, NEW J, NEW m, NEW at, NEW atNew, OneIndexMore(I, at, J, atNew, m, Q),
         AreNewest(old, I, n, at), atNew[m] = all[Len(all)]
  PROVE  AreNewest(new, J, n, atNew)
  <1>0. /\ Len(all) = Len(old) + 1 /\ \A i \in 1..Len(old) : all[i] = old[i]
        /\ Len(new) \in 1..n /\ Len(new) <= Len(all)
        /\ \A i \in 1..Len(new) : new[i] = all[Len(all) - Len(new) + i]
        /\ \A i \in 1..Len(new) : new[i] \in Q
        /\ Len(new) < n => \A i \in 1..(Len(all) - Len(new)) : all[i] \notin Q
    <2>1. Len(new) \in 1..Len(all) /\ Len(new) <= n /\ Len(all) \in Nat
      BY DEF KeptOf, Suffix
    <2> QED  BY <2>1 DEF OneMore, KeptOf, Suffix
  <1>b. /\ I \in SUBSET Int /\ J \in SUBSET Int /\ m \in Int /\ m \in J /\ J \subseteq I \cup {m}
        /\ \A k \in I : k < m /\ atNew[k] = at[k] /\ (k \in J <=> at[k] \in Q)
        /\ \A k, l \in I : k < l /\ k \in J => l \in J
    BY DEF OneIndexMore
  <1> DEFINE N == Len(old)
             L == Len(new)
             d == Len(all) - L
  <1>1. N \in Nat /\ L \in 1..n /\ d \in 0..N /\ Len(all) = N + 1 /\ d + L = N + 1
    BY <1>0
  <1>2. DOMAIN old = 1..N /\ DOMAIN new = 1..L
    OBVIOUS
  <1>3. PICK f \in [DOMAIN old -> I] :
          /\ \A i \in DOMAIN old : old[i] = at[f[i]]
          /\ \A i, j \in DOMAIN old : i < j => f[i] < f[j]
          /\ \A k \in I : \/ \E i \in DOMAIN old : f[i] = k
                         \/ /\ Len(old) = n
                            /\ \A i \in DOMAIN old : k < f[i]
    BY DEF AreNewest
  <1>4. N <= n
    BY DEF AreNewest
  <1> HIDE DEF N, L, d
  <1>5. /\ \A i \in 1..N : f[i] \in I /\ f[i] \in Int /\ f[i] < m
        /\ \A i, j \in 1..N : i < j => f[i] < f[j]
    <2>1. f \in [1..N -> I] /\ \A i, j \in 1..N : i < j => f[i] < f[j]
      BY <1>2, <1>3, Zenon
    <2>2. \A k \in I : k \in Int /\ k < m
      BY <1>b, Zenon
    <2> QED  BY <2>1, <2>2, Zenon
  <1>a. PICK g \in [1..L -> I \cup {m}] :
          /\ \A i \in 1..L : d + i \in 1..N => g[i] = f[d + i]
          /\ \A i \in 1..L : d + i = N + 1 => g[i] = m
    <2>1. N \in Nat /\ L \in Nat /\ d \in Nat
      BY <1>1
    <2> DEFINE S == I \cup {m}
    <2>2. m \in S /\ \A i \in 1..N : f[i] \in S
      BY <1>5, Zenon
    <2> HIDE DEF S
    <2> DEFINE h == [i \in 1..L |-> IF d + i \in 1..N THEN f[d + i] ELSE m]
    <2>3. h \in [1..L -> S]
      BY <2>2
    <2>4. \A i \in 1..L : h[i] = IF d + i \in 1..N THEN f[d + i] ELSE m
      OBVIOUS
    <2> HIDE DEF h
    <2>5. ASSUME NEW i \in 1..L, d + i = N + 1
          PROVE  h[i] = m
      <3>1. d + i \notin 1..N
        BY <2>1, <2>5
      <3> QED  BY <2>4, <3>1
    <2> QED  BY <2>3, <2>4, <2>5 DEF S
  <1>c. \A i \in 1..N : all[i] = at[f[i]] /\ all[i] = atNew[f[i]]
    <2>1. \A i \in 1..N : all[i] = old[i] /\ old[i] = at[f[i]]
      <3>1. \A i \in 1..N : all[i] = old[i]
        BY <1>0, Zenon DEF N
      <3> QED  BY <1>2, <1>3, <3>1, Zenon
    <2>2. \A k \in I : atNew[k] = at[k]
      BY <1>b, Zenon
    <2> QED  BY <1>5, <2>1, <2>2, Zenon
  <1>f. /\ m \in Int /\ m \in J /\ J \subseteq I \cup {m} /\ I \subseteq Int
        /\ all[N + 1] = atNew[m]
    BY <1>b, <1>1
  <1>g. \A k \in I : k < m /\ (k \in J <=> at[k] \in Q)
    BY <1>b, Zenon
  <1>6. \A i \in 1..L : d + i \in 1..N \/ (i = L /\ d + i = N + 1)
    BY <1>1
  <1>d. \A i \in 1..L : new[i] = all[d + i] /\ new[i] \in Q
    BY <1>0 DEF d, L
  <1>7. \A i \in 1..L : g[i] \in J /\ new[i] = atNew[g[i]]
    <2> TAKE i \in 1..L
    <2>1. CASE d + i \in 1..N
      <3>1. g[i] = f[d + i]
        BY <1>1, <1>a, <2>1
      <3>2. f[d + i] \in I /\ new[i] = at[f[d + i]] /\ new[i] = atNew[f[d + i]]
        BY <1>5, <1>c, <1>d, <2>1, Zenon
      <3>3. f[d + i] \in J
        BY <1>d, <1>g, <3>2, Zenon
      <3> QED  BY <3>1, <3>2, <3>3, Zenon
    <2>2. CASE i = L /\ d + i = N + 1
      <3>1. g[i] = m
        BY <1>1, <1>a, <2>2
      <3>2. new[i] = all[N + 1]
        BY <1>d, <2>2
      <3> QED  BY <1>f, <3>1, <3>2, Zenon
    <2> QED  BY <1>6, <2>1, <2>2
  <1>8. \A i, j \in 1..L : i < j => g[i] < g[j]
    <2> SUFFICES ASSUME NEW i \in 1..L, NEW j \in 1..L, i < j PROVE g[i] < g[j]
      OBVIOUS
    <2>1. d + i \in 1..N /\ d + i < d + j /\ g[i] = f[d + i]
      BY <1>1, <1>6, <1>a
    <2>2. CASE d + j \in 1..N
      <3>1. g[j] = f[d + j]
        BY <1>1, <1>a, <2>2
      <3> QED  BY <1>5, <2>1, <2>2, <3>1
    <2>3. CASE d + j = N + 1
      <3>1. g[j] = m
        BY <1>1, <1>a, <2>3
      <3> QED  BY <1>5, <2>1, <3>1, Zenon
    <2> QED  BY <1>6, <2>2, <2>3
  <1>e. ASSUME NEW k \in Int, k < m, NEW c \in 0..d, \A i \in 1..N : i > c => k < f[i]
        PROVE  \A i \in 1..L : k < g[i]
    <2> TAKE i \in 1..L
    <2>1. CASE d + i \in 1..N
      <3>1. g[i] = f[d + i] /\ d + i > c
        BY <1>1, <1>a, <2>1
      <3> QED  BY <1>e, <2>1, <3>1
    <2>2. CASE d + i = N + 1
      <3>1. g[i] = m
        BY <1>1, <1>a, <2>2
      <3> QED  BY <1>e, <3>1
    <2> QED  BY <1>6, <2>1, <2>2
  <1>9. ASSUME NEW k \in J
        PROVE  \/ \E i \in 1..L : g[i] = k
               \/ L = n /\ \A i \in 1..L : k < g[i]
    <2>1. CASE k = m
      <3>1. L \in 1..L /\ d + L = N + 1
        BY <1>1
      <3>2. g[L] = m
        BY <1>a, <3>1
      <3> QED  BY <2>1, <3>1, <3>2, Zenon
    <2>2. CASE k # m /\ \E i \in 1..N : f[i] = k
      <3>1. PICK i \in 1..N : f[i] = k
        BY <2>2
      <3>2. CASE i > d
        <4>1. i - d \in 1..L /\ d + (i - d) = i
          BY <1>1, <3>2
        <4>2. g[i - d] = k
          BY <1>1, <1>a, <3>1, <4>1
        <4> QED  BY <4>1, <4>2
      <3>3. CASE i <= d
        <4>1. k \in I /\ k \in Int /\ k < m /\ all[i] = at[k] /\ i \in 0..d /\ i \in 1..d
          <5>1. k \in I /\ all[i] = at[k]
            BY <1>5, <1>c, <3>1, Zenon
          <5>2. i \in 0..d /\ i \in 1..d
            BY <1>1, <3>3
          <5> QED  BY <1>f, <1>g, <5>1, <5>2
        <4>2. all[i] \in Q
          BY <1>g, <4>1, Zenon
        <4>3. L = n
          <5>1. L < n => all[i] \notin Q
            BY <1>0, <4>1 DEF L, d
          <5> QED  BY <1>1, <4>2, <5>1
        <4>4. \A j \in 1..N : j > i => k < f[j]
          BY <1>5, <3>1
        <4> QED  BY <1>e, <4>1, <4>3, <4>4
      <3> QED  BY <1>1, <3>2, <3>3
    <2>3. CASE k # m /\ ~\E i \in 1..N : f[i] = k
      <3>1. k \in I /\ N = n /\ \A i \in 1..N : k < f[i]
        <4>1. k \in I
          BY <1>f, <2>3, Zenon
        <4> QED  BY <1>2, <1>3, <2>3, <4>1, Zenon DEF N
      <3>2. L = n
        <4> SUFFICES ASSUME L < n PROVE FALSE
          BY <1>1
        <4>1. 1 \in 1..d /\ 1 \in 1..N
          BY <1>1, <3>1
        <4>2. all[1] \notin Q
          BY <1>0, <4>1 DEF L, d
        <4>3. f[1] \in J /\ f[1] \in I /\ at[f[1]] = all[1]
          <5>1. f[1] \in I /\ f[1] \in Int /\ k < f[1] /\ at[f[1]] = all[1]
            BY <1>5, <1>c, <3>1, <4>1, Zenon
          <5>2. k \in Int /\ k \in I
            BY <1>f, <3>1
          <5> QED  BY <1>b, <5>1, <5>2
        <4> QED  BY <1>g, <4>2, <4>3, Zenon
      <3>3. \A i \in 1..L : k < g[i]
        <4>1. k \in Int /\ k < m /\ 0 \in 0..d
          BY <1>1, <1>f, <1>g, <3>1
        <4> QED  BY <1>e, <3>1, <4>1
      <3> QED  BY <3>2, <3>3
    <2> QED  BY <2>1, <2>2, <2>3
  <1>10. /\ \A i \in DOMAIN new : new[i] = atNew[g[i]]
         /\ \A i, j \in DOMAIN new : i < j => g[i] < g[j]
         /\ \A k \in J :
              \/ \E i \in DOMAIN new : g[i] = k
              \/ /\ Len(new) = n
                 /\ \A i \in DOMAIN new : k < g[i]
    BY <1>2, <1>7, <1>8, <1>9, Zenon DEF L
  <1>11. g \in [DOMAIN new -> J]
    BY <1>2, <1>7, <1>a
  <1>12. Len(new) <= n
    BY <1>1 DEF L
  <1> QED  BY <1>10, <1>11, <1>12, Zenon DEF AreNewest

(* A set of indices has a greatest.                                        *)
LEMMA Greatest ==
  ASSUME NEW n \in Nat, NEW S \in SUBSET (1..n), S # {}
  PROVE  Max(S) \in S /\ \A k \in S : k <= Max(S)
  <1> DEFINE T == {k \in Nat : n - k \in S}
             R == OpToRel(<, Nat)
  <1>1. T \subseteq Nat
    OBVIOUS
  <1>2. \A i \in S : i \in Int /\ n - i \in T /\ n - (n - i) = i
    OBVIOUS
  <1>3. T # {}
    BY <1>2
  <1>4. \A k, l \in Nat : <<k, l>> \in R <=> k < l
    BY DEF OpToRel
  <1>5. \A k \in T : k \in Nat /\ n - k \in S
    OBVIOUS
  <1> HIDE DEF T
  <1>6. \E k \in T : \A l \in T : ~(<<l, k>> \in R)
    BY <1>1, <1>3, NatLessThanWellFounded, WFMin, Zenon
  <1> HIDE DEF R
  <1>a. PICK k \in T : \A l \in T : ~(<<l, k>> \in R)
    BY <1>6
  <1>b. ASSUME NEW j \in S
        PROVE  n - k >= j
    <2>1. n - j \in T /\ n - j \in Nat /\ k \in Nat
      BY <1>1, <1>2
    <2>2. ~(n - j < k)
      BY <1>4, <1>a, <2>1
    <2> QED  BY <1>2, <2>1, <2>2
  <1>7. \E x \in S : \A y \in S : x >= y
    BY <1>5, <1>b
  <1>8. Max(S) \in S /\ \A y \in S : Max(S) >= y
    BY <1>7, Zenon DEF Max
  <1> QED  BY <1>8

(* A sequence of messages that were heard.                                 *)
Hearings == [signal : Signals, value : Int, t : Int]

(* g is h with one message more.                                           *)
Follows(h, g) ==
  /\ h \in Seq(Hearings) /\ g \in Seq(Hearings) /\ Len(g) = Len(h) + 1
  /\ \A i \in 1..Len(h) : g[i] = h[i]

(* The messages of a signal among the first n, and the last of them.       *)
LEMMA OfType ==
  ASSUME NEW h \in Seq(Hearings), NEW s, NEW n \in 0..Len(h)
  PROVE  /\ Of(h, s, n) \in SUBSET (1..n)
         /\ Of(h, s, n) # {} => /\ Max(Of(h, s, n)) \in Of(h, s, n)
                                /\ \A k \in Of(h, s, n) : k <= Max(Of(h, s, n))
                                /\ LastOf(h, s, n) \in Hearings
                                /\ LastOf(h, s, n).signal = s
  <1>1. Of(h, s, n) \in SUBSET (1..n)
    BY DEF Of
  <1>2. ASSUME Of(h, s, n) # {}
        PROVE  /\ Max(Of(h, s, n)) \in Of(h, s, n)
               /\ \A k \in Of(h, s, n) : k <= Max(Of(h, s, n))
    BY <1>1, <1>2, Greatest
  <1>3. \A k \in Of(h, s, n) : h[k] \in Hearings /\ h[k].signal = s
    BY DEF Of
  <1> QED  BY <1>1, <1>2, <1>3 DEF LastOf

(* What one more message changes of it: nothing up to the one before, ...  *)
LEMMA OfBefore ==
  ASSUME NEW h, NEW g, Follows(h, g), NEW s, NEW n \in 0..Len(h)
  PROVE  /\ Of(g, s, n) = Of(h, s, n)
         /\ Of(h, s, n) # {} => LastOf(g, s, n) = LastOf(h, s, n)
  <1>1. Of(g, s, n) = Of(h, s, n)
    BY DEF Of, Follows
  <1>2. ASSUME Of(h, s, n) # {}
        PROVE  Max(Of(h, s, n)) \in 1..Len(h)
    BY <1>2, OfType DEF Follows
  <1> QED  BY <1>1, <1>2 DEF LastOf, Follows

(* ... and from there it is the last of its own signal, and no other.      *)
LEMMA OfNext ==
  ASSUME NEW h, NEW g, Follows(h, g), NEW s
  PROVE  LET n == Len(h)
             m == Len(g)
         IN  /\ g[m].signal = s => /\ Of(g, s, m) = Of(h, s, n) \cup {m}
                                   /\ LastOf(g, s, m) = g[m]
             /\ g[m].signal # s => /\ Of(g, s, m) = Of(h, s, n)
                                   /\ Of(h, s, n) # {} => LastOf(g, s, m) = LastOf(h, s, n)
  <1> DEFINE n == Len(h)
             m == Len(g)
  <1>1. n \in Nat /\ m = n + 1 /\ m \in Nat
    BY DEF Follows
  <1>2. CASE g[m].signal = s
    <2>1. Of(g, s, m) = Of(h, s, n) \cup {m}
      BY <1>1, <1>2 DEF Of, Follows
    <2>2. /\ Max(Of(g, s, m)) \in Of(g, s, m)
          /\ \A k \in Of(g, s, m) : k <= Max(Of(g, s, m))
      BY <1>1, <2>1, OfType DEF Follows
    <2>3. Of(g, s, m) \subseteq 1..m
      BY DEF Of
    <2>4. Max(Of(g, s, m)) = m
      BY <1>1, <2>1, <2>2, <2>3
    <2> QED  BY <1>2, <2>1, <2>4 DEF LastOf
  <1>3. CASE g[m].signal # s
    <2>1. Of(g, s, m) = Of(h, s, n)
      BY <1>1, <1>3 DEF Of, Follows
    <2>2. ASSUME Of(h, s, n) # {}
          PROVE  Max(Of(h, s, n)) \in 1..n
      BY <1>1, <2>2, OfType DEF Follows
    <2> QED  BY <1>3, <2>1, <2>2 DEF LastOf, Follows
  <1> QED  BY <1>2, <1>3

(* Whether a signal was heard, and its last value, with one message more.  *)
LEMMA HeardNext ==
  ASSUME NEW h, NEW g, Follows(h, g), NEW s
  PROVE  LET e == g[Len(g)]
         IN  /\ e.signal = s => Hears(g, s) /\ LastHeard(g, s) = e.value
             /\ e.signal # s => /\ Hears(g, s) <=> Hears(h, s)
                                /\ LastHeard(g, s) = LastHeard(h, s)
  <1> DEFINE e == g[Len(g)]
  <1>1. CASE e.signal = s
    BY <1>1, OfNext DEF Hears, LastHeard
  <1>2. CASE e.signal # s
    BY <1>2, OfNext DEF Hears, LastHeard
  <1> QED  BY <1>1, <1>2

(* What was last heard is a value, and nothing is heard of no signal.      *)
LEMMA HeardType ==
  ASSUME NEW h \in Seq(Hearings), NEW s
  PROVE  /\ LastHeard(h, s) \in Int
         /\ Hears(h, s) => LastHeard(h, s) = LastOf(h, s, Len(h)).value
         /\ ~Hears(h, s) => LastHeard(h, s) = 0
         /\ ~Hears(h, NoSignal)
  <1>1. Len(h) \in 0..Len(h)
    OBVIOUS
  <1>2. ASSUME Hears(h, s) PROVE LastOf(h, s, Len(h)).value \in Int
    BY <1>1, <1>2, OfType DEF Hears, Hearings
  <1>3. \A i \in 1..Len(h) : h[i].signal # NoSignal
    <2>1. \A i \in 1..Len(h) : h[i] \in Hearings
      OBVIOUS
    <2> QED  BY <2>1, WidgetsAssumption DEF Hearings, WidgetsAssumption
  <1> QED  BY <1>2, <1>3 DEF LastHeard, Hears, Of

(* The widget is still about the same signals.                             *)
Alike(w, u) == u.signal = w.signal /\ u.graph = w.graph /\ u.type = w.type

(* In the order of time, none later than t.                                *)
Ordered(h, t) ==
  \A i, j \in 1..Len(h) : i <= j => h[i].t <= h[j].t /\ h[j].t <= t

(* What a time series shows is the same after a message of another signal, *)
LEMMA SeriesOther ==
  ASSUME NEW h, NEW g, Follows(h, g), NEW w, NEW u, Alike(w, u),
         g[Len(g)].signal # w.signal
  PROVE  /\ Series(g, u) = Series(h, w)
         /\ \A k \in Series(h, w) : SeriesAt(g)[k] = SeriesAt(h)[k]
  <1> DEFINE n == Len(h)
             m == Len(g)
             s == w.signal
  <1>1. n \in Nat /\ m = n + 1 /\ \A i \in 1..n : g[i] = h[i]
    BY DEF Follows
  <1>2. Of(g, s, m) = Of(h, s, n) /\ Of(h, s, n) \subseteq 1..n
    <2>1. Of(g, s, m) = Of(h, s, n)
      BY OfNext
    <2> QED  BY <2>1 DEF Of
  <1>3. Of(h, s, n) # {} => LastOf(g, s, m) = LastOf(h, s, n)
    BY OfNext
  <1>4. Series(g, u) = Series(h, w)
    BY <1>1, <1>2, <1>3 DEF Series, Alike
  <1>5. ASSUME NEW k \in Series(h, w)
        PROVE  SeriesAt(g)[k] = SeriesAt(h)[k]
    <2>1. k \in 1..n /\ k \in 1..m /\ h[k] = g[k]
      BY <1>1, <1>2 DEF Series
    <2> QED  BY <1>1, <2>1 DEF SeriesAt, Follows
  <1> QED  BY <1>4, <1>5

(* and after one of its own that message and what is in its window.        *)
LEMMA SeriesOwn ==
  ASSUME NEW h, NEW g, Follows(h, g), NEW w, NEW u, Alike(w, u),
         g[Len(g)].signal = w.signal, Ordered(g, g[Len(g)].t),
         w.graph.window_seconds \in Nat
  PROVE  LET e == g[Len(g)]
             m == Len(g)
             I == Series(h, w)
             J == Series(g, u)
             Q == {p \in Int \X Int : p[1] >= e.t - w.graph.window_seconds}
         IN  /\ I \in SUBSET Int /\ J \in SUBSET Int /\ m \in J /\ J \subseteq I \cup {m}
             /\ SeriesAt(g)[m] = <<e.t, e.value>>
             /\ \A k \in I : /\ k < m /\ SeriesAt(g)[k] = SeriesAt(h)[k]
                             /\ k \in J <=> SeriesAt(h)[k] \in Q
             /\ \A k, l \in I : k < l /\ k \in J => l \in J
  <1> DEFINE n == Len(h)
             m == Len(g)
             s == w.signal
             e == g[m]
             I == Series(h, w)
             J == Series(g, u)
             c == e.t - w.graph.window_seconds
             Q == {p \in Int \X Int : p[1] >= c}
  <1>1. n \in Nat /\ m = n + 1 /\ m \in 1..m /\ \A i \in 1..n : g[i] = h[i]
    BY DEF Follows
  <1>2. /\ \A i \in 1..m : g[i] \in Hearings /\ g[i].t \in Int /\ g[i].value \in Int
        /\ \A i, j \in 1..m : i <= j => g[i].t <= g[j].t
        /\ e.t \in Int
    <2>1. \A i \in 1..m : g[i] \in Hearings
      BY DEF Follows
    <2>2. \A x \in Hearings : x.t \in Int /\ x.value \in Int
      BY DEF Hearings
    <2>3. \A i, j \in 1..m : i <= j => g[i].t <= g[j].t
      BY DEF Ordered
    <2> QED  BY <1>1, <2>1, <2>2, <2>3
  <1>3. /\ Of(g, s, m) = Of(h, s, n) \cup {m} /\ LastOf(g, s, m) = e
    BY OfNext
  <1>4. Of(h, s, n) \subseteq 1..n
    BY DEF Of
  <1>5. J = {i \in Of(h, s, n) \cup {m} : g[i].t >= c}
    BY <1>3 DEF Series, Alike
  <1>6. c \in Int /\ c <= e.t
    BY <1>1, <1>2
  <1>7. ASSUME NEW k \in Of(h, s, n), g[k].t >= c
        PROVE  k \in I
    <2>1. LastOf(h, s, n).t \in Int /\ LastOf(h, s, n).t <= e.t
      <3>1. Max(Of(h, s, n)) \in Of(h, s, n)
        BY <1>1, <1>7, OfType DEF Follows
      <3>2. LastOf(h, s, n) = g[Max(Of(h, s, n))] /\ Max(Of(h, s, n)) \in 1..n
        BY <1>1, <1>4, <3>1 DEF LastOf
      <3> QED  BY <1>1, <1>2, <3>2
    <2>2. k \in 1..n /\ h[k] = g[k] /\ g[k].t \in Int
      BY <1>1, <1>2, <1>4
    <2>3. e.t \in Int /\ g[k].t >= c
      BY <1>2, <1>7
    <2> HIDE DEF e
    <2>4. g[k].t >= LastOf(h, s, n).t - w.graph.window_seconds
      BY <2>1, <2>2, <2>3
    <2> QED  BY <1>7, <2>2, <2>4 DEF Series
  <1>8. I \subseteq Of(h, s, n) /\ I \subseteq 1..n
    BY <1>4 DEF Series
  <1>9. ASSUME NEW k \in 1..n
        PROVE  SeriesAt(g)[k] = <<g[k].t, g[k].value>> /\ SeriesAt(h)[k] = <<g[k].t, g[k].value>>
    BY <1>1 DEF SeriesAt, Follows
  <1>10. SeriesAt(g)[m] = <<e.t, e.value>>
    BY <1>1 DEF SeriesAt, Follows
  <1> HIDE DEF I, J, n, m, e, s, c
  <1>11. /\ I \in SUBSET Int /\ J \in SUBSET Int /\ m \in J /\ J \subseteq I \cup {m}
    BY <1>1, <1>2, <1>4, <1>5, <1>6, <1>7, <1>8 DEF e
  <1>12. ASSUME NEW k \in I
         PROVE  /\ k < m /\ SeriesAt(g)[k] = SeriesAt(h)[k]
                /\ k \in J <=> SeriesAt(h)[k] \in Q
    <2>1. k \in 1..n /\ k \in 1..m /\ k \in Of(h, s, n)
      BY <1>1, <1>8
    <2>2. k \in J <=> g[k].t >= c
      BY <1>5, <2>1
    <2>3. <<g[k].t, g[k].value>> \in Int \X Int
      BY <1>2, <2>1
    <2>4. <<g[k].t, g[k].value>> \in Q <=> g[k].t >= c
      BY <2>3
    <2>5. SeriesAt(g)[k] = <<g[k].t, g[k].value>> /\ SeriesAt(h)[k] = <<g[k].t, g[k].value>>
      BY <1>9, <2>1
    <2> HIDE DEF Q
    <2> QED  BY <1>1, <2>1, <2>2, <2>4, <2>5
  <1>13. ASSUME NEW k \in I, NEW l \in I, k < l, k \in J
         PROVE  l \in J
    <2>1. k \in 1..m /\ l \in 1..m /\ k <= l /\ l \in Of(h, s, n) /\ g[k].t >= c
      BY <1>1, <1>5, <1>8, <1>13
    <2>2. g[l].t >= c
      BY <1>2, <1>6, <2>1
    <2> QED  BY <1>5, <2>1, <2>2
  <1> QED  BY <1>10, <1>11, <1>12, <1>13, Zenon DEF I, J, m, e, c

(* The points of an x-y graph up to the last message stay, and one comes   *)
(* with it if it is of one of the signals and both were heard.             *)
LEMMA CurveNext ==
  ASSUME NEW h, NEW g, Follows(h, g), NEW w, NEW u, Alike(w, u)
  PROVE  LET m == Len(g)
             x == w.graph.x_signal
             y == w.signal
             I == Curve(h, w)
         IN  /\ I \in SUBSET Int /\ \A k \in I : k < m /\ CurveAt(g, u)[k] = CurveAt(h, w)[k]
             /\ Curve(g, u) =
                  IF g[m].signal \in {x, y} /\ Hears(g, x) /\ Hears(g, y)
                  THEN I \cup {m} ELSE I
             /\ Hears(g, x) /\ Hears(g, y) =>
                  CurveAt(g, u)[m] = <<LastHeard(g, x), LastHeard(g, y)>>
  <1> DEFINE n == Len(h)
             m == Len(g)
             x == w.graph.x_signal
             y == w.signal
             I == Curve(h, w)
  <1>1. /\ n \in Nat /\ m = n + 1 /\ m \in 1..m /\ h \in Seq(Hearings)
        /\ DOMAIN h = 1..n /\ DOMAIN g = 1..m
    BY DEF Follows
  <1>2. /\ u.graph.x_signal = x /\ u.signal = y
    BY DEF Alike
  <1>3. \A s : Of(h, s, n) \subseteq 1..n
    BY DEF Of
  <1>4. ASSUME NEW s, NEW i \in 0..n
        PROVE  /\ Of(g, s, i) = Of(h, s, i)
               /\ Of(h, s, i) # {} => LastOf(g, s, i) = LastOf(h, s, i)
    BY <1>4, OfBefore DEF Follows
  <1>5. ASSUME NEW s, NEW k
        PROVE  k \in Of(g, s, m) <=> k \in Of(h, s, n) \/ (k = m /\ g[m].signal = s)
    <2>1. CASE g[m].signal = s
      <3>1. Of(g, s, m) = Of(h, s, n) \cup {m}
        BY <2>1, OfNext
      <3> QED  BY <2>1, <3>1
    <2>2. CASE g[m].signal # s
      <3>1. Of(g, s, m) = Of(h, s, n)
        BY <2>2, OfNext
      <3> QED  BY <2>2, <3>1
    <2> QED  BY <2>1, <2>2
  <1>6. I = {i \in Of(h, x, n) \cup Of(h, y, n) : Of(h, x, i) # {} /\ Of(h, y, i) # {}}
    BY DEF Curve
  <1>7. Curve(g, u) = {i \in Of(g, x, m) \cup Of(g, y, m) :
                         Of(g, x, i) # {} /\ Of(g, y, i) # {}}
    BY <1>2 DEF Curve
  <1>8. /\ Hears(g, x) <=> Of(g, x, m) # {}
        /\ Hears(g, y) <=> Of(g, y, m) # {}
    BY DEF Hears
  <1> HIDE DEF n, m, x, y, I
  <1>a. \A s : m \notin Of(h, s, n)
    BY <1>1, <1>3
  <1>9. I \subseteq 1..n
    BY <1>3, <1>6
  <1>10. ASSUME NEW k \in I
         PROVE  CurveAt(g, u)[k] = CurveAt(h, w)[k]
    <2>1. k \in 1..n /\ k \in 1..m /\ k \in 0..n
      BY <1>1, <1>9
    <2>2. Of(h, x, k) # {} /\ Of(h, y, k) # {}
      BY <1>6
    <2>3. LastOf(g, x, k) = LastOf(h, x, k) /\ LastOf(g, y, k) = LastOf(h, y, k)
      BY <1>4, <2>1, <2>2
    <2>4. /\ CurveAt(g, u)[k] = <<LastOf(g, x, k).value, LastOf(g, y, k).value>>
          /\ CurveAt(h, w)[k] = <<LastOf(h, x, k).value, LastOf(h, y, k).value>>
      BY <1>1, <1>2, <2>1 DEF CurveAt, x, y
    <2> QED  BY <2>3, <2>4
  <1>11. ASSUME Hears(g, x), Hears(g, y)
         PROVE  CurveAt(g, u)[m] = <<LastHeard(g, x), LastHeard(g, y)>>
    <2>1. CurveAt(g, u)[m] = <<LastOf(g, x, m).value, LastOf(g, y, m).value>>
      BY <1>1, <1>2 DEF CurveAt
    <2> QED  BY <1>11, <2>1 DEF LastHeard, m
  <1>12. \A k : k \in I <=> k \in Curve(g, u) /\ k # m
    <2> SUFFICES ASSUME NEW k PROVE k \in I <=> k \in Curve(g, u) /\ k # m
      OBVIOUS
    <2>1. k \in Of(g, x, m) \cup Of(g, y, m) /\ k # m <=> k \in Of(h, x, n) \cup Of(h, y, n)
      BY <1>5, <1>a
    <2>2. ASSUME k \in Of(h, x, n) \cup Of(h, y, n)
          PROVE  Of(g, x, k) = Of(h, x, k) /\ Of(g, y, k) = Of(h, y, k)
      <3>1. k \in 0..n
        BY <1>1, <1>3, <2>2
      <3> QED  BY <1>4, <3>1
    <2> QED  BY <1>6, <1>7, <2>1, <2>2
  <1>13. m \in Curve(g, u) <=> g[m].signal \in {x, y} /\ Hears(g, x) /\ Hears(g, y)
    <2>1. m \in Of(g, x, m) \cup Of(g, y, m) <=> g[m].signal \in {x, y}
      BY <1>5, <1>a
    <2> QED  BY <1>7, <1>8, <2>1
  <1>14. Curve(g, u) = IF g[m].signal \in {x, y} /\ Hears(g, x) /\ Hears(g, y)
                       THEN I \cup {m} ELSE I
    BY <1>12, <1>13
  <1>15. I \in SUBSET Int /\ \A k \in I : k < m
    BY <1>1, <1>9
  <1> QED  BY <1>10, <1>11, <1>14, <1>15, Zenon DEF I, m, x, y

(* Points of other indices need not be looked at.                          *)
LEMMA NewestSame ==
  ASSUME NEW points, NEW I, NEW n, NEW at, NEW atNew, AreNewest(points, I, n, at),
         \A k \in I : atNew[k] = at[k]
  PROVE  AreNewest(points, I, n, atNew)
  <1>1. PICK f \in [DOMAIN points -> I] :
          /\ \A i \in DOMAIN points : points[i] = at[f[i]]
          /\ \A i, j \in DOMAIN points : i < j => f[i] < f[j]
          /\ \A k \in I : \/ \E i \in DOMAIN points : f[i] = k
                         \/ /\ Len(points) = n
                            /\ \A i \in DOMAIN points : k < f[i]
    BY DEF AreNewest
  <1>2. \A i \in DOMAIN points : points[i] = atNew[f[i]]
    BY <1>1
  <1> QED  BY <1>1, <1>2 DEF AreNewest

(* No message was heard, and no point is shown.                            *)
LEMMA NewestNone ==
  ASSUME NEW n \in Nat, NEW at, NEW I, I = {}
  PROVE  AreNewest(<<>>, I, n, at)
  <1> DEFINE f == [i \in DOMAIN <<>> |-> 0]
  <1>1. DOMAIN <<>> = {} /\ Len(<<>>) = 0
    OBVIOUS
  <1>2. f \in [DOMAIN <<>> -> I]
    BY <1>1
  <1>3. (\A i \in DOMAIN <<>> : FALSE) /\ (\A k \in I : FALSE) /\ Len(<<>>) <= n
    BY <1>1
  <1> HIDE DEF f
  <1> QED  BY <1>2, <1>3, Zenon DEF AreNewest

-----------------------------------------------------------------------------
(* A widget, message by message.                                           *)

(* Of the widgets' states only what is set changes.                        *)
WithPoints(w, v, points) == [w EXCEPT !.value = v, !.points = points]
WithX(w, p) == [w EXCEPT !.pending_x = p]
WithY(w, p) == [w EXCEPT !.pending_y = p]

(* Setting the value and the points.                                       *)
LEMMA WithPointsSet ==
  ASSUME NEW w \in WidgetStates, NEW v \in Int, NEW points \in Seq(Points),
         NEW u, u = WithPoints(w, v, points)
  PROVE  /\ u \in WidgetStates /\ Alike(w, u) /\ u.value = v /\ u.points = points
         /\ u.pending_x = w.pending_x /\ u.pending_y = w.pending_y
  BY DEF WidgetStates, Alike, Points, WithPoints

(* Setting the pending values.                                             *)
LEMMA WithXSet ==
  ASSUME NEW w \in WidgetStates, NEW p \in Seq(Int), NEW u, u = WithX(w, p)
  PROVE  /\ u \in WidgetStates /\ Alike(w, u) /\ u.value = w.value
         /\ u.points = w.points /\ u.pending_x = p /\ u.pending_y = w.pending_y
  BY DEF WidgetStates, Alike, WithX

(* And so for the vertical one.                                            *)
LEMMA WithYSet ==
  ASSUME NEW w \in WidgetStates, NEW p \in Seq(Int), NEW u, u = WithY(w, p)
  PROVE  /\ u \in WidgetStates /\ Alike(w, u) /\ u.value = w.value
         /\ u.points = w.points /\ u.pending_y = p /\ u.pending_x = w.pending_x
  BY DEF WidgetStates, Alike, WithY

(* What the type of a widget says, in parts.                               *)
LEMMA WidgetTypes ==
  ASSUME NEW w \in WidgetStates
  PROVE  /\ w.graph.max_points \in Nat \ {0} /\ w.graph.window_seconds \in Nat \ {0}
         /\ w.points \in Seq(Points) /\ w.value \in Int /\ w.criticalThreshold \in Int
         /\ {"points", "value", "graph"} \subseteq DOMAIN w
         /\ w.type = "graph" => IsXY(w) \/ w.graph.mode = "time_series"
  BY DEF WidgetStates, Points, IsXY

(* A widget after the messages of h, at t: ...                             *)
SeriesInv(h, w, t) ==
  w.type = "graph" /\ ~IsXY(w) =>
    /\ Kept(w, t)
    /\ AreNewest(w.points, Series(h, w), w.graph.max_points, SeriesAt(h))
PendingOf(h, s) == IF Hears(h, s) THEN <<LastHeard(h, s)>> ELSE <<>>
CurveInv(h, w) ==
  IsXY(w) =>
    /\ w.pending_x = PendingOf(h, w.graph.x_signal)
    /\ w.pending_y = PendingOf(h, w.signal)
    /\ Len(w.points) <= w.graph.max_points
    /\ w.graph.x_signal # w.signal =>
         AreNewest(w.points, Curve(h, w), w.graph.max_points, CurveAt(h, w))
WidgetInv(h, w, t) ==
  /\ w \in WidgetStates
  /\ ~IsXY(w) => w.graph.x_signal = NoSignal
  /\ w.value = ShownValue(h, w)
  /\ SeriesInv(h, w, t) /\ CurveInv(h, w)

(* Time passes.                                                            *)
LEMMA WidgetLater ==
  ASSUME NEW h, NEW w, NEW t \in Int, NEW t1 \in Int, t <= t1, WidgetInv(h, w, t)
  PROVE  WidgetInv(h, w, t1)
  <1>1. ASSUME Kept(w, t), w \in WidgetStates
        PROVE  Kept(w, t1)
    <2>1. \A i \in 1..Len(w.points) : w.points[i][1] \in Int
      BY <1>1 DEF Kept, Points
    <2> QED  BY <1>1, <2>1 DEF Kept
  <1> QED  BY <1>1 DEF WidgetInv, SeriesInv

(* A widget is built.                                                      *)
LEMMA WidgetBuilt ==
  ASSUME NEW wc \in WidgetConfigs, NEW t \in Int
  PROVE  WidgetInv(<<>>, Build(wc), t)
  <1> DEFINE w == Build(wc)
  <1>1. /\ wc.graph \in Graphs /\ wc.type \in {"gauge", "bar", "number", "indicator", "graph"}
        /\ wc.signal \in Signals \cup {NoSignal} /\ wc.alarm \in BOOLEAN
        /\ wc.critical_threshold \in Int
    BY DEF WidgetConfigs
  <1>2. /\ Graph(wc) \in [mode : {"time_series", "xy"}, window_seconds : Nat \ {0},
                          max_points : Nat \ {0}, x_signal : Signals \cup {NoSignal}]
        /\ Graph(wc).mode = wc.graph.mode
        /\ Graph(wc).x_signal = IF wc.type = "graph" /\ wc.graph.mode = "xy"
                                THEN wc.graph.x_signal ELSE NoSignal
    <2> DEFINE g == Graph(wc)
    <2>1. /\ wc.graph.mode \in {"time_series", "xy"} /\ wc.graph.window_seconds \in Int
          /\ wc.graph.max_points \in Nat /\ wc.graph.x_signal \in Signals \cup {NoSignal}
          /\ DOMAIN wc.graph = {"mode", "window_seconds", "max_points", "x_signal"}
      BY <1>1 DEF Graphs
    <2>2. /\ DOMAIN g = DOMAIN wc.graph /\ g.mode = wc.graph.mode
          /\ g.max_points = IF wc.graph.max_points < 1 THEN 1 ELSE wc.graph.max_points
          /\ g.window_seconds = IF wc.graph.window_seconds <= 0 THEN 1
                                ELSE wc.graph.window_seconds
          /\ g.x_signal = IF wc.type = "graph" /\ wc.graph.mode = "xy"
                          THEN wc.graph.x_signal ELSE NoSignal
      BY <2>1 DEF Graph
    <2>3. g = [f \in {"mode", "window_seconds", "max_points", "x_signal"} |-> g[f]]
      BY <2>1 DEF Graph
    <2> HIDE DEF g
    <2>5. /\ g.max_points \in Nat \ {0} /\ g.window_seconds \in Nat \ {0}
          /\ g.mode \in {"time_series", "xy"} /\ g.x_signal \in Signals \cup {NoSignal}
      BY <2>1, <2>2
    <2>6. g \in [mode : {"time_series", "xy"}, window_seconds : Nat \ {0},
                 max_points : Nat \ {0}, x_signal : Signals \cup {NoSignal}]
      BY <2>3, <2>5
    <2> QED  BY <2>2, <2>6 DEF g
  <1>3. w \in WidgetStates
    BY <1>1, <1>2 DEF Build, WidgetStates
  <1>4. /\ w.type = wc.type /\ w.signal = wc.signal /\ w.graph = Graph(wc) /\ w.value = 0
        /\ w.points = <<>> /\ w.pending_x = <<>> /\ w.pending_y = <<>>
    BY DEF Build
  <1>5. Kept(w, t)
    BY <1>1, Built
  <1> HIDE DEF w
  <1>6. \A s, n : n = 0 => Of(<<>>, s, n) = {}
    BY DEF Of
  <1>7. \A s : ~Hears(<<>>, s) /\ LastHeard(<<>>, s) = 0
    <2>1. Len(<<>>) = 0
      OBVIOUS
    <2> QED  BY <1>6, <2>1 DEF Hears, LastHeard
  <1>8. Series(<<>>, w) = {} /\ Curve(<<>>, w) = {}
    <2>1. Len(<<>>) = 0
      OBVIOUS
    <2> QED  BY <1>6, <2>1 DEF Series, Curve
  <1>9. w.graph.max_points \in Nat
    BY <1>2, <1>4
  <1>10. SeriesInv(<<>>, w, t)
    BY <1>4, <1>5, <1>8, <1>9, NewestNone, Zenon DEF SeriesInv
  <1>11. CurveInv(<<>>, w)
    <2>1. Len(w.points) <= w.graph.max_points
      BY <1>4, <1>9
    <2> QED  BY <1>4, <1>7, <1>8, <1>9, <2>1, NewestNone, Zenon DEF CurveInv, PendingOf
  <1>12. w.value = ShownValue(<<>>, w)
    BY <1>4, <1>7 DEF ShownValue, Whole
  <1>13. ~IsXY(w) => w.graph.x_signal = NoSignal
    BY <1>2, <1>4 DEF IsXY
  <1> QED  BY <1>3, <1>10, <1>11, <1>12, <1>13 DEF WidgetInv, w

(* A message of other signals.                                             *)
LEMMA WidgetOther ==
  ASSUME NEW h, NEW g, Follows(h, g), NEW w, NEW t \in Int, WidgetInv(h, w, t),
         g[Len(g)].signal # w.signal, g[Len(g)].signal # w.graph.x_signal
  PROVE  WidgetInv(g, w, t)
  <1>1. Alike(w, w)
    BY DEF Alike
  <1>2. \A s \in {w.signal, w.graph.x_signal} :
          (Hears(g, s) <=> Hears(h, s)) /\ LastHeard(g, s) = LastHeard(h, s)
    BY HeardNext
  <1>3. SeriesInv(g, w, t)
    BY <1>1, SeriesOther, NewestSame DEF WidgetInv, SeriesInv
  <1>4. CurveInv(g, w)
    <2>1. /\ Curve(g, w) = Curve(h, w)
          /\ \A k \in Curve(h, w) : CurveAt(g, w)[k] = CurveAt(h, w)[k]
      BY <1>1, CurveNext
    <2> QED  BY <1>2, <2>1, NewestSame DEF WidgetInv, CurveInv, PendingOf
  <1>5. w.value = ShownValue(g, w)
    BY <1>2 DEF WidgetInv, ShownValue, Silent
  <1> QED  BY <1>3, <1>4, <1>5 DEF WidgetInv

(* A value for a widget that is no graph.                                  *)
LEMMA PlainStep ==
  ASSUME NEW h, NEW g, Follows(h, g), NEW w, NEW t \in Int, WidgetInv(h, w, t),
         w.type # "graph", g[Len(g)].signal = w.signal
  PROVE  WidgetInv(g, set_value(w, g[Len(g)].value, t), t)
  <1> DEFINE v == g[Len(g)].value
             u == set_value(w, v, t)
  <1>1. w \in WidgetStates /\ ~IsXY(w) /\ w.graph.x_signal = NoSignal
    BY DEF WidgetInv, IsXY
  <1>2. LastHeard(g, w.signal) = v /\ v \in Int
    <2>1. LastHeard(g, w.signal) = v
      BY HeardNext
    <2> QED  BY <2>1, HeardType DEF Follows
  <1>3. u = [w EXCEPT !.value = IF w.type = "number" THEN Whole(v) ELSE v]
    BY DEF set_value
  <1>4. Whole(v) \in Int
    BY <1>2 DEF Whole
  <1> HIDE DEF v, u
  <1>5. /\ u \in WidgetStates /\ u.type = w.type /\ u.signal = w.signal /\ u.graph = w.graph
        /\ u.value = IF w.type = "number" THEN Whole(v) ELSE v
    BY <1>1, <1>2, <1>3, <1>4 DEF WidgetStates
  <1>6. ~IsXY(u) /\ u.type # "graph"
    BY <1>5 DEF IsXY
  <1>7. u.value = ShownValue(g, u)
    BY <1>2, <1>5, <1>6 DEF ShownValue, Silent
  <1> QED  BY <1>1, <1>5, <1>6, <1>7 DEF WidgetInv, SeriesInv, CurveInv, u, v

(* The steps of a graph, for its state.                                    *)
LEMMA PushedSeries ==
  ASSUME NEW w \in WidgetStates, NEW t \in Int, NEW v \in Int, Kept(w, t),
         NEW all, all = Append(w.points, <<t, v>>), NEW u, u = push_y(w, t, v)
  PROVE  /\ u \in WidgetStates /\ Alike(w, u) /\ u.value = v /\ Kept(u, t)
         /\ Suffix(u.points, all)
         /\ Windowed(u.points, all, t - w.graph.window_seconds, w.graph.max_points)
  <1>1. /\ w.graph.max_points \in Nat \ {0}
    BY WidgetTypes
  <1>2. w.graph.window_seconds \in Nat \ {0}
    BY WidgetTypes
  <1>3. "points" \in DOMAIN w
    BY WidgetTypes
  <1>4. "value" \in DOMAIN w
    BY WidgetTypes
  <1>5. "graph" \in DOMAIN w
    BY WidgetTypes
  <1>6. /\ u.value = v /\ Kept(u, t) /\ Suffix(u.points, all)
        /\ Windowed(u.points, all, t - w.graph.window_seconds, w.graph.max_points)
    <2> USE <1>1, <1>2, <1>3, <1>4, <1>5, SeriesKept
    <2>1. u.value = v
      OBVIOUS
    <2>2. Kept(u, t)
      OBVIOUS
    <2>3. Suffix(u.points, all)
      OBVIOUS
    <2>4. Windowed(u.points, all, t - w.graph.window_seconds, w.graph.max_points)
      OBVIOUS
    <2> QED  BY <2>1, <2>2, <2>3, <2>4, Zenon
  <1> DEFINE q == u.points
  <1>7. u = WithPoints(w, v, q)
    BY DEF push_y, WithPoints
  <1>8. q \in Seq(Points)
    BY <1>6 DEF Kept
  <1> HIDE DEF q
  <1>9. u \in WidgetStates
    BY <1>7, <1>8, WithPointsSet
  <1>10. Alike(w, u)
    BY <1>7, <1>8, WithPointsSet
  <1> QED  BY <1>6, <1>9, <1>10

(* As CurveKept says it of the points.                                     *)
LEMMA PushedCurve ==
  ASSUME NEW w \in WidgetStates, NEW x \in Int, NEW y \in Int,
         Len(w.points) <= w.graph.max_points,
         NEW all, all = Append(w.points, <<x, y>>), NEW u, u = push_xy(w, x, y)
  PROVE  /\ u \in WidgetStates /\ Alike(w, u) /\ u.value = y
         /\ u.pending_x = w.pending_x /\ u.pending_y = w.pending_y
         /\ Suffix(u.points, all) /\ Len(u.points) <= w.graph.max_points
         /\ Len(u.points) < w.graph.max_points => Len(u.points) = Len(all)
  <1>1. /\ w.graph.max_points \in Nat \ {0}
    BY WidgetTypes
  <1>2. w.points \in Seq(Points)
    BY WidgetTypes
  <1>3. "points" \in DOMAIN w
    BY WidgetTypes
  <1>4. "value" \in DOMAIN w
    BY WidgetTypes
  <1>5. "graph" \in DOMAIN w
    BY WidgetTypes
  <1>6. /\ u.value = y /\ u.points \in Seq(Points)
        /\ Suffix(u.points, all) /\ Len(u.points) <= w.graph.max_points
        /\ Len(u.points) < w.graph.max_points => Len(u.points) = Len(all)
    <2> USE <1>1, <1>2, <1>3, <1>4, <1>5, CurveKept
    <2>1. u.value = y
      BY DEF push_xy
    <2>2. u.points \in Seq(Points)
      OBVIOUS
    <2>3. Suffix(u.points, all)
      OBVIOUS
    <2>4. Len(u.points) <= w.graph.max_points
      OBVIOUS
    <2>5. Len(u.points) < w.graph.max_points => Len(u.points) = Len(all)
      BY SMTT(30)
    <2> QED  BY <2>1, <2>2, <2>3, <2>4, <2>5, ZenonT(60)
  <1> DEFINE q == u.points
  <1>7. u = WithPoints(w, y, q)
    BY DEF push_xy, WithPoints
  <1>8. q \in Seq(Points)
    BY <1>6
  <1> HIDE DEF q
  <1>9. u \in WidgetStates
    BY <1>7, <1>8, WithPointsSet
  <1>10. Alike(w, u)
    BY <1>7, <1>8, WithPointsSet
  <1>11. u.pending_x = w.pending_x
    BY <1>7, <1>8, WithPointsSet
  <1>12. u.pending_y = w.pending_y
    BY <1>7, <1>8, WithPointsSet
  <1> QED  BY <1>6, <1>9, <1>10, <1>11, <1>12

(* A value for a time series.                                              *)
LEMMA SeriesStep ==
  ASSUME NEW h, NEW g, Follows(h, g), NEW w, NEW t \in Int, WidgetInv(h, w, t),
         w.type = "graph", ~IsXY(w), g[Len(g)].signal = w.signal, g[Len(g)].t = t,
         Ordered(g, t)
  PROVE  WidgetInv(g, set_value(w, g[Len(g)].value, t), t)
  <1> DEFINE m == Len(g)
             v == g[m].value
             u == push_y(w, t, v)
             all == Append(w.points, <<t, v>>)
             c == t - w.graph.window_seconds
             max == w.graph.max_points
             Q == {p \in Points : p[1] >= c}
  <1>1. /\ w \in WidgetStates /\ w.graph.x_signal = NoSignal /\ Kept(w, t)
        /\ AreNewest(w.points, Series(h, w), max, SeriesAt(h))
    BY DEF WidgetInv, SeriesInv
  <1>2. LastHeard(g, w.signal) = v /\ v \in Int
    <2>1. LastHeard(g, w.signal) = v
      BY HeardNext
    <2> QED  BY <2>1, HeardType DEF Follows
  <1>3. /\ max \in Nat \ {0} /\ w.graph.window_seconds \in Nat \ {0}
        /\ w.points \in Seq(Points) /\ w.graph.mode = "time_series"
        /\ {"points", "value", "graph"} \subseteq DOMAIN w
    BY <1>1, WidgetTypes
  <1>4. set_value(w, v, t) = u
    BY <1>3 DEF set_value
  <1> HIDE DEF v
  <1>5. /\ u \in WidgetStates /\ Alike(w, u) /\ u.value = v /\ Kept(u, t)
        /\ Suffix(u.points, all)
        /\ Windowed(u.points, all, t - w.graph.window_seconds, w.graph.max_points)
    <2>1. w \in WidgetStates /\ Kept(w, t) /\ v \in Int
      BY <1>1, <1>2
    <2>2. all = Append(w.points, <<t, v>>) /\ u = push_y(w, t, v)
      OBVIOUS
    <2> HIDE DEF all, u
    <2> USE <2>1, <2>2, PushedSeries
    <2>3. u \in WidgetStates
      OBVIOUS
    <2>4. Alike(w, u)
      OBVIOUS
    <2>5. u.value = v
      OBVIOUS
    <2>6. Kept(u, t)
      OBVIOUS
    <2>7. Suffix(u.points, all)
      OBVIOUS
    <2>8. Windowed(u.points, all, t - w.graph.window_seconds, w.graph.max_points)
      BY <2>1, <2>2, PushedSeries, Zenon
    <2> QED  BY <2>3, <2>4, <2>5, <2>6, <2>7, <2>8, Zenon
  <1>6. u.points \in Seq(Points)
    BY <1>5 DEF Kept
  <1>8. /\ all \in Seq(Points) /\ Len(all) = Len(w.points) + 1
        /\ \A i \in 1..Len(w.points) : all[i] = w.points[i]
        /\ all[Len(all)] = <<t, v>>
    <2>1. <<t, v>> \in Points
      BY <1>2 DEF Points
    <2> QED  BY <1>3, <2>1, Appended
  <1> HIDE DEF u, all
  <1>9. Len(u.points) <= max /\ u.graph.max_points = max
    BY <1>5 DEF Kept, Alike
  <1>10. Len(u.points) \in 1..max /\ Len(u.points) <= Len(all)
    <2>1. Len(u.points) \in 1..Len(all) /\ Len(all) \in Nat
      BY <1>5, <1>8 DEF Suffix
    <2> HIDE DEF max
    <2> QED  BY <1>3, <1>9, <2>1
  <1>11. /\ \A i \in 1..Len(u.points) : u.points[i] \in Q
         /\ Len(u.points) < max => \A i \in 1..(Len(all) - Len(u.points)) : all[i] \notin Q
    <2>1. \A i \in 1..Len(u.points) : u.points[i] \in Points
      BY <1>6
    <2>2. \A i \in 1..Len(all) : all[i] \in Points /\ all[i][1] \in Int
      <3>1. \A i \in 1..Len(all) : all[i] \in Points
        BY <1>8
      <3>2. \A p \in Points : p[1] \in Int
        BY DEF Points
      <3> QED  BY <3>1, <3>2, Zenon
    <2>3. c \in Int
      BY <1>3
    <2>4. \A i \in 1..(Len(all) - Len(u.points)) : i \in 1..Len(all)
      BY <1>8, <1>10
    <2>5. \A p \in Points : p[1] \in Int /\ (p \in Q <=> p[1] >= c)
      BY DEF Points
    <2>6. /\ \A i \in 1..Len(u.points) : u.points[i][1] >= c
          /\ Len(u.points) < max => \A i \in 1..(Len(all) - Len(u.points)) : all[i][1] < c
      BY <1>5, Zenon DEF Windowed
    <2> HIDE DEF c, max, Q
    <2>8. \A i \in 1..Len(u.points) : u.points[i] \in Q
      BY <2>1, <2>5, <2>6
    <2>9. ASSUME Len(u.points) < max, NEW i \in 1..(Len(all) - Len(u.points))
          PROVE  all[i] \notin Q
      <3>1. all[i][1] < c /\ all[i] \in Points /\ all[i][1] \in Int
        BY <2>2, <2>4, <2>6, <2>9
      <3> QED  BY <2>3, <2>5, <3>1
    <2> QED  BY <2>8, <2>9
  <1> DEFINE I == Series(h, w)
             J == Series(g, u)
  <1>12. OneIndexMore(I, SeriesAt(h), J, SeriesAt(g), m, Q) /\ SeriesAt(g)[m] = <<t, v>>
    <2>1. w.graph.window_seconds \in Nat /\ m \in Int
      BY <1>3 DEF Follows
    <2>2. Q = {p \in Int \X Int : p[1] >= g[Len(g)].t - w.graph.window_seconds}
      BY DEF Points
    <2> HIDE DEF Q
    <2> QED  BY <1>5, <2>1, <2>2, SeriesOwn DEF v, OneIndexMore
  <1> HIDE DEF I, J, Q, m, max
  <1>13. OneMore(w.points, all) /\ KeptOf(u.points, all, max, Q)
    BY <1>5, <1>8, <1>9, <1>11, Zenon DEF OneMore, KeptOf
  <1>14. SeriesAt(g)[m] = all[Len(all)]
    BY <1>8, <1>12
  <1>15. AreNewest(w.points, I, max, SeriesAt(h))
    BY <1>1 DEF I
  <1>16. OneIndexMore(I, SeriesAt(h), J, SeriesAt(g), m, Q) /\ max \in Nat \ {0}
    BY <1>3, <1>12
  <1>17. w.points \in Seq(Points) /\ u.points \in Seq(Points) /\ all \in Seq(Points)
    BY <1>3, <1>6, <1>8
  <1>18. AreNewest(u.points, J, max, SeriesAt(g))
    BY <1>13, <1>14, <1>15, <1>16, <1>17, NewestStep, Zenon
  <1>19. ~IsXY(u) /\ u.graph.max_points = max
    BY <1>5 DEF Alike, IsXY, max
  <1>20. SeriesInv(g, u, t)
    BY <1>5, <1>18, <1>19 DEF SeriesInv, J
  <1>21. u.value = ShownValue(g, u)
    BY <1>2, <1>5, <1>19 DEF ShownValue, Silent, Alike, v
  <1>22. u.graph.x_signal = NoSignal
    BY <1>1, <1>5, Zenon DEF Alike
  <1>23. CurveInv(g, u)
    BY <1>19, Zenon DEF CurveInv
  <1>24. WidgetInv(g, u, t)
    BY <1>5, <1>19, <1>20, <1>21, <1>22, <1>23, Zenon DEF WidgetInv
  <1> QED  BY <1>4, <1>24 DEF v, m

(* Only the signals and the limits matter.                                 *)
LEMMA CurveAlike ==
  ASSUME NEW h, NEW w, NEW u, Alike(w, u)
  PROVE  /\ Curve(h, u) = Curve(h, w) /\ CurveAt(h, u) = CurveAt(h, w)
         /\ IsXY(u) <=> IsXY(w)
         /\ ShownValue(h, u) = ShownValue(h, w)
  BY DEF Alike, Curve, CurveAt, IsXY, ShownValue, Silent

(* One point more, and one dropped at the limit, or none; ...              *)
Pushed(points, all, n) ==
  /\ Suffix(points, all) /\ Len(points) <= n
  /\ Len(points) < n => Len(points) = Len(all)

(* ... m comes with the indices in I.                                      *)
Joins(I, at, J, atNew, m) ==
  /\ I \in SUBSET Int /\ m \in Int /\ J = I \cup {m}
  /\ \A k \in I : k < m /\ atNew[k] = at[k]

(* The newest are still the newest then.                                   *)
LEMMA NewestPush ==
  ASSUME NEW old \in Seq(Points), NEW all \in Seq(Points), NEW new \in Seq(Points),
         NEW n \in Nat \ {0}, OneMore(old, all), Pushed(new, all, n),
         NEW I, NEW m, NEW J, NEW at, NEW atNew, Joins(I, at, J, atNew, m),
         AreNewest(old, I, n, at), atNew[m] = all[Len(all)]
  PROVE  AreNewest(new, J, n, atNew)
  <1> DEFINE Q == Points \cup {at[k] : k \in I}
  <1>0. /\ Suffix(new, all) /\ Len(new) <= n
        /\ Len(new) < n => Len(new) = Len(all)
        /\ I \in SUBSET Int /\ m \in Int /\ J = I \cup {m}
        /\ \A k \in I : k < m /\ atNew[k] = at[k]
    BY DEF Pushed, Joins
  <1>1. KeptOf(new, all, n, Q)
    <2>1. \A i \in 1..Len(new) : new[i] \in Q
      OBVIOUS
    <2>2. Len(all) \in Nat /\ Len(new) \in Nat
      OBVIOUS
    <2>3. Len(new) < n => \A i \in 1..(Len(all) - Len(new)) : all[i] \notin Q
      <3>1. ASSUME Len(new) < n, NEW i \in 1..(Len(all) - Len(new)) PROVE FALSE
        BY <1>0, <2>2, <3>1
      <3> QED  BY <3>1, Zenon
    <2> HIDE DEF Q
    <2> QED  BY <1>0, <2>1, <2>3, Zenon DEF KeptOf
  <1>2. OneIndexMore(I, at, J, atNew, m, Q)
    <2> USE <1>0
    <2>1. \A k \in I : k \in J /\ at[k] \in Q
      OBVIOUS
    <2>2. J \in SUBSET Int /\ m \in J /\ J \subseteq I \cup {m}
      OBVIOUS
    <2> HIDE DEF Q
    <2> QED  BY <2>1, <2>2, Zenon DEF OneIndexMore
  <1> HIDE DEF Q
  <1> QED  BY <1>1, <1>2, NewestStep, Zenon

(* The last message is for this curve, and both its signals were heard.    *)
Completes(g, w) ==
  /\ g[Len(g)].signal \in {w.graph.x_signal, w.signal}
  /\ Hears(g, w.graph.x_signal) /\ Hears(g, w.signal)

(* The points of a curve with the one that is pushed for a message.        *)
LEMMA CurvePoints ==
  ASSUME NEW h, NEW g, Follows(h, g), NEW w \in WidgetStates,
         AreNewest(w.points, Curve(h, w), w.graph.max_points, CurveAt(h, w)),
         Completes(g, w), NEW u \in WidgetStates, Alike(w, u),
         NEW all \in Seq(Points), OneMore(w.points, all),
         all[Len(all)] = <<LastHeard(g, w.graph.x_signal), LastHeard(g, w.signal)>>,
         Pushed(u.points, all, w.graph.max_points)
  PROVE  AreNewest(u.points, Curve(g, u), w.graph.max_points, CurveAt(g, u))
  <1> DEFINE m == Len(g)
             max == w.graph.max_points
             I == Curve(h, w)
             J == Curve(g, u)
             at == CurveAt(h, w)
             at1 == CurveAt(g, u)
  <1>1. w.points \in Seq(Points) /\ u.points \in Seq(Points)
    BY DEF WidgetStates, Points
  <1>2. /\ I \in SUBSET Int /\ \A k \in I : k < m /\ at1[k] = at[k]
        /\ J = I \cup {m} /\ at1[m] = all[Len(all)]
    BY CurveNext DEF Completes
  <1>3. m \in Int
    BY DEF Follows
  <1>4. AreNewest(w.points, I, max, at) /\ Pushed(u.points, all, max) /\ max \in Nat \ {0}
    BY WidgetTypes
  <1> HIDE DEF I, J, at, at1, m, max
  <1>5. Joins(I, at, J, at1, m) /\ at1[m] = all[Len(all)]
    BY <1>2, <1>3 DEF Joins
  <1>6. AreNewest(u.points, J, max, at1)
    BY <1>1, <1>4, <1>5, NewestPush, Zenon
  <1> QED  BY <1>6 DEF J, at1, max

(* Both signals were heard: their last values make the next point.         *)
LEMMA CurvePushed ==
  ASSUME NEW h, NEW g, Follows(h, g), NEW w \in WidgetStates, NEW t, IsXY(w),
         Completes(g, w), Len(w.points) <= w.graph.max_points,
         w.graph.x_signal # w.signal =>
           AreNewest(w.points, Curve(h, w), w.graph.max_points, CurveAt(h, w)),
         w.pending_x = <<LastHeard(g, w.graph.x_signal)>>,
         w.pending_y = <<LastHeard(g, w.signal)>>,
         NEW u, u = push_xy(w, LastHeard(g, w.graph.x_signal), LastHeard(g, w.signal))
  PROVE  WidgetInv(g, u, t)
  <1> DEFINE a == LastHeard(g, w.graph.x_signal)
             b == LastHeard(g, w.signal)
             all == Append(w.points, <<a, b>>)
             max == w.graph.max_points
  <1>1. a \in Int /\ b \in Int
    BY HeardType DEF Follows
  <1>2. max \in Nat \ {0}
    BY WidgetTypes
  <1>3. all = Append(w.points, <<a, b>>) /\ u = push_xy(w, a, b)
    OBVIOUS
  <1>4. /\ u \in WidgetStates /\ Alike(w, u) /\ u.value = b
        /\ u.pending_x = w.pending_x /\ u.pending_y = w.pending_y
        /\ Suffix(u.points, all) /\ Len(u.points) <= w.graph.max_points
        /\ Len(u.points) < w.graph.max_points => Len(u.points) = Len(all)
    <2> HIDE DEF a, b, all, max
    <2> USE <1>1, <1>3, PushedCurve
    <2>1. u \in WidgetStates
      OBVIOUS
    <2>2. Alike(w, u)
      OBVIOUS
    <2>3. u.value = b
      OBVIOUS
    <2>4. u.pending_x = w.pending_x
      OBVIOUS
    <2>5. u.pending_y = w.pending_y
      OBVIOUS
    <2>6. Suffix(u.points, all)
      BY ZenonT(60)
    <2>7. Len(u.points) <= w.graph.max_points
      OBVIOUS
    <2>8. Len(u.points) < w.graph.max_points => Len(u.points) = Len(all)
      OBVIOUS
    <2> QED  BY <2>1, <2>2, <2>3, <2>4, <2>5, <2>6, <2>7, <2>8, Zenon
  <1>5. /\ all \in Seq(Points) /\ OneMore(w.points, all)
        /\ all[Len(all)] = <<LastHeard(g, w.graph.x_signal), LastHeard(g, w.signal)>>
    <2> DEFINE new == <<a, b>>
    <2>1. new \in Points
      BY <1>1 DEF Points
    <2>2. w.points \in Seq(Points)
      BY DEF WidgetStates, Points
    <2>3. new = <<LastHeard(g, w.graph.x_signal), LastHeard(g, w.signal)>>
      OBVIOUS
    <2> HIDE DEF new
    <2>4. /\ all \in Seq(Points) /\ Len(all) = Len(w.points) + 1
          /\ \A i \in 1..Len(w.points) : all[i] = w.points[i]
          /\ all[Len(all)] = new
      <3>1. all = Append(w.points, new)
        BY DEF new
      <3> HIDE DEF all
      <3>2. /\ Append(w.points, new) \in Seq(Points)
            /\ Len(Append(w.points, new)) = Len(w.points) + 1
            /\ \A i \in 1..Len(w.points) : Append(w.points, new)[i] = w.points[i]
            /\ Append(w.points, new)[Len(Append(w.points, new))] = new
        BY <2>1, <2>2, Appended
      <3> QED  BY <3>1, <3>2, Zenon
    <2> HIDE DEF all
    <2> QED  BY <2>3, <2>4, Zenon DEF OneMore
  <1> HIDE DEF all, max
  <1>6. u.graph = w.graph /\ u.signal = w.signal /\ IsXY(u) /\ u.type = "graph"
    BY <1>4 DEF Alike, IsXY
  <1>a. Pushed(u.points, all, w.graph.max_points)
    BY <1>4, Zenon DEF Pushed
  <1>7. w.graph.x_signal # w.signal =>
          AreNewest(u.points, Curve(g, u), w.graph.max_points, CurveAt(g, u))
    <2> SUFFICES ASSUME w.graph.x_signal # w.signal
                 PROVE  AreNewest(u.points, Curve(g, u), w.graph.max_points, CurveAt(g, u))
      OBVIOUS
    <2>1. AreNewest(w.points, Curve(h, w), w.graph.max_points, CurveAt(h, w))
      OBVIOUS
    <2>3. u \in WidgetStates /\ Alike(w, u)
      BY <1>4
    <2> QED  BY <1>5, <1>a, <2>1, <2>3, CurvePoints, ZenonT(60)
  <1>8. u.pending_x = PendingOf(g, u.graph.x_signal)
       /\ u.pending_y = PendingOf(g, u.signal)
    BY <1>4, <1>6 DEF PendingOf, Completes
  <1>9. CurveInv(g, u)
    BY <1>4, <1>6, <1>7, <1>8, Zenon DEF CurveInv, max
  <1>10. u.value = ShownValue(g, u)
    BY <1>4, <1>6 DEF ShownValue, Silent, Completes
  <1>11. SeriesInv(g, u, t)
    BY <1>6, Zenon DEF SeriesInv
  <1> QED  BY <1>4, <1>6, <1>9, <1>10, <1>11, Zenon DEF WidgetInv

(* Not both signals were heard: the value waits for the other.             *)
LEMMA CurveWaits ==
  ASSUME NEW h, NEW g, Follows(h, g), NEW w \in WidgetStates, NEW t, IsXY(w),
         NEW x, NEW y, x = w.graph.x_signal, y = w.signal,
         ~(Hears(g, x) /\ Hears(g, y)), Len(w.points) <= w.graph.max_points,
         x # y => AreNewest(w.points, Curve(h, w), w.graph.max_points, CurveAt(h, w)),
         w.pending_x = PendingOf(g, x), w.pending_y = PendingOf(g, y),
         w.value = ShownValue(g, w)
  PROVE  WidgetInv(g, w, t)
  <1>1. /\ Curve(g, w) = Curve(h, w)
        /\ \A k \in Curve(h, w) : CurveAt(g, w)[k] = CurveAt(h, w)[k]
    <2>1. Alike(w, w)
      BY DEF Alike
    <2> QED  BY <2>1, CurveNext
  <1>2. x # y => AreNewest(w.points, Curve(g, w), w.graph.max_points, CurveAt(g, w))
    BY <1>1, NewestSame
  <1>3. CurveInv(g, w)
    BY <1>2, Zenon DEF CurveInv
  <1>4. SeriesInv(g, w, t)
    BY Zenon DEF SeriesInv
  <1> QED  BY <1>3, <1>4, Zenon DEF WidgetInv

(* What an x-y graph holds that is still what it was.                      *)
LEMMA CurveHeld ==
  ASSUME NEW h, NEW w, NEW t, WidgetInv(h, w, t), IsXY(w),
         NEW p \in WidgetStates, Alike(w, p), p.points = w.points
  PROVE  /\ IsXY(p) /\ Len(p.points) <= p.graph.max_points
         /\ w.graph.x_signal # w.signal =>
              AreNewest(p.points, Curve(h, p), p.graph.max_points, CurveAt(h, p))
  <1>1. /\ p.graph = w.graph /\ p.signal = w.signal /\ IsXY(p)
        /\ Curve(h, p) = Curve(h, w) /\ CurveAt(h, p) = CurveAt(h, w)
    BY CurveAlike DEF Alike
  <1>2. CurveInv(h, w)
    BY DEF WidgetInv
  <1> QED  BY <1>1, <1>2, Zenon DEF CurveInv

(* A value for the vertical axis of an x-y graph of two signals.           *)
LEMMA YStep ==
  ASSUME NEW h, NEW g, Follows(h, g), NEW w, NEW t, WidgetInv(h, w, t), IsXY(w),
         g[Len(g)].signal = w.signal, w.graph.x_signal # w.signal
  PROVE  WidgetInv(g, set_value(w, g[Len(g)].value, t), t)
  <1> DEFINE v == g[Len(g)].value
             x == w.graph.x_signal
             y == w.signal
             p == WithY(w, <<v>>)
             u == set_value(w, v, t)
  <1>1. /\ w \in WidgetStates /\ w.value = ShownValue(h, w)
        /\ w.pending_x = PendingOf(h, x) /\ w.pending_y = PendingOf(h, y)
    BY DEF WidgetInv, CurveInv
  <1>2. /\ Hears(g, y) /\ LastHeard(g, y) = v
        /\ Hears(g, x) <=> Hears(h, x)
        /\ LastHeard(g, x) = LastHeard(h, x)
    BY HeardNext
  <1>3. v \in Int
    BY <1>2, HeardType DEF Follows
  <1>4. u = IF p.pending_x # <<>> THEN push_xy(p, p.pending_x[1], v) ELSE p
    BY DEF set_value, IsXY, WithY
  <1> HIDE DEF v
  <1>5. <<v>> \in Seq(Int)
    BY <1>3
  <1>6. p = WithY(w, <<v>>)
    OBVIOUS
  <1> HIDE DEF p, u
  <1>7. /\ p \in WidgetStates /\ Alike(w, p) /\ p.value = w.value /\ p.points = w.points
        /\ p.pending_y = <<v>> /\ p.pending_x = w.pending_x
    BY <1>1, <1>5, <1>6, WithYSet, ZenonT(60)
  <1>8. p.graph.x_signal = x /\ p.signal = y /\ p.type = "graph" /\ w.type = "graph"
    BY <1>7 DEF Alike, IsXY
  <1>9. /\ IsXY(p) /\ Len(p.points) <= p.graph.max_points
        /\ p.graph.x_signal # p.signal =>
             AreNewest(p.points, Curve(h, p), p.graph.max_points, CurveAt(h, p))
    BY <1>7, <1>8, CurveHeld
  <1> HIDE DEF x, y
  <1>10. CASE Hears(g, x)
    <2>1. p.pending_x = <<LastHeard(g, x)>> /\ p.pending_y = <<LastHeard(g, y)>>
      BY <1>1, <1>2, <1>7, <1>10 DEF PendingOf
    <2>2. p.pending_x # <<>> /\ p.pending_x[1] = LastHeard(g, x)
      BY <2>1
    <2>3. u = push_xy(p, LastHeard(g, p.graph.x_signal), LastHeard(g, p.signal))
      BY <1>2, <1>4, <1>8, <2>2
    <2>4. Completes(g, p)
      BY <1>2, <1>8, <1>10 DEF Completes, y
    <2>5. /\ p.pending_x = <<LastHeard(g, p.graph.x_signal)>>
          /\ p.pending_y = <<LastHeard(g, p.signal)>>
      BY <1>8, <2>1
    <2>6. WidgetInv(g, u, t)
      BY <1>7, <1>9, <2>3, <2>4, <2>5, CurvePushed, Zenon
    <2> QED  BY <2>6 DEF u, v
  <1>11. CASE ~Hears(g, x)
    <2>1. p.pending_x = <<>> /\ u = p
      BY <1>1, <1>2, <1>4, <1>7, <1>11 DEF PendingOf
    <2>2. p.pending_x = PendingOf(g, p.graph.x_signal) /\ p.pending_y = PendingOf(g, p.signal)
      BY <1>2, <1>7, <1>8, <1>11, <2>1 DEF PendingOf
    <2>3. p.value = ShownValue(g, p)
      <3>1. w.value = 0
        BY <1>1, <1>2, <1>8, <1>11 DEF ShownValue, Silent, x
      <3>2. Silent(g, p)
        BY <1>8, <1>9, <1>11 DEF Silent
      <3> QED  BY <1>7, <1>8, <3>1, <3>2 DEF ShownValue
    <2>4. ~(Hears(g, p.graph.x_signal) /\ Hears(g, p.signal))
      BY <1>8, <1>11
    <2>5. WidgetInv(g, p, t)
      BY <1>7, <1>9, <2>2, <2>3, <2>4, CurveWaits, Zenon
    <2> QED  BY <2>1, <2>5 DEF u, v
  <1> QED  BY <1>10, <1>11

(* A value for its horizontal axis.                                        *)
LEMMA XStep ==
  ASSUME NEW h, NEW g, Follows(h, g), NEW w, NEW t, WidgetInv(h, w, t), IsXY(w),
         g[Len(g)].signal = w.graph.x_signal, w.graph.x_signal # w.signal
  PROVE  WidgetInv(g, set_x_value(w, g[Len(g)].value), t)
  <1> DEFINE v == g[Len(g)].value
             x == w.graph.x_signal
             y == w.signal
             p == WithX(w, <<v>>)
             u == set_x_value(w, v)
  <1>1. /\ w \in WidgetStates /\ w.value = ShownValue(h, w)
        /\ w.pending_x = PendingOf(h, x) /\ w.pending_y = PendingOf(h, y)
    BY DEF WidgetInv, CurveInv
  <1>2. /\ Hears(g, x) /\ LastHeard(g, x) = v
        /\ Hears(g, y) <=> Hears(h, y)
        /\ LastHeard(g, y) = LastHeard(h, y)
    BY HeardNext
  <1>3. v \in Int
    BY <1>2, HeardType DEF Follows
  <1>4. u = IF p.pending_y # <<>> THEN push_xy(p, v, p.pending_y[1]) ELSE p
    BY DEF set_x_value, WithX
  <1> HIDE DEF v
  <1>5. <<v>> \in Seq(Int)
    BY <1>3
  <1>6. p = WithX(w, <<v>>)
    OBVIOUS
  <1> HIDE DEF p, u
  <1>7. /\ p \in WidgetStates /\ Alike(w, p) /\ p.value = w.value /\ p.points = w.points
        /\ p.pending_x = <<v>> /\ p.pending_y = w.pending_y
    BY <1>1, <1>5, <1>6, WithXSet, ZenonT(60)
  <1>8. p.graph.x_signal = x /\ p.signal = y /\ p.type = "graph" /\ w.type = "graph"
    BY <1>7 DEF Alike, IsXY
  <1>9. /\ IsXY(p) /\ Len(p.points) <= p.graph.max_points
        /\ p.graph.x_signal # p.signal =>
             AreNewest(p.points, Curve(h, p), p.graph.max_points, CurveAt(h, p))
    BY <1>7, <1>8, CurveHeld
  <1> HIDE DEF x, y
  <1>10. CASE Hears(g, y)
    <2>1. p.pending_x = <<LastHeard(g, x)>> /\ p.pending_y = <<LastHeard(g, y)>>
      BY <1>1, <1>2, <1>7, <1>10 DEF PendingOf
    <2>2. p.pending_y # <<>> /\ p.pending_y[1] = LastHeard(g, y)
      BY <2>1
    <2>3. u = push_xy(p, LastHeard(g, p.graph.x_signal), LastHeard(g, p.signal))
      BY <1>2, <1>4, <1>8, <2>2
    <2>4. Completes(g, p)
      BY <1>2, <1>8, <1>10 DEF Completes, x
    <2>5. /\ p.pending_x = <<LastHeard(g, p.graph.x_signal)>>
          /\ p.pending_y = <<LastHeard(g, p.signal)>>
      BY <1>8, <2>1
    <2>6. WidgetInv(g, u, t)
      BY <1>7, <1>9, <2>3, <2>4, <2>5, CurvePushed, Zenon
    <2> QED  BY <2>6 DEF u, v
  <1>11. CASE ~Hears(g, y)
    <2>1. p.pending_y = <<>> /\ u = p
      BY <1>1, <1>2, <1>4, <1>7, <1>11 DEF PendingOf
    <2>2. p.pending_x = PendingOf(g, p.graph.x_signal) /\ p.pending_y = PendingOf(g, p.signal)
      BY <1>2, <1>7, <1>8, <1>11, <2>1 DEF PendingOf
    <2>3. p.value = ShownValue(g, p)
      <3>1. LastHeard(h, y) = 0 /\ LastHeard(g, y) = 0
        BY <1>2, <1>11 DEF LastHeard
      <3>2. w.value = 0
        BY <1>1, <1>8, <3>1 DEF ShownValue, y
      <3> QED  BY <1>7, <1>8, <3>1, <3>2 DEF ShownValue
    <2>4. ~(Hears(g, p.graph.x_signal) /\ Hears(g, p.signal))
      BY <1>8, <1>11
    <2>5. WidgetInv(g, p, t)
      BY <1>7, <1>9, <2>2, <2>3, <2>4, CurveWaits, Zenon
    <2> QED  BY <2>1, <2>5 DEF u, v
  <1> QED  BY <1>10, <1>11

(* A value for both, when they are of the same signal.                     *)
LEMMA BothStep ==
  ASSUME NEW h, NEW g, Follows(h, g), NEW w, NEW t, WidgetInv(h, w, t), IsXY(w),
         g[Len(g)].signal = w.signal, w.graph.x_signal = w.signal,
         NEW v, v = g[Len(g)].value
  PROVE  WidgetInv(g, set_x_value(set_value(w, v, t), v), t)
  <1> DEFINE p == WithY(w, <<v>>)
             u == set_value(w, v, t)
             q == WithX(u, <<v>>)
             r == set_x_value(u, v)
             max == w.graph.max_points
  <1>1. /\ w \in WidgetStates /\ w.pending_x = PendingOf(h, w.signal)
        /\ Len(w.points) <= max
    BY DEF WidgetInv, CurveInv
  <1>2. Hears(g, w.signal) /\ LastHeard(g, w.signal) = v
    BY HeardNext
  <1>3. v \in Int
    BY <1>2, HeardType DEF Follows
  <1>4. u = IF p.pending_x # <<>> THEN push_xy(p, p.pending_x[1], v) ELSE p
    BY DEF set_value, IsXY, WithY
  <1>5. r = IF q.pending_y # <<>> THEN push_xy(q, v, q.pending_y[1]) ELSE q
    BY DEF set_x_value, WithX
  <1>6. p = WithY(w, <<v>>) /\ q = WithX(u, <<v>>) /\ <<v>> \in Seq(Int)
    BY <1>3
  <1> HIDE DEF p, u, q, r
  <1>7. /\ p \in WidgetStates /\ Alike(w, p) /\ p.points = w.points
        /\ p.pending_y = <<v>> /\ p.pending_x = w.pending_x
    BY <1>1, <1>6, WithYSet
  <1>8. /\ u \in WidgetStates /\ Alike(p, u) /\ u.pending_y = <<v>>
        /\ Len(u.points) <= max
    <2>1. CASE p.pending_x = <<>>
      <3>1. u = p
        BY <1>4, <2>1
      <3> QED  BY <1>1, <1>7, <3>1 DEF Alike
    <2>2. CASE p.pending_x # <<>>
      <3> DEFINE a == p.pending_x[1]
                 all == Append(p.points, <<a, v>>)
      <3>1. a \in Int
        <4>1. p.pending_x = <<LastHeard(h, w.signal)>>
          BY <1>1, <1>7, <2>2 DEF PendingOf
        <4>2. LastHeard(h, w.signal) \in Int
          BY HeardType DEF Follows
        <4> QED  BY <4>1, <4>2
      <3>2. u = push_xy(p, a, v) /\ all = Append(p.points, <<a, v>>)
        BY <1>4, <2>2
      <3> HIDE DEF a, all
      <3>3. Len(p.points) <= p.graph.max_points /\ p.graph.max_points = max
        BY <1>1, <1>7 DEF Alike
      <3>6. u.pending_y = p.pending_y
        BY <1>7, <3>2 DEF push_xy, WidgetStates
      <3> USE <1>3, <1>7, <3>1, <3>2, <3>3, PushedCurve
      <3>4. u \in WidgetStates
        OBVIOUS
      <3>5. Alike(p, u)
        OBVIOUS
      <3>7. Len(u.points) <= p.graph.max_points
        BY ZenonT(60)
      <3> QED  BY <3>4, <3>5, <3>6, <3>7
    <2> QED  BY <2>1, <2>2
  <1>9. /\ q \in WidgetStates /\ Alike(u, q) /\ q.points = u.points
        /\ q.pending_x = <<v>> /\ q.pending_y = u.pending_y
    BY <1>6, <1>8, WithXSet
  <1>10. /\ q.graph = w.graph /\ q.signal = w.signal /\ q.type = w.type /\ IsXY(q)
         /\ q.graph.x_signal = w.signal
    BY <1>7, <1>8, <1>9 DEF Alike, IsXY
  <1>11. r = push_xy(q, LastHeard(g, q.graph.x_signal), LastHeard(g, q.signal))
    <2>1. q.pending_y # <<>> /\ q.pending_y[1] = v
      BY <1>8, <1>9
    <2> QED  BY <1>2, <1>5, <1>10, <2>1
  <1>12. Completes(g, q)
    BY <1>2, <1>10 DEF Completes
  <1>13. /\ q.pending_x = <<LastHeard(g, q.graph.x_signal)>>
         /\ q.pending_y = <<LastHeard(g, q.signal)>>
    BY <1>2, <1>8, <1>9, <1>10
  <1>14. Len(q.points) <= q.graph.max_points /\ ~(q.graph.x_signal # q.signal)
    BY <1>8, <1>9, <1>10
  <1>15. WidgetInv(g, r, t)
    BY <1>9, <1>10, <1>11, <1>12, <1>13, <1>14, CurvePushed, Zenon
  <1> QED  BY <1>15 DEF r, u

(* A message for a widget, whatever it is to it.                           *)
LEMMA WidgetStep ==
  ASSUME NEW h, NEW g, Follows(h, g), NEW w, NEW t \in Int, WidgetInv(h, w, t),
         NEW msg, g[Len(g)].signal = msg.signal, g[Len(g)].value = msg.value,
         g[Len(g)].t = t, Ordered(g, t)
  PROVE  WidgetInv(g, Updated(w, msg, t), t)
  <1> DEFINE s == msg.signal
             v == g[Len(g)].value
  <1>1. s # NoSignal
    <2>1. g[Len(g)] \in Hearings
      BY DEF Follows
    <2> QED  BY <2>1, WidgetsAssumption DEF Hearings, WidgetsAssumption
  <1>2. w \in WidgetStates /\ (~IsXY(w) => w.graph.x_signal = NoSignal)
    BY DEF WidgetInv
  <1>3. CASE s # w.signal /\ s # w.graph.x_signal
    <2>1. Updated(w, msg, t) = w
      BY <1>3 DEF Updated
    <2>2. g[Len(g)].signal # w.signal /\ g[Len(g)].signal # w.graph.x_signal
      BY <1>3
    <2>3. WidgetInv(g, w, t)
      BY <2>2, WidgetOther, Zenon
    <2> QED  BY <2>1, <2>3, Zenon
  <1>4. CASE s = w.signal /\ s # w.graph.x_signal
    <2>1. Updated(w, msg, t) = set_value(w, v, t)
      BY <1>4 DEF Updated
    <2>2. g[Len(g)].signal = w.signal /\ w.graph.x_signal # w.signal
      BY <1>4
    <2> HIDE DEF s
    <2>3. CASE w.type # "graph"
      <3>1. WidgetInv(g, set_value(w, v, t), t)
        BY <2>2, <2>3, PlainStep, Zenon
      <3> QED  BY <2>1, <3>1, Zenon
    <2>4. CASE w.type = "graph" /\ ~IsXY(w)
      <3>1. WidgetInv(g, set_value(w, v, t), t)
        BY <2>2, <2>4, SeriesStep, Zenon
      <3> QED  BY <2>1, <3>1, Zenon
    <2>5. CASE IsXY(w)
      <3>1. WidgetInv(g, set_value(w, v, t), t)
        BY <2>2, <2>5, YStep, Zenon
      <3> QED  BY <2>1, <3>1, Zenon
    <2> QED  BY <2>3, <2>4, <2>5
  <1>5. CASE s # w.signal /\ s = w.graph.x_signal
    <2>1. Updated(w, msg, t) = set_x_value(w, v)
      BY <1>1, <1>5 DEF Updated
    <2>2. g[Len(g)].signal = w.graph.x_signal /\ w.graph.x_signal # w.signal
      BY <1>5
    <2>3. IsXY(w)
      BY <1>1, <1>2, <1>5
    <2>4. WidgetInv(g, set_x_value(w, v), t)
      BY <2>2, <2>3, XStep, Zenon
    <2> QED  BY <2>1, <2>4, Zenon
  <1>6. CASE s = w.signal /\ s = w.graph.x_signal
    <2>1. Updated(w, msg, t) = set_x_value(set_value(w, v, t), v)
      BY <1>1, <1>6 DEF Updated
    <2>2. g[Len(g)].signal = w.signal /\ w.graph.x_signal = w.signal
      BY <1>6
    <2>3. IsXY(w)
      BY <1>1, <1>2, <1>6
    <2>4. WidgetInv(g, set_x_value(set_value(w, v, t), v), t)
      BY <2>2, <2>3, BothStep, Zenon
    <2> QED  BY <2>1, <2>4, Zenon
  <1> QED  BY <1>3, <1>4, <1>5, <1>6

(* Such a widget shows what it should.                                     *)
LEMMA WidgetShows ==
  ASSUME NEW h \in Seq(Hearings), NEW w, NEW t, WidgetInv(h, w, t)
  PROVE  Shows(h, w)
  <1> DEFINE last == LastHeard(h, w.signal)
             c == w.criticalThreshold
  <1>1. /\ w \in WidgetStates /\ w.value = ShownValue(h, w)
        /\ SeriesInv(h, w, t) /\ CurveInv(h, w)
    BY DEF WidgetInv
  <1>2. last \in Int /\ c \in Int /\ w.alarm \in BOOLEAN
    BY <1>1, HeardType DEF WidgetStates
  <1> HIDE DEF last, c
  <1>3. w.type \in {"gauge", "bar"} => (alarm_active(w) <=> w.alarm /\ last >= c)
    <2>1. w.type \in {"gauge", "bar"} => w.value = last
      BY <1>1 DEF ShownValue, Silent, IsXY, last
    <2> QED  BY <2>1 DEF alarm_active, c
  <1>4. w.type = "graph" /\ ~IsXY(w) =>
          AreNewest(w.points, Series(h, w), w.graph.max_points, SeriesAt(h))
    BY <1>1, Zenon DEF SeriesInv
  <1>5. IsXY(w) /\ w.graph.x_signal # w.signal =>
          AreNewest(w.points, Curve(h, w), w.graph.max_points, CurveAt(h, w))
    BY <1>1, Zenon DEF CurveInv
  <1> QED  BY <1>1, <1>3, <1>4, <1>5, Zenon DEF Shows, last, c

-----------------------------------------------------------------------------
(* The engine, step by step.                                               *)

(* What the steps keep of the engine: a program, its frame, ...            *)
ButtonsInv ==
  /\ proc \in [Programs -> {"off", "exec", "armed", "opened", "loading", "running"}]
  /\ pid \in [Programs -> Pids \cup {NoPid}]
  /\ pidfile \in [Programs -> Pids \cup {NoPid}] /\ flag \in [Programs -> BOOLEAN]
  /\ strangers \subseteq Pids
  /\ gpio \in {"down", "wait", "kill"} /\ presses \in Seq(Programs)
  /\ target \in Pids \cup {NoPid}
  /\ (gpio = "kill") <=> (target # NoPid)
  /\ events \in 0..MaxEvents
  /\ gpio = "kill" => presses # <<>>
FrameInv ==
  /\ file \in Displays /\ reload_flag \in BOOLEAN /\ attached \in BOOLEAN
  /\ phase \in {"off", "reload", "navigate", "consume", "update", "draw"}
  /\ Up <=> phase # "off"
  /\ queue \in Seq(Messages) /\ batch \in 0..Len(queue)
  /\ now \in Nat /\ now <= events
(* ... its screens, and what they show of all that was heard.              *)
ActiveInv ==
  /\ active_screen \in Nat
  /\ screens = <<>> => active_screen = 0
  /\ screens # <<>> => active_screen < Len(screens)
Showing(all, h, t) ==
  /\ all \in Seq(Seq(WidgetStates))
  /\ \A i \in DOMAIN all : \A j \in DOMAIN all[i] : WidgetInv(h, all[i][j], t)
HeardInv ==
  /\ heard \in Seq([signal : Signals, value : Int, t : 0..now]) /\ Ordered(heard, now)
  /\ Showing(screens, heard, now)
CockpitInv == ButtonsInv /\ FrameInv /\ ActiveInv /\ HeardInv

(* What the buttons are.                                                   *)
LEMMA ButtonsStep ==
  ASSUME ButtonsInv, ButtonsNext
  PROVE  ButtonsInv'
  <1> DEFINE States == {"off", "exec", "armed", "opened", "loading", "running"}
  <1>0. /\ proc \in [Programs -> States] /\ pid \in [Programs -> Pids \cup {NoPid}]
        /\ pidfile \in [Programs -> Pids \cup {NoPid}] /\ flag \in [Programs -> BOOLEAN]
        /\ strangers \subseteq Pids /\ gpio \in {"down", "wait", "kill"}
        /\ presses \in Seq(Programs) /\ target \in Pids \cup {NoPid}
        /\ (gpio = "kill") <=> (target # NoPid)
        /\ events \in 0..MaxEvents /\ MaxEvents \in Nat
        /\ gpio = "kill" => presses # <<>>
    BY ButtonsAssumption DEF ButtonsInv, ButtonsAssumption
  <1>1. Event => events' \in 0..MaxEvents
    BY <1>0 DEF Event
  <1>2. /\ Free \subseteq Pids
    BY DEF Free
  <1>3. presses # <<>> => Head(presses) \in Programs /\ Tail(presses) \in Seq(Programs)
    BY <1>0, HeadTailProperties
  <1>4. NoPid \notin Pids
    BY ButtonsAssumption DEF ButtonsAssumption
  <1> DEFINE progs == /\ proc' \in [Programs -> States] /\ pid' \in [Programs -> Pids \cup {NoPid}]
                      /\ pidfile' \in [Programs -> Pids \cup {NoPid}]
                      /\ flag' \in [Programs -> BOOLEAN]
             rest == /\ strangers' \subseteq Pids
                     /\ gpio' \in {"down", "wait", "kill"} /\ presses' \in Seq(Programs)
                     /\ target' \in Pids \cup {NoPid}
                     /\ (gpio' = "kill") <=> (target' # NoPid)
                     /\ events' \in 0..MaxEvents
                     /\ gpio' = "kill" => presses' # <<>>
  <1>5. progs /\ rest => ButtonsInv'
    BY DEF ButtonsInv
  <1>6. ASSUME NEW q \in Programs, Exec(q) \/ Arm(q) \/ OpenPidfile(q) \/ WritePidfile(q) \/ Run(q)
        PROVE  progs /\ rest
    <2>1. progs
      BY <1>0, <1>2, <1>6 DEF Exec, Arm, OpenPidfile, WritePidfile, Run
    <2>2. UNCHANGED <<strangers, gpioVars>> /\ (Event \/ UNCHANGED events)
      BY <1>6, Zenon DEF Exec, Arm, OpenPidfile, WritePidfile, Run
    <2> QED  BY <1>0, <1>1, <2>1, <2>2 DEF gpioVars
  <1>7. ASSUME NEW q \in Programs, Exit(q) \/ Crash(q)
        PROVE  progs /\ rest
    <2>1. progs
      BY <1>0, <1>7 DEF Exit, Crash, Gone
    <2>2. UNCHANGED <<strangers, gpioVars>> /\ Event
      BY <1>7, Zenon DEF Exit, Crash
    <2> QED  BY <1>0, <1>1, <2>1, <2>2 DEF gpioVars
  <1>8. ASSUME NEW q \in Programs, Press(q)
        PROVE  progs /\ rest
    <2>1. Append(presses, q) \in Seq(Programs) /\ Append(presses, q) # <<>>
      BY <1>0, Appended
    <2>2. presses' \in Seq(Programs) /\ (presses # <<>> => presses' # <<>>)
      BY <1>0, <1>8, <2>1 DEF Press
    <2>3. UNCHANGED <<programs, strangers, gpio, target>> /\ Event
      BY <1>8, Zenon DEF Press
    <2> QED  BY <1>0, <1>1, <2>2, <2>3 DEF programs
  <1>9. CASE Toggle
    <2>1. flag' \in [Programs -> BOOLEAN]
      BY <1>0, <1>9 DEF Toggle
    <2>2. UNCHANGED <<proc, pid, pidfile, strangers, gpioVars, events>>
      BY <1>9, Zenon DEF Toggle
    <2>3. progs /\ rest
      BY <1>0, <2>1, <2>2 DEF gpioVars
    <2> QED  BY <1>5, <2>3, Zenon
  <1>10. CASE Stranger
    <2>1. strangers' \subseteq Pids /\ (Event \/ UNCHANGED events)
      BY <1>0, <1>2, <1>10 DEF Stranger
    <2>2. UNCHANGED <<programs, gpioVars>>
      BY <1>10, Zenon DEF Stranger
    <2>3. progs /\ rest
      BY <1>0, <1>1, <2>1, <2>2 DEF gpioVars, programs
    <2> QED  BY <1>5, <2>3, Zenon
  <1>11. CASE GpioStart
    <2>1. progs /\ rest
      BY <1>0, <1>11 DEF GpioStart, programs
    <2> QED  BY <1>5, <2>1, Zenon
  <1>12. CASE GpioEnds
    <2>1. UNCHANGED <<programs, strangers>> /\ Event
      BY <1>12, Zenon DEF GpioEnds
    <2>2. gpio' = "down" /\ presses' = <<>> /\ target' = NoPid
      BY <1>12 DEF GpioEnds
    <2>3. progs /\ rest
      BY <1>0, <1>1, <2>1, <2>2 DEF programs
    <2> QED  BY <1>5, <2>3, Zenon
  <1>13. CASE ReadPidfile
    <2>1. progs /\ rest
      BY <1>0, <1>3, <1>13 DEF ReadPidfile, programs
    <2> QED  BY <1>5, <2>1, Zenon
  <1>14. CASE Kill
    <2>1. progs
      <3>1. CASE UNCHANGED <<proc, pid, flag>>
        BY <1>0, <1>14, <3>1 DEF Kill
      <3>2. CASE \E q \in Programs : flag' = [flag EXCEPT ![q] = TRUE] /\ UNCHANGED <<proc, pid>>
        BY <1>0, <1>14, <3>2 DEF Kill
      <3>3. CASE \E q \in Programs : Gone(q)
        BY <1>0, <1>14, <3>3 DEF Kill, Gone
      <3> QED  BY <1>14, <3>1, <3>2, <3>3, Zenon DEF Kill
    <2>2. /\ strangers' \subseteq Pids /\ gpio' = "wait" /\ presses' \in Seq(Programs)
          /\ target' = NoPid /\ UNCHANGED events
      BY <1>0, <1>3, <1>14 DEF Kill
    <2>3. rest
      BY <1>0, <2>2
    <2> QED  BY <1>5, <2>1, <2>3, Zenon
  <1> HIDE DEF progs, rest
  <1> QED  BY <1>5, <1>6, <1>7, <1>8, <1>9, <1>10, <1>11, <1>12, <1>13, <1>14, Zenon DEF ButtonsNext

(* The engine runs until it is off.                                        *)
LEMMA UpStep ==
  ASSUME ButtonsInv, ButtonsNext, proc["graphics"] = "running",
         proc'["graphics"] # "off"
  PROVE  proc'["graphics"] = "running"
  <1>1. proc \in [Programs -> {"off", "exec", "armed", "opened", "loading", "running"}]
    BY DEF ButtonsInv
  <1>2. ASSUME NEW q \in Programs, Exec(q) \/ Arm(q) \/ OpenPidfile(q) \/ WritePidfile(q) \/ Run(q)
        PROVE  proc'["graphics"] = "running"
    BY <1>1, <1>2 DEF Exec, Arm, OpenPidfile, WritePidfile, Run, Programs
  <1>3. ASSUME NEW q \in Programs, Gone(q)
        PROVE  proc'["graphics"] = "running"
    BY <1>1, <1>3 DEF Gone, Programs
  <1>4. (\E q \in Programs : Gone(q)) \/ UNCHANGED proc
        \/ \E q \in Programs : Exec(q) \/ Arm(q) \/ OpenPidfile(q) \/ WritePidfile(q) \/ Run(q)
    BY Zenon DEF ButtonsNext, Exit, Crash, Press, Toggle, Stranger, GpioStart, GpioEnds,
       ReadPidfile, Kill, programs
  <1> QED  BY <1>2, <1>3, <1>4

(* Time and events.                                                        *)
LEMMA EventsStep ==
  ASSUME ButtonsInv, ButtonsNext
  PROVE  events' \in Nat /\ events' >= events
  <1>1. Event \/ UNCHANGED events
    BY Zenon DEF ButtonsNext, Exec, Arm, OpenPidfile, WritePidfile, Run, Exit, Crash, Press, Toggle,
       Stranger, GpioStart, GpioEnds, ReadPidfile, Kill
  <1>2. events \in Nat
    BY DEF ButtonsInv
  <1> QED  BY <1>1, <1>2 DEF Event

(* The screens that are built of a display show nothing yet, ...           *)
LEMMA ScreensBuilt ==
  ASSUME NEW config \in Displays, NEW t \in Int
  PROVE  Showing(build_screens(config), <<>>, t)
  <1> DEFINE all == build_screens(config)
  <1>1. config \in Seq(Seq(WidgetConfigs))
    BY CockpitAssumption DEF CockpitAssumption
  <1>2. /\ Len(config) \in Nat /\ DOMAIN config = 1..Len(config)
        /\ \A i \in DOMAIN config : config[i] \in Seq(WidgetConfigs)
    BY <1>1
  <1>3. /\ DOMAIN all = DOMAIN config
        /\ \A i \in DOMAIN config :
             all[i] = [j \in DOMAIN config[i] |-> Build(config[i][j])]
        /\ all = [i \in 1..Len(config) |-> all[i]]
    BY <1>2 DEF build_screens
  <1> HIDE DEF all
  <1>4. ASSUME NEW i \in DOMAIN config
        PROVE  /\ all[i] \in Seq(WidgetStates)
               /\ \A j \in DOMAIN all[i] : WidgetInv(<<>>, all[i][j], t)
    <2> DEFINE s == config[i]
               b == all[i]
    <2>1. /\ Len(s) \in Nat /\ DOMAIN s = 1..Len(s)
          /\ \A j \in DOMAIN s : s[j] \in WidgetConfigs
      BY <1>2
    <2>2. b = [j \in 1..Len(s) |-> Build(s[j])]
      BY <1>3, <2>1
    <2> HIDE DEF s, b
    <2>3. \A j \in 1..Len(s) : WidgetInv(<<>>, Build(s[j]), t)
      BY <2>1, WidgetBuilt
    <2>4. \A j \in 1..Len(s) : Build(s[j]) \in WidgetStates
      BY <2>3 DEF WidgetInv
    <2>5. b \in Seq(WidgetStates)
      BY <2>1, <2>2, <2>4, SeqDef
    <2>6. \A j \in DOMAIN b : WidgetInv(<<>>, b[j], t)
      BY <2>2, <2>3
    <2> QED  BY <2>5, <2>6 DEF b
  <1>5. all \in [1..Len(config) -> Seq(WidgetStates)]
    BY <1>2, <1>3, <1>4
  <1>6. all \in Seq(Seq(WidgetStates))
    BY <1>2, <1>5, SeqDef
  <1> QED  BY <1>3, <1>4, <1>6, Zenon DEF Showing, all

(* g is h with a message more, which was taken at t.                       *)
Takes(h, g, msg, t) ==
  /\ Follows(h, g) /\ Ordered(g, t)
  /\ g \in Seq([signal : Signals, value : Int, t : 0..t])
  /\ g[Len(g)].signal = msg.signal /\ g[Len(g)].value = msg.value /\ g[Len(g)].t = t

(* ... and a message is shown by all that it is for.                       *)
LEMMA ScreensUpdated ==
  ASSUME NEW h, NEW g, NEW msg, NEW t \in Int, Takes(h, g, msg, t),
         NEW all, Showing(all, h, t)
  PROVE  /\ Showing(update_all_screens(all, msg, t), g, t)
         /\ Len(update_all_screens(all, msg, t)) = Len(all)
  <1> DEFINE new == update_all_screens(all, msg, t)
  <1>1. /\ all \in Seq(Seq(WidgetStates))
        /\ \A i \in DOMAIN all : \A j \in DOMAIN all[i] : WidgetInv(h, all[i][j], t)
    BY DEF Showing
  <1>2. /\ Len(all) \in Nat /\ DOMAIN all = 1..Len(all)
        /\ \A i \in DOMAIN all : all[i] \in Seq(WidgetStates)
    BY <1>1
  <1>3. /\ DOMAIN new = DOMAIN all
        /\ \A i \in DOMAIN all :
             new[i] = [j \in DOMAIN all[i] |-> Updated(all[i][j], msg, t)]
        /\ new = [i \in 1..Len(all) |-> new[i]]
    BY <1>2 DEF update_all_screens
  <1> HIDE DEF new
  <1>a. ASSUME NEW w, WidgetInv(h, w, t)
        PROVE  WidgetInv(g, Updated(w, msg, t), t)
    BY <1>a, WidgetStep, Zenon DEF Takes
  <1>4. ASSUME NEW i \in DOMAIN all
        PROVE  /\ new[i] \in Seq(WidgetStates)
               /\ \A j \in DOMAIN new[i] : WidgetInv(g, new[i][j], t)
    <2> DEFINE s == all[i]
               b == new[i]
    <2>1. /\ Len(s) \in Nat /\ DOMAIN s = 1..Len(s)
          /\ \A j \in DOMAIN s : WidgetInv(h, s[j], t)
      BY <1>1, <1>2
    <2>2. b = [j \in 1..Len(s) |-> Updated(s[j], msg, t)]
      BY <1>3, <2>1
    <2> HIDE DEF s, b
    <2>3. \A j \in 1..Len(s) : WidgetInv(g, Updated(s[j], msg, t), t)
      BY <1>a, <2>1
    <2>4. \A j \in 1..Len(s) : Updated(s[j], msg, t) \in WidgetStates
      BY <2>3 DEF WidgetInv
    <2>5. b \in Seq(WidgetStates)
      BY <2>1, <2>2, <2>4, SeqDef
    <2>6. \A j \in DOMAIN b : WidgetInv(g, b[j], t)
      BY <2>2, <2>3
    <2> QED  BY <2>5, <2>6 DEF b
  <1>5. new \in [1..Len(all) -> Seq(WidgetStates)]
    BY <1>2, <1>3, <1>4
  <1>6. new \in Seq(Seq(WidgetStates))
    BY <1>2, <1>5, SeqDef
  <1>7. Len(new) = Len(all)
    BY <1>2, <1>3, <1>6, LenProperties
  <1> QED  BY <1>3, <1>4, <1>6, <1>7, Zenon DEF Showing, new

(* A message that is heard.                                                *)
LEMMA MessageHeard ==
  ASSUME NEW t \in Nat, NEW h \in Seq([signal : Signals, value : Int, t : 0..t]), Ordered(h, t),
         NEW msg \in Messages,
         NEW g, g = Append(h, [signal |-> msg.signal, value |-> msg.value, t |-> t])
  PROVE  Takes(h, g, msg, t)
  <1> DEFINE T == [signal : Signals, value : Int, t : 0..t]
             e == [signal |-> msg.signal, value |-> msg.value, t |-> t]
  <1>1. msg \in [signal : Signals, value : Int]
    BY CockpitAssumption DEF CockpitAssumption
  <1>2. e \in T /\ e.signal = msg.signal /\ e.value = msg.value /\ e.t = t
    BY <1>1
  <1>3. T \subseteq Hearings
    BY DEF Hearings
  <1>4. h \in Seq(T) /\ g = Append(h, e)
    OBVIOUS
  <1>5. \A x \in T : x.t \in Int /\ x.t <= t
    OBVIOUS
  <1> HIDE DEF T, e
  <1>6. /\ g \in Seq(T) /\ Len(g) = Len(h) + 1 /\ g[Len(g)] = e
        /\ \A i \in 1..Len(h) : g[i] = h[i]
    <2>1. /\ Append(h, e) \in Seq(T) /\ Len(Append(h, e)) = Len(h) + 1
          /\ \A i \in 1..Len(h) : Append(h, e)[i] = h[i]
          /\ Append(h, e)[Len(Append(h, e))] = e
      BY <1>2, <1>4, Appended
    <2> QED  BY <1>4, <2>1, Zenon
  <1>7. Follows(h, g)
    <2>1. h \in Seq(Hearings) /\ g \in Seq(Hearings)
      BY <1>3, <1>4, <1>6, SeqMonotonic
    <2> QED  BY <1>6, <2>1 DEF Follows
  <1>8. Ordered(g, t)
    <2>1. Len(h) \in Nat
      BY <1>4
    <2>2. \A i \in 1..Len(g) : g[i].t \in Int /\ g[i].t <= t
      BY <1>5, <1>6
    <2>3. \A i, j \in 1..Len(h) : i <= j => h[i].t <= h[j].t
      BY DEF Ordered
    <2>4. ASSUME NEW i \in 1..Len(g), NEW j \in 1..Len(g), i <= j
          PROVE  g[i].t <= g[j].t
      <3>1. CASE j = Len(h) + 1
        BY <1>2, <1>6, <2>2, <3>1
      <3>2. CASE j # Len(h) + 1
        <4>1. i \in 1..Len(h) /\ j \in 1..Len(h)
          BY <1>6, <2>1, <2>4, <3>2
        <4> QED  BY <1>6, <2>3, <2>4, <4>1
      <3> QED  BY <3>1, <3>2
    <2> QED  BY <2>2, <2>4 DEF Ordered
  <1> QED  BY <1>2, <1>6, <1>7, <1>8 DEF T, Takes

(* Time passes for all of them.                                            *)
LEMMA HeardLater ==
  ASSUME HeardInv, now \in Nat, now' \in Nat, now <= now', UNCHANGED <<screens, heard>>
  PROVE  HeardInv'
  <1>1. [signal : Signals, value : Int, t : 0..now] \subseteq
          [signal : Signals, value : Int, t : 0..now']
    OBVIOUS
  <1>2. heard \in Seq([signal : Signals, value : Int, t : 0..now'])
    BY <1>1, SeqMonotonic DEF HeardInv
  <1>3. Ordered(heard, now')
    <2>1. \A i \in 1..Len(heard) : heard[i].t \in Int
      <3>1. \A i \in 1..Len(heard) : heard[i] \in [signal : Signals, value : Int, t : 0..now]
        BY ElementOfSeq DEF HeardInv
      <3> QED  BY <3>1
    <2> QED  BY <2>1 DEF HeardInv, Ordered
  <1>4. ASSUME NEW w, WidgetInv(heard, w, now)
        PROVE  WidgetInv(heard, w, now')
    BY <1>4, WidgetLater
  <1>5. Showing(screens, heard, now')
    BY <1>4 DEF HeardInv, Showing
  <1> QED  BY <1>2, <1>3, <1>5 DEF HeardInv

(* Nothing is heard of the screens that are new.                           *)
LEMMA HeardAnew ==
  ASSUME now \in Nat, now' = now, heard' = <<>>, Showing(screens', <<>>, now)
  PROVE  HeardInv'
  <1>1. Ordered(<<>>, now)
    BY DEF Ordered
  <1>2. <<>> \in Seq([signal : Signals, value : Int, t : 0..now])
    OBVIOUS
  <1> QED  BY <1>1, <1>2 DEF HeardInv

(* The engine's own steps leave the buttons alone but for a press taken.   *)
LEMMA EngineKeepsButtons ==
  ASSUME ButtonsInv, UNCHANGED <<proc, pid, pidfile, strangers, gpioVars>>,
         flag' \in [Programs -> BOOLEAN], Event \/ UNCHANGED events
  PROVE  /\ ButtonsInv' /\ (Up' <=> Up)
         /\ events \in Nat /\ events' \in Nat /\ events <= events'
         /\ Event => events' = events + 1
  <1>1. events \in 0..MaxEvents /\ MaxEvents \in Nat
    BY ButtonsAssumption DEF ButtonsInv, ButtonsAssumption
  <1>2. events' \in 0..MaxEvents
    BY <1>1 DEF Event
  <1>3. ButtonsInv'
    BY <1>2, Zenon DEF ButtonsInv, gpioVars
  <1> QED  BY <1>1, <1>3 DEF Up, Event

(* Steps that leave the screens alone leave what they show alone.          *)
LEMMA SameScreens ==
  ASSUME ActiveInv, HeardInv, UNCHANGED <<screens, heard, now>>
  PROVE  HeardInv' /\ (UNCHANGED active_screen => ActiveInv')
  BY Zenon DEF ActiveInv, HeardInv

(* The initial state satisfies the invariant.                              *)
LEMMA InitCockpit == Init => CockpitInv
  <1> SUFFICES ASSUME Init PROVE CockpitInv
    OBVIOUS
  <1>1. ButtonsInv
    BY ButtonsAssumption
       DEF Init, ButtonsInit, ButtonsInv, ButtonsAssumption
  <1>2. FrameInv
    <2>1. queue \in Seq(Messages) /\ batch \in 0..Len(queue)
      BY EmptySeq DEF Init
    <2>2. ~Up /\ phase = "off"
      BY DEF Init, ButtonsInit, Up, Programs
    <2>3. file \in Displays /\ reload_flag \in BOOLEAN /\ attached \in BOOLEAN
      BY DEF Init
    <2>4. now \in Nat /\ now <= events
      BY DEF Init, ButtonsInit
    <2> QED  BY <2>1, <2>2, <2>3, <2>4, Zenon DEF FrameInv
  <1>3. ActiveInv
    BY DEF Init, ActiveInv
  <1>4. HeardInv
    BY DEF Init, HeardInv, Showing, Ordered
  <1> QED  BY <1>1, <1>2, <1>3, <1>4 DEF CockpitInv

(* A step of the buttons may begin or end the engine.                      *)
LEMMA ButtonsCockpit ==
  ASSUME CockpitInv, Buttons
  PROVE  CockpitInv'
  <1>1. /\ ButtonsInv /\ FrameInv /\ ActiveInv /\ HeardInv
        /\ ButtonsNext /\ UNCHANGED <<file, now>>
    BY DEF CockpitInv, Buttons
  <1>2. ButtonsInv'
    BY <1>1, ButtonsStep
  <1>3. events \in Nat /\ events' \in Nat /\ events <= events' /\ now \in Nat /\ now <= events
    BY <1>1, EventsStep DEF ButtonsInv, FrameInv
  <1>4. \/ Begin /\ Up'
        \/ Idle /\ reload_flag' = FALSE /\ ~Up'
        \/ UNCHANGED engineVars /\ (Up' <=> Up)
    BY <1>1, UpStep DEF Buttons, Up
  <1>5. CASE Begin /\ Up'
    <2>1. Showing(screens', <<>>, now)
      BY <1>1, <1>3, <1>5, ScreensBuilt DEF FrameInv, Begin
    <2>2. HeardInv'
      BY <1>1, <1>3, <1>5, <2>1, HeardAnew DEF Begin
    <2>3. screens' \in Seq(Seq(WidgetStates))
      BY <2>1 DEF Showing
    <2>4. ActiveInv'
      <3>1. active_screen' = 0
        BY <1>5 DEF Begin
      <3>2. screens' # <<>> => 0 < Len(screens')
        BY <2>3, EmptySeq
      <3> QED  BY <3>1, <3>2 DEF ActiveInv
    <2>5. FrameInv'
      BY <1>1, <1>3, <1>5 DEF FrameInv, Begin
    <2> QED  BY <1>2, <2>2, <2>4, <2>5 DEF CockpitInv
  <1>6. CASE Idle /\ reload_flag' = FALSE /\ ~Up'
    <2>1. Showing(<<>>, <<>>, now) /\ screens' = <<>>
      BY <1>6 DEF Showing, Idle
    <2>2. HeardInv'
      BY <1>1, <1>3, <1>6, <2>1, HeardAnew DEF Idle
    <2>3. ActiveInv'
      BY <1>6 DEF ActiveInv, Idle
    <2>4. FrameInv'
      <3>1. queue' \in Seq(Messages) /\ batch' \in 0..Len(queue')
        BY <1>6, EmptySeq DEF Idle
      <3>2. /\ file' \in Displays /\ reload_flag' \in BOOLEAN /\ attached' \in BOOLEAN
            /\ phase' = "off"
        BY <1>1, <1>6 DEF FrameInv, Idle
      <3>3. now' \in Nat /\ now' <= events'
        BY <1>1, <1>3
      <3> QED  BY <1>6, <3>1, <3>2, <3>3, Zenon DEF FrameInv
    <2> QED  BY <1>2, <2>2, <2>3, <2>4 DEF CockpitInv
  <1>7. CASE UNCHANGED engineVars /\ (Up' <=> Up)
    <2>1. ActiveInv' /\ HeardInv'
      BY <1>1, <1>7, SameScreens DEF engineVars
    <2>2. FrameInv'
      BY <1>1, <1>3, <1>7 DEF FrameInv, engineVars
    <2> QED  BY <1>2, <2>1, <2>2 DEF CockpitInv
  <1> QED  BY <1>4, <1>5, <1>6, <1>7

(* The screens are built of what is in the file now.                       *)
LEMMA ReloadCockpit ==
  ASSUME CockpitInv, Reload
  PROVE  CockpitInv'
  <1>1. ButtonsInv /\ FrameInv /\ ActiveInv /\ HeardInv
    BY DEF CockpitInv
  <1>2. /\ Up /\ phase' = "navigate" /\ reload_flag' = FALSE
        /\ UNCHANGED <<buttonVars, attached, queue, batch, file, now>>
    BY DEF Reload
  <1>3. ButtonsInv' /\ Up'
    BY <1>1, <1>2, Zenon DEF ButtonsInv, Up, buttonVars
  <1>4. FrameInv'
    BY <1>1, <1>2, <1>3 DEF FrameInv, buttonVars
  <1>5. CASE reload_flag
    <2>1. /\ screens' = build_screens(file) /\ heard' = <<>>
          /\ active_screen' = Clamped(active_screen, Len(screens'))
      BY <1>5 DEF Reload
    <2>2. file \in Displays /\ now \in Nat /\ now' = now
      BY <1>1, <1>2 DEF FrameInv
    <2>3. Showing(screens', <<>>, now)
      BY <2>1, <2>2, ScreensBuilt
    <2>4. HeardInv'
      BY <2>1, <2>2, <2>3, HeardAnew
    <2>5. Len(screens') \in Nat /\ (screens' # <<>> <=> Len(screens') > 0)
      <3>1. screens' \in Seq(Seq(WidgetStates))
        BY <2>3 DEF Showing
      <3> QED  BY <3>1, EmptySeq, LenProperties
    <2>6. ActiveInv'
      <3>1. active_screen \in Nat
        BY <1>1 DEF ActiveInv
      <3> QED  BY <2>1, <2>5, <3>1 DEF ActiveInv, Clamped
    <2> QED  BY <1>3, <1>4, <2>4, <2>6 DEF CockpitInv
  <1>6. CASE ~reload_flag
    <2>1. ActiveInv' /\ HeardInv'
      BY <1>1, <1>2, <1>6, SameScreens DEF Reload
    <2> QED  BY <1>3, <1>4, <2>1 DEF CockpitInv
  <1> QED  BY <1>5, <1>6

(* A press or a key moves on to another screen that there is.              *)
LEMMA NavigateCockpit ==
  ASSUME CockpitInv, handle_screen_navigation
  PROVE  CockpitInv'
  <1>1. ButtonsInv /\ FrameInv /\ ActiveInv /\ HeardInv
    BY DEF CockpitInv
  <1>2. /\ Up /\ phase' = "consume" /\ (Event \/ UNCHANGED events)
        /\ UNCHANGED <<proc, pid, pidfile, strangers, gpioVars, reload_flag, screens,
                       attached, queue, batch, file, now, heard>>
    BY Zenon DEF handle_screen_navigation
  <1>3. flag' \in [Programs -> BOOLEAN]
    <2>1. flag \in [Programs -> BOOLEAN]
      BY <1>1 DEF ButtonsInv
    <2> QED  BY <2>1, Zenon DEF handle_screen_navigation, Taken, Programs
  <1>4. ButtonsInv' /\ Up' /\ events <= events' /\ events \in Nat /\ events' \in Nat
    BY <1>1, <1>2, <1>3, EngineKeepsButtons
  <1>5. FrameInv'
    BY <1>1, <1>2, <1>4 DEF FrameInv
  <1>6. HeardInv'
    BY <1>1, <1>2, SameScreens
  <1>7. ActiveInv'
    <2>1. active_screen' = active_screen
          \/ (screens # <<>> /\ active_screen' = (active_screen + 1) % Len(screens))
      BY DEF handle_screen_navigation
    <2>2. active_screen \in Nat /\ (screens # <<>> => Len(screens) \in Nat \ {0})
      <3>1. screens \in Seq(Seq(WidgetStates))
        BY <1>1 DEF HeardInv, Showing
      <3> QED  BY <1>1, <3>1, EmptySeq DEF ActiveInv
    <2>3. CASE UNCHANGED active_screen
      BY <1>1, <1>2, <2>3 DEF ActiveInv
    <2>4. CASE screens # <<>> /\ active_screen' = (active_screen + 1) % Len(screens)
      BY <1>2, <2>2, <2>4 DEF ActiveInv
    <2> QED  BY <2>1, <2>3, <2>4
  <1> QED  BY <1>4, <1>5, <1>6, <1>7 DEF CockpitInv

(* A message is taken from the queue to all screens.                       *)
LEMMA UpdateCockpit ==
  ASSUME CockpitInv, Update
  PROVE  CockpitInv'
  <1>1. ButtonsInv /\ FrameInv /\ ActiveInv /\ HeardInv
    BY DEF CockpitInv
  <1>2. /\ Up /\ phase = "update"
        /\ UNCHANGED <<buttonVars, reload_flag, active_screen, attached, file, now>>
    BY DEF Update
  <1>3. ButtonsInv' /\ Up'
    BY <1>1, <1>2, Zenon DEF ButtonsInv, Up, buttonVars
  <1>4. CASE batch = 0
    <2>1. phase' = "draw" /\ UNCHANGED <<screens, queue, batch, heard>>
      BY <1>4 DEF Update
    <2>2. ActiveInv' /\ HeardInv'
      BY <1>1, <1>2, <2>1, SameScreens
    <2>3. FrameInv'
      BY <1>1, <1>2, <1>3, <2>1 DEF FrameInv, buttonVars
    <2> QED  BY <1>3, <2>2, <2>3 DEF CockpitInv
  <1>5. CASE batch # 0
    <2> DEFINE msg == Head(queue)
    <2>1. /\ screens' = update_all_screens(screens, msg, now)
          /\ heard' = Append(heard, [signal |-> msg.signal, value |-> msg.value, t |-> now])
          /\ queue' = Tail(queue) /\ batch' = batch - 1 /\ phase' = phase
      BY <1>5 DEF Update
    <2>2. queue \in Seq(Messages) /\ batch \in 1..Len(queue) /\ now \in Nat
      BY <1>1, <1>5 DEF FrameInv
    <2>3. queue # <<>> /\ Len(queue) \in Nat
      BY <2>2
    <2>4. /\ msg \in Messages /\ Tail(queue) \in Seq(Messages)
          /\ Len(Tail(queue)) = Len(queue) - 1
      BY <2>2, <2>3, HeadTailProperties
    <2>5. queue' \in Seq(Messages) /\ batch' \in 0..Len(queue')
      <3>1. Len(queue') = Len(queue) - 1
        BY <2>1, <2>4, Zenon
      <3> QED  BY <2>1, <2>2, <2>3, <2>4, <3>1
    <2>6. FrameInv'
      BY <1>1, <1>2, <1>3, <2>1, <2>5 DEF FrameInv, buttonVars
    <2> HIDE DEF msg
    <2>7. /\ heard \in Seq([signal : Signals, value : Int, t : 0..now])
          /\ Ordered(heard, now) /\ Showing(screens, heard, now)
      BY <1>1 DEF HeardInv
    <2> DEFINE g == heard'
    <2>8. Takes(heard, g, msg, now)
      <3>1. g = Append(heard, [signal |-> msg.signal, value |-> msg.value, t |-> now])
        BY <2>1
      <3> HIDE DEF g
      <3> QED  BY <2>2, <2>4, <2>7, <3>1, MessageHeard, Zenon
    <2> HIDE DEF g
    <2>9. /\ Showing(update_all_screens(screens, msg, now), g, now)
          /\ Len(update_all_screens(screens, msg, now)) = Len(screens)
      BY <2>2, <2>7, <2>8, ScreensUpdated
    <2>10. HeardInv'
      BY <1>2, <2>1, <2>8, <2>9, Zenon DEF HeardInv, Takes, g
    <2>11. ActiveInv'
      <3>1. screens \in Seq(Seq(WidgetStates)) /\ screens' \in Seq(Seq(WidgetStates))
        BY <2>1, <2>7, <2>9, Zenon DEF Showing
      <3>2. Len(screens') = Len(screens) /\ active_screen' = active_screen
        BY <1>2, <2>1, <2>9, Zenon
      <3>3. screens' = <<>> <=> screens = <<>>
        BY <3>1, <3>2, EmptySeq
      <3> QED  BY <1>1, <3>2, <3>3 DEF ActiveInv
    <2> QED  BY <1>3, <2>6, <2>10, <2>11 DEF CockpitInv
  <1> QED  BY <1>4, <1>5

(* The other steps do not touch the screens.                               *)
LEMMA OtherCockpit ==
  ASSUME CockpitInv, Save \/ Push \/ Consume \/ Draw
  PROVE  CockpitInv'
  <1>1. ButtonsInv /\ FrameInv /\ ActiveInv /\ HeardInv
    BY DEF CockpitInv
  <1>2. flag \in [Programs -> BOOLEAN]
    BY <1>1 DEF ButtonsInv
  <1>3. CASE Save
    <2>1. /\ Event /\ UNCHANGED <<proc, pid, pidfile, flag, strangers, gpioVars, phase, screens,
                                  active_screen, attached, queue, batch, now, heard>>
      BY <1>3, Zenon DEF Save, programs
    <2>2. ButtonsInv' /\ (Up' <=> Up) /\ events <= events' /\ events \in Nat /\ events' \in Nat
      BY <1>1, <1>2, <2>1, EngineKeepsButtons
    <2>3. ActiveInv' /\ HeardInv'
      BY <1>1, <2>1, SameScreens
    <2>4. FrameInv'
      BY <1>1, <1>3, <2>1, <2>2 DEF FrameInv, Save
    <2> QED  BY <2>2, <2>3, <2>4 DEF CockpitInv
  <1>4. CASE Push
    <2>1. /\ Event /\ UNCHANGED <<proc, pid, pidfile, flag, strangers, gpioVars, reload_flag, phase,
                                  screens, active_screen, attached, batch, file, now, heard>>
      BY <1>4, Zenon DEF Push, programs
    <2>2. ButtonsInv' /\ (Up' <=> Up) /\ events <= events' /\ events \in Nat /\ events' \in Nat
      BY <1>1, <1>2, <2>1, EngineKeepsButtons
    <2>3. ActiveInv' /\ HeardInv'
      BY <1>1, <2>1, SameScreens
    <2>4. queue' \in Seq(Messages) /\ batch \in 0..Len(queue')
      <3>1. PICK m \in Messages : queue' = Append(queue, m)
        BY <1>4 DEF Push
      <3>2. queue \in Seq(Messages) /\ batch \in 0..Len(queue)
        BY <1>1 DEF FrameInv
      <3>3. Append(queue, m) \in Seq(Messages) /\ Len(Append(queue, m)) = Len(queue) + 1
        BY <3>2, Appended
      <3>4. Len(queue') = Len(queue) + 1 /\ queue' \in Seq(Messages)
        BY <3>1, <3>3, Zenon
      <3> QED  BY <3>2, <3>4
    <2>5. FrameInv'
      BY <1>1, <2>1, <2>2, <2>4 DEF FrameInv
    <2> QED  BY <2>2, <2>3, <2>5 DEF CockpitInv
  <1>5. CASE Consume
    <2>1. /\ UNCHANGED <<buttonVars, reload_flag, screens, active_screen, queue, file, now, heard>>
          /\ Up /\ phase' \in {"update", "draw"} /\ attached' \in BOOLEAN
          /\ batch' \in {batch, Len(queue)}
      BY <1>1, <1>5 DEF Consume, FrameInv
    <2>2. ButtonsInv' /\ Up'
      BY <1>1, <2>1, Zenon DEF ButtonsInv, Up, buttonVars
    <2>3. ActiveInv' /\ HeardInv'
      BY <1>1, <2>1, SameScreens
    <2>4. FrameInv'
      BY <1>1, <2>1, <2>2 DEF FrameInv, buttonVars
    <2> QED  BY <2>2, <2>3, <2>4 DEF CockpitInv
  <1>6. CASE Draw
    <2>1. /\ UNCHANGED <<proc, pid, pidfile, flag, strangers, gpioVars, reload_flag, screens,
                         active_screen, attached, queue, batch, file, heard>>
          /\ Up /\ phase' = "reload"
          /\ (now' = now + 1 /\ Event) \/ UNCHANGED <<now, events>>
      BY <1>6, Zenon DEF Draw, programs
    <2>2. /\ ButtonsInv' /\ Up' /\ events <= events' /\ events \in Nat /\ events' \in Nat
          /\ Event => events' = events + 1
      BY <1>1, <1>2, <2>1, EngineKeepsButtons
    <2>3. now \in Nat /\ now <= events
      BY <1>1 DEF FrameInv
    <2>4. now' \in Nat /\ now <= now' /\ now' <= events'
      BY <2>1, <2>2, <2>3
    <2>5. HeardInv'
      BY <1>1, <2>1, <2>3, <2>4, HeardLater
    <2>6. ActiveInv'
      BY <1>1, <2>1 DEF ActiveInv
    <2>7. FrameInv'
      BY <1>1, <2>1, <2>2, <2>4 DEF FrameInv
    <2> QED  BY <2>2, <2>5, <2>6, <2>7 DEF CockpitInv
  <1> QED  BY <1>3, <1>4, <1>5, <1>6

(* The invariant is inductive.                                             *)
THEOREM CockpitInvariance == Spec => []CockpitInv
  <1>1. CockpitInv /\ [Next]_vars => CockpitInv'
    <2> SUFFICES ASSUME CockpitInv, [Next]_vars PROVE CockpitInv'
      OBVIOUS
    <2>1. CASE UNCHANGED vars
      <3>1. UNCHANGED <<buttonVars, file, reload_flag, phase, screens, active_screen, attached,
                        queue, batch, now, heard>>
        BY <2>1 DEF vars, engineVars
      <3>2. ButtonsInv' /\ (Up' <=> Up)
        BY <3>1, Zenon DEF CockpitInv, ButtonsInv, Up, buttonVars
      <3>3. FrameInv'
        BY <3>1, <3>2, Zenon DEF CockpitInv, FrameInv, buttonVars
      <3>4. ActiveInv' /\ HeardInv'
        BY <3>1, SameScreens DEF CockpitInv
      <3> QED  BY <3>2, <3>3, <3>4 DEF CockpitInv
    <2> QED
      BY <2>1, ButtonsCockpit, ReloadCockpit, NavigateCockpit, UpdateCockpit, OtherCockpit, Zenon
         DEF Next
  <1> QED  BY InitCockpit, <1>1, PTL DEF Spec

ReusedInv == reused \in BOOLEAN

(* Type correctness: no message or configuration makes the engine index    *)
(* a screen that is not there, and no point, value or time is out of type. *)
THEOREM TypeCorrect == Spec => []TypeOK
  <1>1. CockpitInv /\ ReusedInv => TypeOK
    <2> SUFFICES ASSUME CockpitInv, ReusedInv PROVE TypeOK
      OBVIOUS
    <2>1. ButtonsInv /\ FrameInv /\ ActiveInv /\ HeardInv
      BY DEF CockpitInv
    <2>2. ButtonsTypeOK /\ events \in 0..MaxEvents
      BY <2>1, Zenon DEF ButtonsInv, ButtonsTypeOK, ReusedInv
    <2>3. now \in 0..MaxEvents
      BY <2>1, <2>2, ButtonsAssumption DEF FrameInv, ButtonsAssumption
    <2>4. screens \in Seq(Seq(WidgetStates))
      BY <2>1 DEF HeardInv, Showing
    <2>5. active_screen \in 0..Len(screens)
      <3>1. Len(screens) \in Nat
        BY <2>4, LenProperties
      <3> QED  BY <2>1, <3>1 DEF ActiveInv
    <2>6. heard \in Seq([signal : Signals, value : Int, t : 0..now])
      BY <2>1 DEF HeardInv
    <2> QED  BY <2>1, <2>2, <2>3, <2>4, <2>5, <2>6, Zenon DEF TypeOK, FrameInv
  <1>2. ReusedInv /\ [Next]_vars => ReusedInv'
    <2>1. ButtonsNext => reused' \in BOOLEAN \/ reused' = reused
      BY Zenon DEF ButtonsNext, Exec, Given, Arm, OpenPidfile, WritePidfile, Run, Exit, Crash,
         Press, Toggle, Stranger, GpioStart, GpioEnds, ReadPidfile, Kill
    <2>2. [Next]_vars => ButtonsNext \/ reused' = reused
      BY Zenon DEF Next, Buttons, Save, Push, Reload, handle_screen_navigation, Consume, Update,
         Draw, vars, buttonVars
    <2> QED  BY <2>1, <2>2 DEF ReusedInv
  <1>3. Init => ReusedInv
    BY DEF Init, ButtonsInit, ReusedInv
  <1> QED  BY <1>1, <1>2, <1>3, CockpitInvariance, PTL DEF Spec

(* What is drawn is a screen there is, and every widget of every screen    *)
(* shows what was heard of its signals since it was built.                 *)
THEOREM DrawnCorrect == Spec => []DrawnIsLastHeard
  <1>1. CockpitInv => DrawnIsLastHeard
    <2> SUFFICES ASSUME CockpitInv
                 PROVE  /\ screens # <<>> => active_screen < Len(screens)
                        /\ \A i \in DOMAIN screens :
                             \A j \in DOMAIN screens[i] : Shows(heard, screens[i][j])
      BY DEF DrawnIsLastHeard
    <2>1. ActiveInv /\ HeardInv
      BY DEF CockpitInv
    <2>2. [signal : Signals, value : Int, t : 0..now] \subseteq Hearings
      BY DEF Hearings
    <2>3. heard \in Seq(Hearings)
      BY <2>1, <2>2, SeqMonotonic DEF HeardInv
    <2>4. ASSUME NEW w, WidgetInv(heard, w, now)
          PROVE  Shows(heard, w)
      BY <2>3, <2>4, WidgetShows
    <2> QED  BY <2>1, <2>4 DEF ActiveInv, HeardInv, Showing
  <1> QED  BY <1>1, CockpitInvariance, PTL

-----------------------------------------------------------------------------
(* Where a press goes.                                                     *)

(* Nobody goes by this pid but the program, with its handlers in place.    *)
Only(p, q) ==
  /\ p \notin strangers
  /\ \A r \in Programs : pid[r] = p => r = q /\ proc[q] \in {"loading", "running"}

(* What a pid file holds, or gpio-reader has read for the press at hand.   *)
FilesHeld == \A q \in Programs : pidfile[q] # NoPid => Only(pidfile[q], q)
TargetHeld == gpio = "kill" => Only(target, Head(presses))
ApartInv == \A q \in Programs : pid[q] \notin strangers
HeldInv == ApartInv /\ (~reused => FilesHeld /\ TargetHeld)

(* A program that is none of the holder's keeps a pid to its owner when it *)
(* moves on, is given another pid or loses its own.                        *)
LEMMA OnlyStep ==
  ASSUME PidInv, NEW q \in Programs, NEW p, NEW r, p # NoPid, Only(p, r),
         strangers' \subseteq strangers,
         \/ pid' = pid
         \/ \E n : n # p /\ pid' = [pid EXCEPT ![q] = n],
         proc' = proc \/ \E s : proc' = [proc EXCEPT ![q] = s],
         \/ pid'[q] # p
         \/ proc[q] \in {"loading", "running"} => proc'[q] \in {"loading", "running"}
  PROVE  Only(p, r)'
  BY DEF Only, PidInv

(* Whoever is given a pid is given one nobody goes by, unless it is used   *)
(* again.                                                                  *)
LEMMA HeldStep ==
  ASSUME PidInv, ButtonsInv, HeldInv, ButtonsNext
  PROVE  HeldInv'
  <1>1. ApartInv'
    <2> USE DEF HeldInv, ApartInv
    <2>1. strangers \subseteq Pids /\ NoPid \notin strangers
      BY ButtonsAssumption DEF ButtonsInv, ButtonsAssumption
    <2>2. ASSUME NEW q \in Programs, Gone(q), strangers' \subseteq strangers PROVE ApartInv'
      BY <2>1, <2>2 DEF Gone, PidInv
    <2>3. ASSUME NEW q \in Programs, Exec(q) PROVE ApartInv'
      BY <2>3 DEF Exec, Free, PidInv
    <2>4. CASE Stranger
      BY <2>4 DEF Stranger, Free, programs
    <2>5. CASE UNCHANGED pid /\ strangers' \subseteq strangers
      BY <2>5
    <2>6. \/ UNCHANGED pid /\ strangers' \subseteq strangers
          \/ \E q \in Programs : Exec(q) \/ (Gone(q) /\ strangers' \subseteq strangers)
          \/ Stranger
      BY DEF ButtonsNext, Arm, OpenPidfile, WritePidfile, Run, Exit, Crash, Press, Toggle,
         GpioStart, GpioEnds, ReadPidfile, Kill, programs, gpioVars
    <2> QED  BY <2>2, <2>3, <2>4, <2>5, <2>6
  <1> SUFFICES ASSUME ~reused' PROVE FilesHeld' /\ TargetHeld'
    BY <1>1 DEF HeldInv
  <1>2. ~reused
    BY Zenon DEF ButtonsNext, Exec, Given, Arm, OpenPidfile, WritePidfile, Run, Exit, Crash, Press,
       Toggle, Stranger, GpioStart, GpioEnds, ReadPidfile, Kill
  <1>3. FilesHeld /\ TargetHeld /\ ApartInv
    BY <1>2 DEF HeldInv
  <1>4. /\ pidfile \in [Programs -> Pids \cup {NoPid}] /\ presses \in Seq(Programs)
        /\ (gpio = "kill") <=> (target # NoPid)
        /\ gpio = "kill" => presses # <<>>
        /\ NoPid \notin Pids /\ strangers \subseteq Pids
    BY ButtonsAssumption DEF ButtonsInv, ButtonsAssumption
  <1>5. ASSUME UNCHANGED <<pidfile, gpio, target, presses>>, NEW q \in Programs,
               strangers' \subseteq strangers,
               \/ pid' = pid
               \/ \E n : n \notin Held \ {NoPid} /\ pid' = [pid EXCEPT ![q] = n],
               proc' = proc \/ \E s : proc' = [proc EXCEPT ![q] = s],
               \/ pid'[q] \notin Held \ {NoPid}
               \/ proc[q] \in {"loading", "running"} => proc'[q] \in {"loading", "running"}
        PROVE  FilesHeld' /\ TargetHeld'
    <2>1. ASSUME NEW p \in Held, p # NoPid, NEW r, Only(p, r) PROVE Only(p, r)'
      BY <1>5, <2>1, OnlyStep
    <2>2. FilesHeld'
      BY <1>3, <1>5, <2>1 DEF FilesHeld, Held, Only
    <2>3. TargetHeld'
      BY <1>3, <1>4, <1>5, <2>1, ZenonT(60) DEF TargetHeld, Held, Only
    <2> QED  BY <2>2, <2>3
  <1>6. ASSUME NEW q \in Programs, Exec(q) PROVE FilesHeld' /\ TargetHeld'
    <2>1. PICK p \in Free : pid' = [pid EXCEPT ![q] = p] /\ Given(p)
      BY <1>6 DEF Exec
    <2>2. p \notin Held
      BY <2>1, Zenon DEF Given
    <2>3. UNCHANGED <<pidfile, gpio, target, presses, strangers>>
          /\ proc' = [proc EXCEPT ![q] = "exec"]
      BY <1>6 DEF Exec, gpioVars
    <2>4. pid'[q] \notin Held
      BY <2>1, <2>2 DEF PidInv
    <2> QED  BY <1>5, <2>1, <2>2, <2>3, <2>4
  <1>7. ASSUME NEW q \in Programs, Arm(q) \/ Run(q) PROVE FilesHeld' /\ TargetHeld'
    <2>1. /\ UNCHANGED <<pidfile, gpio, target, presses, strangers, pid>>
          /\ \E s : proc' = [proc EXCEPT ![q] = s]
          /\ proc[q] \in {"loading", "running"} => proc'[q] \in {"loading", "running"}
      BY <1>7 DEF Arm, Run, gpioVars, PidInv
    <2> QED  BY <1>5, <2>1
  <1>8. ASSUME NEW q \in Programs, OpenPidfile(q) \/ WritePidfile(q) PROVE FilesHeld' /\ TargetHeld'
    <2>1. /\ UNCHANGED <<gpio, target, presses, strangers, pid>>
          /\ proc[q] \in {"armed", "opened"}
          /\ \E s : proc' = [proc EXCEPT ![q] = s] /\ (OpenPidfile(q) \/ s = "loading")
          /\ \/ pidfile' = [pidfile EXCEPT ![q] = NoPid] \/ pidfile' = pidfile
             \/ WritePidfile(q) /\ pidfile' = [pidfile EXCEPT ![q] = pid[q]]
      BY <1>8 DEF OpenPidfile, WritePidfile, gpioVars
    <2>2. ASSUME NEW p, p # NoPid, NEW r, Only(p, r) PROVE Only(p, r)'
      BY <2>1, <2>2, OnlyStep
    <2>3. TargetHeld'
      BY <1>3, <1>4, <2>1, <2>2 DEF TargetHeld, Only
    <2>4. WritePidfile(q) => Only(pid[q], q)'
      <3>1. WritePidfile(q) => proc'[q] = "loading"
        BY DEF WritePidfile, PidInv
      <3>2. pid[q] # NoPid /\ \A r \in Programs : pid[r] = pid[q] => r = q
        BY <2>1 DEF PidInv
      <3> QED  BY <1>3, <2>1, <3>1, <3>2 DEF Only, ApartInv
    <2>5. FilesHeld'
      BY <1>3, <1>4, <2>1, <2>2, <2>4 DEF FilesHeld, Only
    <2> QED  BY <2>3, <2>5
  <1>9. ASSUME NEW q \in Programs, Exit(q) \/ Crash(q) PROVE FilesHeld' /\ TargetHeld'
    <2>1. /\ UNCHANGED <<gpio, target, presses, strangers>>
          /\ proc' = [proc EXCEPT ![q] = "off"] /\ pid' = [pid EXCEPT ![q] = NoPid]
          /\ pidfile' = [pidfile EXCEPT ![q] = NoPid] \/ pidfile' = pidfile
      BY <1>9 DEF Exit, Crash, Gone, gpioVars
    <2>2. ASSUME NEW p, p # NoPid, NEW r, Only(p, r) PROVE Only(p, r)'
      <3>1. pid'[q] = NoPid
        BY <2>1 DEF PidInv
      <3> QED  BY <2>1, <2>2, <3>1, OnlyStep
    <2>3. TargetHeld'
      BY <1>3, <1>4, <2>1, <2>2 DEF TargetHeld, Only
    <2>4. FilesHeld'
      BY <1>3, <1>4, <2>1, <2>2 DEF FilesHeld, Only
    <2> QED  BY <2>3, <2>4
  <1>10. CASE Stranger
    <2>1. \/ strangers' \subseteq strangers
          \/ \E p \in Free : strangers' = strangers \cup {p} /\ Given(p)
      BY <1>10 DEF Stranger
    <2>2. strangers' \cap Held \subseteq strangers
      BY <2>1, Zenon DEF Given
    <2>3. UNCHANGED <<proc, pid, pidfile, gpio, target, presses>>
      BY <1>10 DEF Stranger, programs, gpioVars
    <2> QED  BY <1>3, <2>2, <2>3 DEF FilesHeld, TargetHeld, Only, Held
  <1>11. ASSUME NEW q \in Programs, Press(q) PROVE FilesHeld' /\ TargetHeld'
    <2>1. gpio = "kill" => presses' = Append(presses, q) /\ presses # <<>>
      BY <1>4, <1>11 DEF Press
    <2>2. gpio = "kill" => Head(presses') = Head(presses)
      BY <1>4, <2>1
    <2>3. UNCHANGED <<proc, pid, pidfile, strangers, gpio, target>>
      BY <1>11 DEF Press, programs
    <2> QED  BY <1>3, <2>2, <2>3 DEF FilesHeld, TargetHeld, Only
  <1>12. CASE ReadPidfile
    <2>1. /\ UNCHANGED <<proc, pid, pidfile, strangers>>
          /\ gpio' = "kill" => /\ presses' = presses /\ presses # <<>>
                               /\ target' = pidfile[Head(presses)] /\ target' # NoPid
      BY <1>12 DEF ReadPidfile, programs
    <2>2. presses # <<>> => Head(presses) \in Programs
      BY <1>4, HeadTailProperties
    <2> QED  BY <1>3, <2>1, <2>2 DEF FilesHeld, TargetHeld, Only
  <1>13. CASE GpioStart \/ GpioEnds \/ Toggle
    <2>1. /\ UNCHANGED <<proc, pid, pidfile, strangers>>
          /\ gpio' # "kill" \/ UNCHANGED <<gpio, target, presses>>
      BY <1>13 DEF GpioStart, GpioEnds, Toggle, programs, gpioVars
    <2> QED  BY <1>3, <2>1 DEF FilesHeld, TargetHeld, Only
  <1>14. CASE Kill
    <2>1. /\ gpio' # "kill" /\ pidfile' = pidfile /\ strangers' \subseteq strangers
          /\ UNCHANGED <<proc, pid>> \/ \E q \in Programs : Gone(q)
      BY <1>14 DEF Kill
    <2>2. ASSUME NEW p, p # NoPid, NEW r, Only(p, r) PROVE Only(p, r)'
      <3>1. CASE UNCHANGED <<proc, pid>>
        BY <2>1, <2>2, <3>1 DEF Only
      <3>2. ASSUME NEW q \in Programs, Gone(q) PROVE Only(p, r)'
        <4>1. pid'[q] = NoPid
          BY <3>2 DEF Gone, PidInv
        <4> QED  BY <2>1, <2>2, <3>2, <4>1, OnlyStep DEF Gone
      <3> QED  BY <2>1, <3>1, <3>2
    <2> QED  BY <1>3, <2>1, <2>2 DEF FilesHeld, TargetHeld, Only
  <1> QED
    BY <1>6, <1>7, <1>8, <1>9, <1>10, <1>11, <1>12, <1>13, <1>14 DEF ButtonsNext

(* A press sets the flag of the program whose button it was, if that has   *)
(* the pid that was read, and neither ends it nor reaches anybody else,    *)
(* as long as no pid was used again that a pid file still held.            *)
THEOREM ArrivalCorrect == Spec => PressArrives
  <1>1. PidInv /\ CockpitInv /\ HeldInv /\ [Next]_vars => HeldInv'
    <2> SUFFICES ASSUME PidInv, CockpitInv, HeldInv, [Next]_vars PROVE HeldInv'
      OBVIOUS
    <2>1. CASE Buttons
      BY <2>1, HeldStep DEF Buttons, CockpitInv
    <2>2. CASE ~Buttons
      <3>1. UNCHANGED <<proc, pid, pidfile, strangers, gpio, presses, target>>
        BY <2>2, Zenon DEF Next, Save, Push, Reload, handle_screen_navigation, Consume, Update,
           Draw, vars, buttonVars, programs, gpioVars
      <3>2. reused' = reused
        BY <2>2, Zenon DEF Next, Save, Push, Reload, handle_screen_navigation, Consume, Update,
           Draw, vars, buttonVars, programs, gpioVars
      <3> QED  BY <3>1, <3>2, Zenon DEF HeldInv, ApartInv, FilesHeld, TargetHeld, Only
    <2> QED  BY <2>1, <2>2
  <1>2. Init => HeldInv
    BY ButtonsAssumption
       DEF Init, ButtonsInit, HeldInv, ApartInv, FilesHeld, TargetHeld, ButtonsAssumption
  <1>3. PidInv /\ CockpitInv /\ HeldInv /\ [Next]_vars =>
          [Kill /\ ~reused =>
             LET q == Head(presses)
             IN  /\ UNCHANGED <<proc, pid, strangers>>
                 /\ flag' = [flag EXCEPT ![q] = @ \/ pid[q] = target]]_buttonVars
    <2> DEFINE q == Head(presses)
    <2> SUFFICES ASSUME PidInv, CockpitInv, HeldInv, Kill, ~reused
                 PROVE  /\ UNCHANGED <<proc, pid, strangers>>
                        /\ flag' = [flag EXCEPT ![q] = @ \/ pid[q] = target]
      BY Zenon
    <2>1. gpio = "kill" /\ presses \in Seq(Programs) /\ presses # <<>>
          /\ flag \in [Programs -> BOOLEAN]
      BY DEF CockpitInv, ButtonsInv, Kill
    <2>2. q \in Programs
      BY <2>1, HeadTailProperties
    <2> HIDE DEF q
    <2>3. Only(target, q)
      BY <2>1 DEF HeldInv, TargetHeld, q
    <2>4. strangers' = strangers
      BY <2>3 DEF Kill, Only
    <2>5. CASE pid[q] = target
      <3>1. Handles(q) /\ \A r \in Programs : pid[r] = target => r = q
        BY <2>2, <2>3, <2>5 DEF Only, Handles
      <3>2. flag' = [flag EXCEPT ![q] = TRUE] /\ UNCHANGED <<proc, pid>>
        BY <2>2, <2>5, <3>1 DEF Kill
      <3>3. [flag EXCEPT ![q] = TRUE] = [flag EXCEPT ![q] = @ \/ pid[q] = target]
        BY <2>1, <2>2, <2>5
      <3> QED  BY <2>4, <3>2, <3>3
    <2>6. CASE pid[q] # target
      <3>1. \A r \in Programs : pid[r] # target
        BY <2>3, <2>6 DEF Only
      <3>2. UNCHANGED <<proc, pid, flag>>
        BY <3>1 DEF Kill
      <3>3. flag = [flag EXCEPT ![q] = @ \/ pid[q] = target]
        BY <2>1, <2>2, <2>6
      <3> QED  BY <2>4, <3>2, <3>3
    <2> QED  BY <2>5, <2>6
  <1>4. IInv => PidInv
    BY DEF IInv
  <1> QED
    BY Invariance, CockpitInvariance, <1>1, <1>2, <1>3, <1>4, PTL DEF Spec, PressArrives
=============================================================================
