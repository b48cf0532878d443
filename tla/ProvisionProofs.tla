-------------------------- MODULE ProvisionProofs --------------------------
(***************************************************************************)
(* Provision, for every row, command, limit, overhead and number of syncs.  *)
(*                                                                         *)
(* ShapeInv gives the records their fields.  LimitInv follows the limits    *)
(* from the row to Docker, which accepts them because no overhead is below  *)
(* 100 percent.  CleanInv is about a start that fetched the current row     *)
(* while nothing older was under way: from then on every sync, at whichever *)
(* step it is, carries an answer to that row.                               *)
(*                                                                         *)
(* The commands are sequences in which variables are replaced one after     *)
(* another, a recursive function.  Facts about it for every length are      *)
(* proved from the least index at which they would fail (UpTo).             *)
(***************************************************************************)
EXTENDS Provision, FiniteSetTheorems, WellFoundedInduction, TLAPS

BuildSet == [memory : Nat, swap : Int, disk : Nat, cpu : Nat]

\* The fields of a sync and of a container.
ProcShape ==
  /\ proc = [p \in Procs |-> proc[p]]
  /\ \A p \in Procs : DOMAIN proc[p] = {"pc", "round", "got", "read"}

ShapeInv ==
  /\ ProcShape
  /\ container # <<>> => DOMAIN container = {"image", "mounts", "ports", "env", "resources"}

\* A configuration, and the limits of the settings made from it.
CfgOk(c) == c # <<>> /\ c.build \in BuildSet

Ordered(r) == r.reservation <= r.memory /\ (r.swap = -1 \/ r.memory <= r.swap)

\* What a sync carries, and where the limits have got to.
LimitInv ==
  /\ up => CfgOk(cfg) /\ settings.limits \in BuildSet
  /\ \A p \in Procs :
       /\ proc[p].pc = "apply" => CfgOk(proc[p].got)
       /\ proc[p].pc = "set disk" => proc[p].read[1] \in Nat
       /\ proc[p].pc = "set settings" => proc[p].read.limits \in BuildSet
       /\ proc[p].pc = "set env" => proc[p].read # <<>>
  /\ container # <<>> => Ordered(container.resources)
  /\ installer # <<>> => Ordered(installer[1]) /\ installer[1].memory >= InstallerMemory * MiB

\* How far a sync has got with the row it has fetched.
PastEnv      == {"update", "remove", "create", "created"}
PastImage    == {"read env", "set env"} \union PastEnv
PastSettings == {"read image", "set image"} \union PastImage
PastApply    == {"read disk", "set disk", "read settings", "set settings"} \union PastSettings

CurrentSettings(s)  == \E c \in Answers(row) : s = Settings(c)
CurrentVariables(v) == \E c \in Answers(row), o \in Orders : c.default # <<>> /\ v = EnvironmentVariables(c, o)

CleanAt(p) ==
  /\ proc[p].pc = "apply" => proc[p].got \in Answers(row)
  /\ proc[p].pc \in PastApply => cfg \in Answers(row)
  /\ proc[p].pc = "set settings" => CurrentSettings(proc[p].read)
  /\ proc[p].pc \in PastSettings => CurrentSettings(settings)
  /\ proc[p].pc = "set image" => proc[p].read = <<row.image>>
  /\ proc[p].pc \in PastImage => image = row.image
  /\ proc[p].pc = "set env" => CurrentVariables(proc[p].read)
  /\ proc[p].pc \in PastEnv => CurrentVariables(variables)

\* The container is what the row asks for, with a command made from it.
CurrentCommand(s) == \E c \in Answers(row), o \in Orders : s = EnvironmentVariables(c, o).startup
AsMade == AsTheRowSays /\ CurrentCommand(container.env.startup)

CleanInv ==
  /\ clean => up /\ \A p \in Procs : CleanAt(p)
  /\ CleanlyMade => container # <<>> /\ AsMade

IInv == TypeOK /\ ShapeInv /\ LimitInv /\ CleanInv

-----------------------------------------------------------------------------
(* The limits.                                                              *)

\* The least of a set of natural numbers.
LEMMA LeastIs ==
  ASSUME NEW S \in SUBSET Nat, S # {}
  PROVE  \E t \in S : \A u \in S : t <= u
<1>1. IsWellFoundedOn(OpToRel(<, Nat), Nat)
  BY NatLessThanWellFounded
<1>2. PICK t \in S : \A u \in S : ~(<<u, t>> \in OpToRel(<, Nat))
  BY <1>1, WFMin
<1>3. ASSUME NEW u \in S PROVE t <= u
  <2>1. u \in Nat /\ t \in Nat
    OBVIOUS
  <2>2. ~(u < t)
    BY <1>2, <2>1 DEF OpToRel
  <2> QED BY <2>1, <2>2
<1> QED BY <1>3

\* No overhead is below 100 percent.
LEMMA MultiplierIs ==
  ASSUME NEW m \in Nat
  PROVE  Multiplier(m) \in Nat /\ Multiplier(m) >= 100
<1> DEFINE fits == {t \in DOMAIN Multipliers : m <= t}
           least == CHOOSE t \in fits : \A u \in fits : t <= u
<1>1. CASE fits = {}
  BY <1>1, MultiplierAssumption DEF Multiplier
<1>2. CASE fits # {}
  <2>1. fits \in SUBSET Nat
    BY MultiplierAssumption
  <2>2. least \in fits
    BY <1>2, <2>1, LeastIs
  <2>3. Multiplier(m) = Multipliers[least]
    BY <1>2 DEF Multiplier
  <2> QED BY <2>2, <2>3, MultiplierAssumption
<1> QED BY <1>1, <1>2

\* With it the limit is at least the memory itself.
LEMMA BoundedIs ==
  ASSUME NEW l, l.memory \in Nat
  PROVE  BoundedMemoryLimit(l) \in Nat /\ BoundedMemoryLimit(l) >= l.memory * MiB
<1> DEFINE k == Multiplier(l.memory)
           x == l.memory * MiB
           y == l.memory * k * MiB
<1>1. k \in Nat /\ k >= 100
  BY MultiplierIs
<1>2. x \in Nat
  BY UnitAssumption
<1>3. y \in Nat /\ y >= 100 * x
  <2>1. PICK d \in Nat : k = 100 + d
    <3>1. k - 100 \in Nat /\ k = 100 + (k - 100)
      BY <1>1
    <3> QED BY <3>1
  <2>2. MiB \in Nat
    BY UnitAssumption
  <2>3. y = 100 * x + d * x
    BY <2>1, <2>2
  <2>4. d * x \in Nat
    BY <1>2
  <2> HIDE DEF y, x
  <2> QED BY <1>2, <2>3, <2>4
<1>4. BoundedMemoryLimit(l) = (y + 50) \div 100
  BY DEF BoundedMemoryLimit
<1> HIDE DEF x, y, k
<1>5. (y + 50) \div 100 \in Nat /\ (y + 50) \div 100 >= x
  BY <1>2, <1>3
<1> QED BY <1>4, <1>5 DEF x

\* What Docker gets of any limits is in order, and reserves their memory.
LEMMA ResourcesIn ==
  ASSUME NEW l \in BuildSet
  PROVE  /\ Ordered(AsContainerResources(l))
         /\ AsContainerResources(l).memory \in Nat /\ AsContainerResources(l).memory >= l.memory * MiB
         /\ AsContainerResources(l).quota = l.cpu * 1000
<1>1. l.memory \in Nat /\ l.swap \in Int /\ l.cpu \in Nat
  BY DEF BuildSet
<1>2. BoundedMemoryLimit(l) \in Nat /\ BoundedMemoryLimit(l) >= l.memory * MiB
  BY <1>1, BoundedIs
<1>3. ConvertedSwap(l) = -1 \/ BoundedMemoryLimit(l) <= ConvertedSwap(l)
  <2>1. l.swap >= 0 => l.swap * MiB \in Nat
    BY <1>1, UnitAssumption
  <2> QED BY <1>1, <1>2, <2>1 DEF ConvertedSwap
<1>4. AsContainerResources(l).memory = BoundedMemoryLimit(l) /\ AsContainerResources(l).swap = ConvertedSwap(l)
      /\ AsContainerResources(l).reservation = l.memory * MiB
      /\ AsContainerResources(l).quota = IF l.cpu > 0 THEN l.cpu * 1000 ELSE 0
  BY DEF AsContainerResources
<1>5. (IF l.cpu > 0 THEN l.cpu * 1000 ELSE 0) = l.cpu * 1000
  BY <1>1
<1> QED BY <1>2, <1>3, <1>4, <1>5 DEF Ordered

\* The installer's limits are those of a server with more memory.
LEMMA InstallerIn ==
  ASSUME NEW l \in BuildSet
  PROVE  Ordered(ResourceLimits(l)) /\ ResourceLimits(l).memory >= InstallerMemory * MiB
<1> DEFINE m == IF l.memory < InstallerMemory THEN InstallerMemory ELSE l.memory
           c == IF InstallerCpu = 0 THEN 0
                ELSE IF l.cpu # 0 /\ l.cpu < InstallerCpu THEN InstallerCpu ELSE l.cpu
           i == [l EXCEPT !.memory = m, !.cpu = c]
<1>0. m \in Nat /\ m >= InstallerMemory /\ c \in Nat
  <2>1. l.memory \in Nat /\ l.cpu \in Nat
    BY DEF BuildSet
  <2> QED BY <2>1, InstallerAssumption
<1>3. ResourceLimits(l) = AsContainerResources(i)
  BY DEF ResourceLimits
<1> HIDE DEF m, c
<1>1. i \in BuildSet /\ i.memory = m
  BY <1>0 DEF BuildSet
<1>2. i.memory \in Nat /\ i.memory >= InstallerMemory
  BY <1>0, <1>1
<1> HIDE DEF i
<1>4. Ordered(AsContainerResources(i)) /\ AsContainerResources(i).memory >= i.memory * MiB
      /\ AsContainerResources(i).memory \in Nat
  BY <1>1, ResourcesIn
<1>5. i.memory * MiB >= InstallerMemory * MiB /\ i.memory * MiB \in Nat /\ InstallerMemory * MiB \in Nat
  BY <1>2, UnitAssumption, InstallerAssumption
<1> QED BY <1>3, <1>4, <1>5

-----------------------------------------------------------------------------
(* Commands.  Substitution works on each token by itself: what a pass over    *)
(* the variables leaves of a placeholder depends on how deep the values refer *)
(* to each other.                                                           *)

\* Induction up to a number.
LEMMA UpTo ==
  ASSUME NEW N \in Nat, NEW T, 0 \in T, \A n \in 0..N : n # N /\ n \in T => n + 1 \in T
  PROVE  \A n \in 0..N : n \in T
<1>1. SUFFICES ASSUME (0..N) \ T # {} PROVE FALSE
  OBVIOUS
<1>2. PICK m \in (0..N) \ T : \A k \in (0..N) \ T : m <= k
  <2> DEFINE S == (0..N) \ T
  <2>1. S \in SUBSET Nat /\ S # {}
    BY <1>1
  <2> HIDE DEF S
  <2>2. \E m \in S : \A k \in S : m <= k
    BY <2>1, LeastIs
  <2> QED BY <2>2 DEF S
<1>3. m # 0 /\ m - 1 \in 0..N /\ m - 1 # N
  BY <1>2
<1>4. m - 1 \in T
  BY <1>2, <1>3
<1>5. (m - 1) + 1 \in T /\ (m - 1) + 1 = m
  BY <1>2, <1>3, <1>4
<1> QED BY <1>2, <1>5

\* An order names every variable.
LEMMA OrderIs ==
  ASSUME NEW o \in Orders
  PROVE  /\ Len(o) \in Nat /\ \A i \in 1..Len(o) : o[i] \in Names
         /\ \A x \in Names : \E i \in 1..Len(o) : o[i] = x
<1>1. Cardinality(Names) \in Nat
  BY NamesAssumption, FS_CardinalityType
<1>2. o \in [1..Cardinality(Names) -> Names] /\ \A x \in Names : \E i \in DOMAIN o : o[i] = x
  BY DEF Orders
<1>3. Len(o) = Cardinality(Names) /\ DOMAIN o = 1..Cardinality(Names)
  BY <1>1, <1>2
<1> QED BY <1>1, <1>2, <1>3

\* The commands on the way of a substitution.
Steps(f, cmd, env, order, inside, n) ==
  /\ f = [k \in 0..n |-> f[k]]
  /\ f[0] = cmd
  /\ \A k \in 1..n : f[k] = ReplaceAll(f[k - 1], order[k], env[order[k]], inside)

LEMMA StepsExist ==
  ASSUME NEW cmd, NEW env, NEW order, NEW inside, NEW N \in Nat
  PROVE  \E f : Steps(f, cmd, env, order, inside, N)
<1> DEFINE T == {n \in 0..N : \E f : Steps(f, cmd, env, order, inside, n)}
<1>1. 0 \in T
  <2> DEFINE f == [k \in 0..0 |-> cmd]
  <2>1. Steps(f, cmd, env, order, inside, 0)
    BY DEF Steps
  <2> QED BY <2>1
<1>2. ASSUME NEW n \in 0..N, n # N, n \in T PROVE n + 1 \in T
  <2>1. PICK f : Steps(f, cmd, env, order, inside, n)
    BY <1>2
  <2> DEFINE last == ReplaceAll(f[n], order[n + 1], env[order[n + 1]], inside)
             g == [k \in 0..(n + 1) |-> IF k = n + 1 THEN last ELSE f[k]]
  <2>2. /\ g = [k \in 0..(n + 1) |-> g[k]]
        /\ g[n + 1] = last
        /\ \A k \in 0..n : g[k] = f[k]
    OBVIOUS
  <2>3. last = ReplaceAll(f[n], order[n + 1], env[order[n + 1]], inside)
    OBVIOUS
  <2> HIDE DEF g, last
  <2>4. g[0] = cmd
    BY <2>1, <2>2 DEF Steps
  <2>5. ASSUME NEW k \in 1..(n + 1) PROVE g[k] = ReplaceAll(g[k - 1], order[k], env[order[k]], inside)
    <3>1. CASE k = n + 1
      <4>1. k - 1 = n /\ n \in 0..n
        BY <3>1
      <4>2. g[k - 1] = f[n] /\ g[k] = last
        BY <2>2, <3>1, <4>1
      <4> QED BY <2>3, <3>1, <4>2
    <3>2. CASE k # n + 1
      <4>1. k \in 1..n /\ k \in 0..n /\ k - 1 \in 0..n
        BY <3>2
      <4>2. g[k] = f[k] /\ g[k - 1] = f[k - 1]
        BY <2>2, <4>1
      <4> QED BY <2>1, <4>1, <4>2 DEF Steps
    <3> QED BY <3>1, <3>2
  <2>6. Steps(g, cmd, env, order, inside, n + 1)
    BY <2>2, <2>4, <2>5 DEF Steps
  <2>7. n + 1 \in 0..N
    BY <1>2
  <2> QED BY <2>6, <2>7
<1>3. \A n \in 0..N : n \in T
  <2> HIDE DEF T
  <2> QED BY <1>1, <1>2, UpTo
<1>4. N \in T
  BY <1>3
<1> QED BY <1>4

\* Substitute is the last of them.
LEMMA SubstituteIs ==
  ASSUME NEW cmd, NEW env, NEW order, Len(order) \in Nat, NEW inside
  PROVE  \E f : Steps(f, cmd, env, order, inside, Len(order)) /\ Substitute(cmd, env, order, inside) = f[Len(order)]
<1> DEFINE N == Len(order)
           Is(f) == f = [n \in 0..N |-> IF n = 0 THEN cmd ELSE ReplaceAll(f[n - 1], order[n], env[order[n]], inside)]
           After == CHOOSE f : Is(f)
<1>1. PICK g : Steps(g, cmd, env, order, inside, N)
  BY StepsExist
<1>2. Is(g)
  <2>1. ASSUME NEW n \in 0..N
        PROVE  g[n] = IF n = 0 THEN cmd ELSE ReplaceAll(g[n - 1], order[n], env[order[n]], inside)
    <3>1. n = 0 \/ n \in 1..N
      OBVIOUS
    <3> QED BY <1>1, <3>1 DEF Steps
  <2>2. g = [n \in 0..N |-> g[n]]
    BY <1>1 DEF Steps
  <2>3. [n \in 0..N |-> g[n]] =
          [n \in 0..N |-> IF n = 0 THEN cmd ELSE ReplaceAll(g[n - 1], order[n], env[order[n]], inside)]
    BY <2>1
  <2> QED BY <2>2, <2>3, Zenon
<1>3. Is(After)
  BY <1>2
<1>4. Substitute(cmd, env, order, inside) = After[N]
  BY DEF Substitute
<1>5. Steps(After, cmd, env, order, inside, N)
  <2> HIDE DEF After
  <2>1. \A n \in 0..N : After[n] = IF n = 0 THEN cmd ELSE ReplaceAll(After[n - 1], order[n], env[order[n]], inside)
    BY <1>3
  <2>2. After = [n \in 0..N |-> After[n]]
    BY <1>3
  <2> QED BY <2>1, <2>2 DEF Steps
<1> QED BY <1>4, <1>5

\* A token that stands for a variable, and one whose value stands for none.
Named(t) == t[1] = "hole" /\ t[2] \in Names
Near(env, t) == Named(t) => ~Named(env[t[2]])

\* Values that stand for variables stand for ones whose values do not.
Shallow(env) == \A x \in Names : Near(env, env[x])

Flagged(t) == t[1] = "hole" => t[3] \in BOOLEAN

\* What one replacement does to a token.
LEMMA ReplacedIs ==
  ASSUME NEW env, Shallow(env), NEW t, Flagged(t), NEW x \in Names, NEW inside \in BOOLEAN
  PROVE  /\ Flagged(Replaced(t, x, env[x], inside))
         /\ ~(t[1] = "hole" /\ t[2] = x /\ (t[3] => inside)) => Replaced(t, x, env[x], inside) = t
         /\ t[1] = "hole" /\ t[2] = x /\ (t[3] => inside) =>
              /\ Near(env, Replaced(t, x, env[x], inside))
              /\ Near(env, t) => ~Named(Replaced(t, x, env[x], inside))
<1> DEFINE v == env[x]
           r == Replaced(t, x, v, inside)
<1>1. CASE ~(t[1] = "hole" /\ t[2] = x /\ (t[3] => inside))
  BY <1>1 DEF Replaced
<1>2. CASE t[1] = "hole" /\ t[2] = x /\ (t[3] => inside)
  <2>1. Near(env, v) /\ (Near(env, t) => ~Named(v))
    BY <1>2 DEF Shallow, Near, Named
  <2>2. CASE v[1] = "hole"
    <3>1. r = <<"hole", v[2], t[3]>>
      BY <1>2, <2>2 DEF Replaced
    <3>2. r[1] = "hole" /\ r[2] = v[2] /\ r[3] = t[3]
      BY <3>1
    <3> HIDE DEF r, v
    <3>3. Flagged(r)
      BY <1>2, <3>2 DEF Flagged
    <3>4. Near(env, r) /\ (Near(env, t) => ~Named(r))
      BY <2>1, <2>2, <3>2 DEF Near, Named
    <3> QED BY <1>2, <3>3, <3>4 DEF r, v
  <2>3. CASE v[1] # "hole"
    <3>1. r = v
      BY <1>2, <2>3 DEF Replaced
    <3>2. Flagged(v) /\ Near(env, v) /\ ~Named(v)
      BY <2>3 DEF Flagged, Near, Named
    <3> QED BY <1>2, <3>1, <3>2
  <2> QED BY <2>2, <2>3
<1> QED BY <1>1, <1>2

\* The Panel's pass, through guarded placeholders too, leaves tokens whose values stand
\* for nothing.
LEMMA PanelPass ==
  ASSUME NEW env, Shallow(env), NEW order \in Orders, NEW cmd, \A i \in DOMAIN cmd : Flagged(cmd[i])
  PROVE  /\ DOMAIN Substitute(cmd, env, order, TRUE) = DOMAIN cmd
         /\ \A i \in DOMAIN cmd : /\ Flagged(Substitute(cmd, env, order, TRUE)[i])
                                  /\ Near(env, Substitute(cmd, env, order, TRUE)[i])
<1>1. /\ Len(order) \in Nat /\ \A i \in 1..Len(order) : order[i] \in Names
      /\ \A x \in Names : \E i \in 1..Len(order) : order[i] = x
  BY OrderIs
<1>2. PICK f : Steps(f, cmd, env, order, TRUE, Len(order)) /\ Substitute(cmd, env, order, TRUE) = f[Len(order)]
  <2> DEFINE b == TRUE
  <2> HIDE DEF b
  <2>1. \E f : Steps(f, cmd, env, order, b, Len(order)) /\ Substitute(cmd, env, order, b) = f[Len(order)]
    BY <1>1, SubstituteIs, SMTT(60)
  <2> QED BY <2>1 DEF b
<1> DEFINE N == Len(order)
           Left(t, n) == Flagged(t) /\ (Near(env, t) \/ \A k \in 1..n : order[k] # t[2])
           T == {n \in 0..N : DOMAIN f[n] = DOMAIN cmd /\ \A i \in DOMAIN cmd : Left(f[n][i], n)}
<1>3. 0 \in T
  <2>1. f[0] = cmd /\ 0 \in 0..N
    BY <1>1, <1>2 DEF Steps
  <2>2. \A k \in 1..0 : FALSE
    OBVIOUS
  <2>3. \A i \in DOMAIN cmd : Left(cmd[i], 0)
    BY <2>2
  <2> QED BY <2>1, <2>3
<1>4. ASSUME NEW n \in 0..N, n # N, n \in T PROVE n + 1 \in T
  <2> DEFINE x == order[n + 1]
  <2>1. n + 1 \in 1..N /\ n + 1 \in 0..N /\ (n + 1) - 1 = n
    BY <1>1, <1>4
  <2>2. x \in Names
    BY <1>1, <2>1
  <2>3. f[n + 1] = ReplaceAll(f[n], x, env[x], TRUE)
    BY <1>2, <2>1 DEF Steps
  <2>4. DOMAIN f[n + 1] = DOMAIN cmd /\ \A i \in DOMAIN cmd : f[n + 1][i] = Replaced(f[n][i], x, env[x], TRUE)
    BY <1>4, <2>3 DEF ReplaceAll
  <2>5. ASSUME NEW i \in DOMAIN cmd PROVE Left(f[n + 1][i], n + 1)
    <3> DEFINE t == f[n][i]
               r == Replaced(t, x, env[x], TRUE)
    <3>1. Left(t, n)
      BY <1>4
    <3>2. f[n + 1][i] = r
      BY <2>4
    <3>3. /\ Flagged(r)
          /\ ~(t[1] = "hole" /\ t[2] = x) => r = t
          /\ t[1] = "hole" /\ t[2] = x => Near(env, r)
      BY <2>2, <3>1, ReplacedIs
    <3> HIDE DEF t, r, x
    <3>4. CASE t[1] = "hole" /\ t[2] = x
      BY <3>2, <3>3, <3>4
    <3>5. CASE t[1] # "hole"
      BY <3>2, <3>3, <3>5 DEF Near, Named
    <3>6. CASE t[2] # x
      <4>1. \A k \in 1..(n + 1) : k \in 1..n \/ order[k] = x
        BY DEF x
      <4> QED BY <3>1, <3>2, <3>3, <3>6, <4>1
    <3> QED BY <3>4, <3>5, <3>6
  <2> QED BY <2>1, <2>4, <2>5
<1>5. N \in 0..N /\ \A n \in 0..N : n \in T
  <2>1. \A n \in 0..N : n # N /\ n \in T => n + 1 \in T
    BY <1>4
  <2>2. N \in Nat /\ 0 \in T
    BY <1>1, <1>3
  <2> HIDE DEF T, N
  <2> QED BY <2>1, <2>2, UpTo
<1>6. DOMAIN f[N] = DOMAIN cmd /\ \A i \in DOMAIN cmd : Left(f[N][i], N)
  BY <1>5
<1>7. ASSUME NEW i \in DOMAIN cmd PROVE Near(env, f[N][i])
  BY <1>1, <1>6 DEF Near, Named
<1> QED BY <1>2, <1>6, <1>7

\* The daemon's pass then leaves no placeholder of a variable but guarded ones.
LEMMA DaemonPass ==
  ASSUME NEW env, Shallow(env), NEW order \in Orders, NEW cmd,
         \A i \in DOMAIN cmd : Flagged(cmd[i]) /\ Near(env, cmd[i])
  PROVE  /\ DOMAIN Substitute(cmd, env, order, FALSE) = DOMAIN cmd
         /\ \A i \in DOMAIN cmd :
              LET t == Substitute(cmd, env, order, FALSE)[i] IN Flagged(t) /\ (~Named(t) \/ t[3] = TRUE)
<1>1. /\ Len(order) \in Nat /\ \A i \in 1..Len(order) : order[i] \in Names
      /\ \A x \in Names : \E i \in 1..Len(order) : order[i] = x
  BY OrderIs
<1>2. PICK f : Steps(f, cmd, env, order, FALSE, Len(order)) /\ Substitute(cmd, env, order, FALSE) = f[Len(order)]
  <2> DEFINE b == FALSE
  <2> HIDE DEF b
  <2>1. \E f : Steps(f, cmd, env, order, b, Len(order)) /\ Substitute(cmd, env, order, b) = f[Len(order)]
    BY <1>1, SubstituteIs
  <2> QED BY <2>1 DEF b
<1> DEFINE N == Len(order)
           Left(t, n) == Flagged(t) /\ Near(env, t) /\ (~Named(t) \/ t[3] = TRUE \/ \A k \in 1..n : order[k] # t[2])
           T == {n \in 0..N : DOMAIN f[n] = DOMAIN cmd /\ \A i \in DOMAIN cmd : Left(f[n][i], n)}
<1>3. 0 \in T
  <2>1. f[0] = cmd /\ 0 \in 0..N
    BY <1>1, <1>2 DEF Steps
  <2>2. \A k \in 1..0 : FALSE
    OBVIOUS
  <2>3. \A i \in DOMAIN cmd : Left(cmd[i], 0)
    BY <2>2
  <2> QED BY <2>1, <2>3
<1>4. ASSUME NEW n \in 0..N, n # N, n \in T PROVE n + 1 \in T
  <2> DEFINE x == order[n + 1]
  <2>1. n + 1 \in 1..N /\ n + 1 \in 0..N /\ (n + 1) - 1 = n
    BY <1>1, <1>4
  <2>2. x \in Names
    BY <1>1, <2>1
  <2>3. f[n + 1] = ReplaceAll(f[n], x, env[x], FALSE)
    BY <1>2, <2>1 DEF Steps
  <2>4. DOMAIN f[n + 1] = DOMAIN cmd /\ \A i \in DOMAIN cmd : f[n + 1][i] = Replaced(f[n][i], x, env[x], FALSE)
    BY <1>4, <2>3 DEF ReplaceAll
  <2>5. ASSUME NEW i \in DOMAIN cmd PROVE Left(f[n + 1][i], n + 1)
    <3> DEFINE t == f[n][i]
               r == Replaced(t, x, env[x], FALSE)
    <3>1. Left(t, n)
      BY <1>4
    <3>2. f[n + 1][i] = r
      BY <2>4
    <3>3. /\ Flagged(r)
          /\ ~(t[1] = "hole" /\ t[2] = x /\ ~t[3]) => r = t
          /\ t[1] = "hole" /\ t[2] = x /\ ~t[3] => ~Named(r)
      BY <2>2, <3>1, ReplacedIs
    <3> HIDE DEF t, r, x
    <3>4. CASE t[1] = "hole" /\ t[2] = x /\ ~t[3]
      BY <3>2, <3>3, <3>4 DEF Near
    <3>5. CASE t[1] # "hole"
      BY <3>1, <3>2, <3>3, <3>5 DEF Named
    <3>6. CASE t[1] = "hole" /\ t[3]
      <4>1. t[3] = TRUE
        BY <3>1, <3>6 DEF Flagged
      <4> QED BY <3>1, <3>2, <3>3, <3>6, <4>1
    <3>7. CASE t[2] # x
      <4>1. \A k \in 1..(n + 1) : k \in 1..n \/ order[k] = x
        BY DEF x
      <4> QED BY <3>1, <3>2, <3>3, <3>7, <4>1
    <3> QED BY <3>4, <3>5, <3>6, <3>7
  <2> QED BY <2>1, <2>4, <2>5
<1>5. N \in 0..N /\ \A n \in 0..N : n \in T
  <2>1. \A n \in 0..N : n # N /\ n \in T => n + 1 \in T
    BY <1>4
  <2>2. N \in Nat /\ 0 \in T
    BY <1>1, <1>3
  <2> HIDE DEF T, N
  <2> QED BY <2>1, <2>2, UpTo
<1>6. DOMAIN f[N] = DOMAIN cmd /\ \A i \in DOMAIN cmd : Left(f[N][i], N)
  BY <1>5
<1>7. ASSUME NEW i \in DOMAIN cmd PROVE Flagged(f[N][i]) /\ (~Named(f[N][i]) \/ f[N][i][3] = TRUE)
  BY <1>1, <1>6 DEF Named
<1> QED BY <1>2, <1>6, <1>7

\* A replacement by something that stands for nothing.
LEMMA ReplacedByServer ==
  ASSUME NEW t, NEW x, NEW v, v[1] # "hole"
  PROVE  Replaced(t, x, v, TRUE)[1] # "hole" \/ (Replaced(t, x, v, TRUE) = t /\ t[2] # x)
  BY DEF Replaced

\* The command of a server whose values are shallow has no open placeholders.
LEMMA InvocationResolved ==
  ASSUME NEW env, Shallow(env), NEW o \in Orders, NEW order \in Orders,
         NEW cmd, \A i \in DOMAIN cmd : Flagged(cmd[i]), NEW memory, NEW default
  PROVE  Resolved(ParseInvocation(Substitute(cmd, env, o, TRUE), env, order, memory, default),
                  Names \union {"SERVER_PORT", "SERVER_MEMORY", "SERVER_IP"})
<1> DEFINE sent  == Substitute(cmd, env, o, TRUE)
           own   == Substitute(sent, env, order, FALSE)
           port  == ReplaceAll(own, "SERVER_PORT", Lit(default.port), TRUE)
           mem   == ReplaceAll(port, "SERVER_MEMORY", Lit(memory), TRUE)
           final == ReplaceAll(mem, "SERVER_IP", <<"ip", default.ip>>, TRUE)
<1>1. ParseInvocation(sent, env, order, memory, default) = final
  BY DEF ParseInvocation
<1>2. \A i \in DOMAIN sent : Flagged(sent[i]) /\ Near(env, sent[i])
  BY PanelPass
<1> HIDE DEF sent
<1>3. \A i \in DOMAIN own : Flagged(own[i]) /\ (~Named(own[i]) \/ own[i][3] = TRUE)
  BY <1>2, DaemonPass
<1> HIDE DEF own
<1>4. /\ DOMAIN port = DOMAIN own
      /\ \A i \in DOMAIN own : port[i][1] # "hole" \/ (port[i] = own[i] /\ own[i][2] # "SERVER_PORT")
  <2> DEFINE v == Lit(default.port)
  <2>1. v[1] # "hole"
    BY DEF Lit
  <2> DEFINE x == "SERVER_PORT"
  <2>2. DOMAIN port = DOMAIN own /\ \A i \in DOMAIN own : port[i] = Replaced(own[i], x, v, TRUE)
    BY DEF ReplaceAll
  <2> HIDE DEF v, x
  <2>3. ASSUME NEW i \in DOMAIN own PROVE port[i][1] # "hole" \/ (port[i] = own[i] /\ own[i][2] # x)
    <3> DEFINE t == own[i]
    <3> HIDE DEF t
    <3>1. Replaced(t, x, v, TRUE)[1] # "hole" \/ (Replaced(t, x, v, TRUE) = t /\ t[2] # x)
      BY <2>1, ReplacedByServer
    <3> QED BY <2>2, <3>1 DEF t
  <2> QED BY <2>2, <2>3 DEF x
<1> HIDE DEF port
<1>5. /\ DOMAIN mem = DOMAIN port
      /\ \A i \in DOMAIN port : mem[i][1] # "hole" \/ (mem[i] = port[i] /\ port[i][2] # "SERVER_MEMORY")
  <2> DEFINE v == Lit(memory)
  <2>1. v[1] # "hole"
    BY DEF Lit
  <2> DEFINE x == "SERVER_MEMORY"
  <2>2. DOMAIN mem = DOMAIN port /\ \A i \in DOMAIN port : mem[i] = Replaced(port[i], x, v, TRUE)
    BY DEF ReplaceAll
  <2> HIDE DEF v, x
  <2>3. ASSUME NEW i \in DOMAIN port PROVE mem[i][1] # "hole" \/ (mem[i] = port[i] /\ port[i][2] # x)
    <3> DEFINE t == port[i]
    <3> HIDE DEF t
    <3>1. Replaced(t, x, v, TRUE)[1] # "hole" \/ (Replaced(t, x, v, TRUE) = t /\ t[2] # x)
      BY <2>1, ReplacedByServer
    <3> QED BY <2>2, <3>1 DEF t
  <2> QED BY <2>2, <2>3 DEF x
<1> HIDE DEF mem
<1>6. /\ DOMAIN final = DOMAIN mem
      /\ \A i \in DOMAIN mem : final[i][1] # "hole" \/ (final[i] = mem[i] /\ mem[i][2] # "SERVER_IP")
  <2> DEFINE v == <<"ip", default.ip>>
  <2>1. v[1] # "hole"
    BY DEF Lit
  <2> DEFINE x == "SERVER_IP"
  <2>2. DOMAIN final = DOMAIN mem /\ \A i \in DOMAIN mem : final[i] = Replaced(mem[i], x, v, TRUE)
    BY DEF ReplaceAll
  <2> HIDE DEF v, x
  <2>3. ASSUME NEW i \in DOMAIN mem PROVE final[i][1] # "hole" \/ (final[i] = mem[i] /\ mem[i][2] # x)
    <3> DEFINE t == mem[i]
    <3> HIDE DEF t
    <3>1. Replaced(t, x, v, TRUE)[1] # "hole" \/ (Replaced(t, x, v, TRUE) = t /\ t[2] # x)
      BY <2>1, ReplacedByServer
    <3> QED BY <2>2, <3>1 DEF t
  <2> QED BY <2>2, <2>3 DEF x
<1> HIDE DEF final
<1>7. ASSUME NEW i \in DOMAIN final, final[i][1] = "hole", ~final[i][3]
      PROVE  final[i][2] \notin Names \union {"SERVER_PORT", "SERVER_MEMORY", "SERVER_IP"}
  <2>1. i \in DOMAIN mem /\ final[i] = mem[i] /\ mem[i][2] # "SERVER_IP"
    BY <1>6, <1>7
  <2>2. i \in DOMAIN port /\ mem[i] = port[i] /\ port[i][2] # "SERVER_MEMORY"
    BY <1>5, <1>7, <2>1
  <2>3. i \in DOMAIN own /\ port[i] = own[i] /\ own[i][2] # "SERVER_PORT"
    BY <1>4, <1>7, <2>1, <2>2
  <2>4. final[i] = own[i] /\ final[i][3] # TRUE
    BY <1>7, <2>1, <2>2, <2>3
  <2>5. ~Named(own[i])
    BY <1>3, <2>3, <2>4
  <2>6. own[i][2] \notin Names
    BY <1>7, <2>4, <2>5 DEF Named
  <2> QED BY <2>1, <2>2, <2>3, <2>6
<1>8. Resolved(final, Names \union {"SERVER_PORT", "SERVER_MEMORY", "SERVER_IP"})
  BY <1>7 DEF Resolved
<1> QED BY <1>1, <1>8 DEF sent

-----------------------------------------------------------------------------
(* The steps of a sync.                                                     *)

\* p goes to l with x as what it has read, and g as what it was answered.
Moves(p, l, g, x) ==
  /\ ProcShape'
  /\ \A q \in Procs \ {p} : proc'[q] = proc[q]
  /\ proc'[p].pc = l /\ proc'[p].got = g /\ proc'[p].read = x

LEMMA ProcBecomes ==
  ASSUME ProcShape, NEW p \in Procs, NEW r, DOMAIN r = {"pc", "round", "got", "read"},
         proc' = [proc EXCEPT ![p] = r]
  PROVE  Moves(p, r.pc, r.got, r.read)
<1>1. proc'[p] = r /\ \A q \in Procs \ {p} : proc'[q] = proc[q]
  BY DEF ProcShape
<1>2. proc' = [q \in Procs |-> proc'[q]]
  BY DEF ProcShape
<1> QED BY <1>1, <1>2 DEF ProcShape, Moves

LEMMA ProcGoes ==
  ASSUME ProcShape, NEW p \in Procs
  PROVE  /\ \A l : Goto(p, l) => Moves(p, l, proc[p].got, <<>>)
         /\ \A l, x : Read(p, l, x) => Moves(p, l, proc[p].got, x)
         /\ End(p) => Moves(p, "idle", <<>>, <<>>)
         /\ \A c : proc' = [proc EXCEPT ![p] = [@ EXCEPT !.pc = "apply", !.got = c]] =>
                     Moves(p, "apply", c, proc[p].read)
         /\ proc' = [proc EXCEPT ![p] = [@ EXCEPT !.pc = "read disk", !.got = <<>>]] =>
              Moves(p, "read disk", <<>>, proc[p].read)
         /\ proc' = [proc EXCEPT ![p] = [@ EXCEPT !.pc = "read settings", !.round = 2]] =>
              Moves(p, "read settings", proc[p].got, proc[p].read)
<1>0. DOMAIN proc[p] = {"pc", "round", "got", "read"}
  BY DEF ProcShape
<1>1. ASSUME NEW l, Goto(p, l) PROVE Moves(p, l, proc[p].got, <<>>)
  <2> DEFINE r == [proc[p] EXCEPT !.pc = l, !.read = <<>>]
  <2>1. DOMAIN r = {"pc", "round", "got", "read"} /\ r.pc = l /\ r.got = proc[p].got /\ r.read = <<>>
    BY <1>0
  <2>2. proc' = [proc EXCEPT ![p] = r]
    BY <1>1 DEF Goto
  <2> HIDE DEF r
  <2>3. Moves(p, r.pc, r.got, r.read)
    BY <2>1, <2>2, ProcBecomes
  <2> QED BY <2>1, <2>3
<1>2. ASSUME NEW l, NEW x, Read(p, l, x) PROVE Moves(p, l, proc[p].got, x)
  <2> DEFINE r == [proc[p] EXCEPT !.pc = l, !.read = x]
  <2>1. DOMAIN r = {"pc", "round", "got", "read"} /\ r.pc = l /\ r.got = proc[p].got /\ r.read = x
    BY <1>0
  <2>2. proc' = [proc EXCEPT ![p] = r]
    BY <1>2 DEF Read
  <2> HIDE DEF r
  <2>3. Moves(p, r.pc, r.got, r.read)
    BY <2>1, <2>2, ProcBecomes
  <2> QED BY <2>1, <2>3
<1>3. ASSUME End(p) PROVE Moves(p, "idle", <<>>, <<>>)
  <2>1. DOMAIN NoProc = {"pc", "round", "got", "read"} /\ NoProc.pc = "idle" /\ NoProc.got = <<>> /\ NoProc.read = <<>>
    BY DEF NoProc
  <2>2. Moves(p, NoProc.pc, NoProc.got, NoProc.read)
    BY <1>3, <2>1, ProcBecomes DEF End
  <2> QED BY <2>1, <2>2
<1>4. ASSUME NEW c, proc' = [proc EXCEPT ![p] = [@ EXCEPT !.pc = "apply", !.got = c]]
      PROVE  Moves(p, "apply", c, proc[p].read)
  <2> DEFINE r == [proc[p] EXCEPT !.pc = "apply", !.got = c]
  <2>1. DOMAIN r = {"pc", "round", "got", "read"} /\ r.pc = "apply" /\ r.got = c /\ r.read = proc[p].read
    BY <1>0
  <2>2. proc' = [proc EXCEPT ![p] = r]
    BY <1>4
  <2> HIDE DEF r
  <2>3. Moves(p, r.pc, r.got, r.read)
    BY <2>1, <2>2, ProcBecomes
  <2> QED BY <2>1, <2>3
<1>5. ASSUME proc' = [proc EXCEPT ![p] = [@ EXCEPT !.pc = "read disk", !.got = <<>>]]
      PROVE  Moves(p, "read disk", <<>>, proc[p].read)
  <2> DEFINE r == [proc[p] EXCEPT !.pc = "read disk", !.got = <<>>]
  <2>1. DOMAIN r = {"pc", "round", "got", "read"} /\ r.pc = "read disk" /\ r.got = <<>> /\ r.read = proc[p].read
    BY <1>0
  <2>2. proc' = [proc EXCEPT ![p] = r]
    BY <1>5
  <2> HIDE DEF r
  <2>3. Moves(p, r.pc, r.got, r.read)
    BY <2>1, <2>2, ProcBecomes
  <2> QED BY <2>1, <2>3
<1>6. ASSUME proc' = [proc EXCEPT ![p] = [@ EXCEPT !.pc = "read settings", !.round = 2]]
      PROVE  Moves(p, "read settings", proc[p].got, proc[p].read)
  <2> DEFINE r == [proc[p] EXCEPT !.pc = "read settings", !.round = 2]
  <2>1. /\ DOMAIN r = {"pc", "round", "got", "read"}
        /\ r.pc = "read settings" /\ r.got = proc[p].got /\ r.read = proc[p].read
    BY <1>0
  <2>2. proc' = [proc EXCEPT ![p] = r]
    BY <1>6
  <2> HIDE DEF r
  <2>3. Moves(p, r.pc, r.got, r.read)
    BY <2>1, <2>2, ProcBecomes
  <2> QED BY <2>1, <2>3
<1> QED BY <1>1, <1>2, <1>3, <1>4, <1>5, <1>6

-----------------------------------------------------------------------------
(* What the Panel answers, and what the daemon makes of it.                 *)

\* The allocations that may be sent as the default.
Mine(r) == IF r.primary \in r.allocs THEN {r.primary} ELSE r.allocs

LEMMA DefaultsAre ==
  ASSUME NEW r, NEW d \in Defaults(r), d # <<>>
  PROVE  \E a \in Mine(r) : d = <<AllocationAt[a]>>
BY DEF Defaults, Mine

LEMMA AnswersAre ==
  ASSUME NEW r \in RowSet, NEW c \in Answers(r)
  PROVE  /\ CfgOk(c) /\ c.image = r.image /\ c.env = r.values /\ c.build.cpu = r.build.cpu
         /\ c.mounts = r.mounts /\ c.mappings = {AllocationAt[a] : a \in r.allocs}
         /\ c.default # <<>> => \E a \in Mine(r) : c.default[1] = AllocationAt[a]
<1>1. PICK o \in Orders, d \in Defaults(r) : c = Config(r, o, d)
  BY DEF Answers
<1>2. r.build \in BuildSet
  BY BuildsAssumption DEF RowSet, BuildSet
<1> DEFINE b == [r.build EXCEPT !.memory = @ * MiB, !.disk = @ * MiB]
<1>3. b \in BuildSet /\ b.cpu = r.build.cpu
  <2>1. r.build.memory * MiB \in Nat /\ r.build.disk * MiB \in Nat
    BY <1>2, UnitAssumption DEF BuildSet
  <2> DEFINE m == r.build.memory * MiB
             k == r.build.disk * MiB
  <2>2. b = [r.build EXCEPT !.memory = m, !.disk = k]
    OBVIOUS
  <2> HIDE DEF m, k, b
  <2> QED BY <1>2, <2>1, <2>2 DEF BuildSet, m, k
<1>4. c.build = b
  BY <1>1 DEF Config
<1>5. c.image = r.image /\ c.env = r.values /\ c.mounts = r.mounts /\ c.default = d
      /\ c.mappings = {AllocationAt[a] : a \in r.allocs}
  BY <1>1 DEF Config
<1>6. c # <<>>
  <2>1. "image" \in DOMAIN c
    BY <1>1 DEF Config
  <2>2. "image" \notin DOMAIN <<>>
    OBVIOUS
  <2> QED BY <2>1, <2>2
<1>7. d # <<>> => \E a \in Mine(r) : d[1] = AllocationAt[a]
  BY DefaultsAre
<1> HIDE DEF b
<1> QED BY <1>3, <1>4, <1>5, <1>6, <1>7 DEF CfgOk

LEMMA SettingsAre ==
  ASSUME NEW c
  PROVE  Settings(c).limits = c.build /\ Settings(c).mappings = c.mappings
         /\ Settings(c).default = c.default /\ Settings(c).mounts = MountsOf(c)
BY DEF Settings

LEMMA VariablesAre ==
  ASSUME NEW c, NEW o
  PROVE  /\ EnvironmentVariables(c, o) # <<>>
         /\ DOMAIN EnvironmentVariables(c, o) = {"startup", "memory", "ip", "port", "own"}
         /\ EnvironmentVariables(c, o).ip = c.default[1].ip /\ EnvironmentVariables(c, o).port = c.default[1].port
         /\ EnvironmentVariables(c, o).own = c.env
<1>1. /\ DOMAIN EnvironmentVariables(c, o) = {"startup", "memory", "ip", "port", "own"}
      /\ EnvironmentVariables(c, o).ip = c.default[1].ip /\ EnvironmentVariables(c, o).port = c.default[1].port
      /\ EnvironmentVariables(c, o).own = c.env
  BY DEF EnvironmentVariables
<1>2. "ip" \notin DOMAIN <<>>
  OBVIOUS
<1> QED BY <1>1, <1>2

LEMMA ContainerFields ==
  ASSUME NEW s, NEW i, NEW e
  PROVE  /\ NewContainer(s, i, e) # <<>>
         /\ DOMAIN NewContainer(s, i, e) = {"image", "mounts", "ports", "env", "resources"}
         /\ NewContainer(s, i, e).image = i /\ NewContainer(s, i, e).mounts = s.mounts
         /\ NewContainer(s, i, e).ports = DockerBindings(s)
         /\ NewContainer(s, i, e).resources = AsContainerResources(s.limits)
<1>1. /\ DOMAIN NewContainer(s, i, e) = {"image", "mounts", "ports", "env", "resources"}
      /\ NewContainer(s, i, e).image = i /\ NewContainer(s, i, e).mounts = s.mounts
      /\ NewContainer(s, i, e).ports = DockerBindings(s)
      /\ NewContainer(s, i, e).resources = AsContainerResources(s.limits)
  BY DEF NewContainer
<1>2. "image" \notin DOMAIN <<>>
  OBVIOUS
<1> QED BY <1>1, <1>2

LEMMA ContainerEnv ==
  ASSUME NEW s, NEW i, NEW e
  PROVE  NewContainer(s, i, e).env = [e EXCEPT !.ip = IF s.default[1].port # 0 THEN Host(@) ELSE @]
BY DEF NewContainer

-----------------------------------------------------------------------------
(* Types, shapes and limits are kept.                                       *)

Base == TypeOK /\ ShapeInv /\ LimitInv

ContainerOk ==
  container # <<>> => /\ DOMAIN container = {"image", "mounts", "ports", "env", "resources"}
                      /\ Ordered(container.resources)

\* A step of a sync.
LEMMA MoveBase ==
  ASSUME Base, NEW p \in Procs, NEW l, NEW g, NEW x, Moves(p, l, g, x), up,
         UNCHANGED <<row, edits, up, installer>>,
         CfgOk(cfg'), settings'.limits \in BuildSet, limit' \in Nat, variables' # <<>>, clean' \in BOOLEAN,
         ContainerOk',
         l = "apply" => CfgOk(g), l = "set disk" => x[1] \in Nat,
         l = "set settings" => x.limits \in BuildSet, l = "set env" => x # <<>>
  PROVE  Base'
<1>1. TypeOK'
  BY DEF Base, TypeOK, CfgOk
<1>2. ShapeInv'
  BY DEF Moves, ShapeInv, ContainerOk
<1>3. ASSUME NEW q \in Procs
      PROVE  /\ proc'[q].pc = "apply" => CfgOk(proc'[q].got)
             /\ proc'[q].pc = "set disk" => proc'[q].read[1] \in Nat
             /\ proc'[q].pc = "set settings" => proc'[q].read.limits \in BuildSet
             /\ proc'[q].pc = "set env" => proc'[q].read # <<>>
  <2>1. CASE q = p
    BY <2>1 DEF Moves
  <2>2. CASE q # p
    <3>1. proc'[q] = proc[q]
      BY <2>2 DEF Moves
    <3> QED BY <3>1 DEF Base, LimitInv
  <2> QED BY <2>1, <2>2
<1>4. installer' # <<>> => Ordered(installer'[1]) /\ installer'[1].memory >= InstallerMemory * MiB
  BY DEF Base, LimitInv
<1>5. container' # <<>> => Ordered(container'.resources)
  BY DEF ContainerOk
<1>6. LimitInv'
  BY <1>3, <1>4, <1>5 DEF LimitInv, CfgOk
<1> QED BY <1>1, <1>2, <1>6 DEF Base

\* The step of a sync that stores nothing.
LEMMA PlainBase ==
  ASSUME Base, NEW p \in Procs, NEW l, NEW g, NEW x, Moves(p, l, g, x), up,
         UNCHANGED <<row, edits, up, installer, cfg, settings, limit, variables>>, clean' \in BOOLEAN, ContainerOk',
         l = "apply" => CfgOk(g), l = "set disk" => x[1] \in Nat,
         l = "set settings" => x.limits \in BuildSet, l = "set env" => x # <<>>
  PROVE  Base'
<1>1. CfgOk(cfg) /\ settings.limits \in BuildSet /\ limit \in Nat /\ variables # <<>>
  BY DEF Base, TypeOK, LimitInv
<1>2. CfgOk(cfg') /\ settings'.limits \in BuildSet /\ limit' \in Nat /\ variables' # <<>>
  BY <1>1
<1> QED BY <1>2, MoveBase

LEMMA DownBase ==
  ASSUME Base, Down
  PROVE  Base'
<1>0. DOMAIN NoProc = {"pc", "round", "got", "read"} /\ NoProc.pc = "idle"
  BY DEF NoProc
<1>1. \A p \in Procs : proc'[p] = NoProc
  BY DEF Down
<1>2. TypeOK'
  BY <1>0, <1>1 DEF Base, TypeOK, Down
<1>3. ShapeInv'
  <2>1. proc' = [p \in Procs |-> proc'[p]]
    BY DEF Down
  <2> QED BY <1>0, <1>1, <2>1 DEF Base, ShapeInv, ProcShape, Down
<1>4. LimitInv'
  BY <1>0, <1>1 DEF Base, LimitInv, Down
<1> QED BY <1>2, <1>3, <1>4 DEF Base

LEMMA EditsBase ==
  ASSUME Base, Edits
  PROVE  Base'
<1>1. row' \in RowSet
  <2>0. row \in RowSet
    BY DEF Base, TypeOK
  <2>1. CASE UpdateBuild
    BY <2>0, <2>1 DEF UpdateBuild, Edit, RowSet
  <2>2. CASE UpdatePrimary
    BY <2>0, <2>2 DEF UpdatePrimary, Edit, RowSet
  <2>3. CASE UpdateStartup
    BY <2>0, <2>3 DEF UpdateStartup, Edit, RowSet
  <2>4. CASE Suspend
    BY <2>0, <2>4 DEF Suspend, Edit, RowSet
  <2>5. CASE DeleteAllocation
    BY <2>0, <2>5 DEF DeleteAllocation, Edit, RowSet
  <2>6. CASE DeleteMount
    BY <2>0, <2>6 DEF DeleteMount, Edit, RowSet
  <2> QED BY <2>1, <2>2, <2>3, <2>4, <2>5, <2>6 DEF Edits
<1>2. edits < MaxEdits /\ edits' = edits + 1 /\ clean' = FALSE /\ UNCHANGED daemon
  BY DEF Edits, UpdateBuild, UpdatePrimary, UpdateStartup, Suspend, DeleteAllocation, DeleteMount, Edit
<1>3. edits' \in 0..MaxEdits
  BY <1>2, BoundAssumption DEF Base, TypeOK
<1>4. TypeOK'
  BY <1>1, <1>2, <1>3 DEF Base, TypeOK, daemon
<1>5. ShapeInv' /\ LimitInv'
  BY <1>2 DEF Base, ShapeInv, ProcShape, LimitInv, CfgOk, daemon
<1> QED BY <1>4, <1>5 DEF Base

LEMMA BootBase ==
  ASSUME Base, Boot
  PROVE  Base'
<1>0. row \in RowSet
  BY DEF Base, TypeOK
<1>1. PICK c \in Answers(row), o \in Orders :
        /\ c.default # <<>> /\ up' = TRUE /\ cfg' = c /\ limit' = DiskSpace(c)
        /\ settings' = Settings(c) /\ image' = c.image /\ variables' = EnvironmentVariables(c, o)
  BY DEF Boot, Listed
<1>2. CfgOk(c) /\ Settings(c).limits \in BuildSet /\ EnvironmentVariables(c, o) # <<>>
  BY <1>0, AnswersAre, SettingsAre, VariablesAre DEF CfgOk
<1>3. DiskSpace(c) \in Nat
  BY <1>2, UnitAssumption DEF CfgOk, BuildSet, DiskSpace
<1>4. UNCHANGED <<row, edits, container, installer, proc, clean>>
  BY DEF Boot
<1>5. TypeOK'
  BY <1>1, <1>2, <1>3, <1>4 DEF Base, TypeOK, CfgOk
<1>6. ShapeInv'
  BY <1>4 DEF Base, ShapeInv, ProcShape
<1>7. LimitInv'
  BY <1>1, <1>2, <1>4 DEF Base, LimitInv, CfgOk
<1> QED BY <1>5, <1>6, <1>7 DEF Base

LEMMA InstallBase ==
  ASSUME Base, Install
  PROVE  Base'
<1>1. CASE Down
  BY <1>1, DownBase
<1>2. CASE installer' = <<ResourceLimits(cfg.build)>> /\ up
           /\ UNCHANGED <<row, edits, up, cfg, limit, settings, image, variables, container, proc, clean>>
  <2>1. cfg.build \in BuildSet
    BY <1>2 DEF Base, LimitInv, CfgOk
  <2>2. Ordered(installer'[1]) /\ installer'[1].memory >= InstallerMemory * MiB
    BY <1>2, <2>1, InstallerIn
  <2>3. TypeOK' /\ ShapeInv'
    BY <1>2 DEF Base, TypeOK, ShapeInv, ProcShape
  <2>4. LimitInv'
    BY <1>2, <2>2 DEF Base, LimitInv, CfgOk
  <2> QED BY <2>3, <2>4 DEF Base
<1> QED BY <1>1, <1>2 DEF Install

LEMMA SyncBase ==
  ASSUME Base, NEW p \in Procs, Begin(p) \/ Sync(p)
  PROVE  Base'
<1>0. ProcShape /\ row \in RowSet /\ clean \in BOOLEAN
  BY DEF Base, ShapeInv, TypeOK
<1>u. up => CfgOk(cfg) /\ settings.limits \in BuildSet /\ limit \in Nat /\ variables # <<>>
  BY DEF Base, TypeOK, LimitInv
<1>c. container' = container => ContainerOk'
  BY DEF Base, ShapeInv, LimitInv, ContainerOk
<1>1. CASE Begin(p)
  <2>1. Moves(p, "fetch", proc[p].got, <<>>) /\ up
    BY <1>0, <1>1, ProcGoes DEF Begin, At
  <2>2. ContainerOk' /\ UNCHANGED <<row, edits, up, installer, cfg, settings, limit, variables>> /\ clean' \in BOOLEAN
    BY <1>0, <1>1, <1>c DEF Begin
  <2> QED BY <2>1, <2>2, PlainBase
<1>2. CASE Fetch(p)
  <2>1. up /\ ContainerOk' /\ UNCHANGED <<row, edits, up, installer, cfg, settings, limit, variables>>
    BY <1>2, <1>c DEF Fetch, At
  <2>2. clean' \in BOOLEAN
    BY <1>0, <1>2 DEF Fetch
  <2>3. CASE End(p)
    <3>1. Moves(p, "idle", <<>>, <<>>)
      BY <1>0, <2>3, ProcGoes
    <3> QED BY <2>1, <2>2, <3>1, PlainBase
  <2>4. CASE \E c \in Answers(row) : proc' = [proc EXCEPT ![p] = [@ EXCEPT !.pc = "apply", !.got = c]]
    <3>1. PICK c \in Answers(row) : proc' = [proc EXCEPT ![p] = [@ EXCEPT !.pc = "apply", !.got = c]]
      BY <2>4
    <3>2. Moves(p, "apply", c, proc[p].read)
      BY <1>0, <3>1, ProcGoes
    <3>3. CfgOk(c)
      BY <1>0, AnswersAre
    <3> QED BY <2>1, <2>2, <3>2, <3>3, PlainBase
  <2> QED BY <1>2, <2>3, <2>4 DEF Fetch
<1>3. CASE Apply(p)
  <2>1. Moves(p, "read disk", <<>>, proc[p].read) /\ up
    BY <1>0, <1>3, ProcGoes DEF Apply, At
  <2>2. CfgOk(cfg')
    BY <1>3 DEF Apply, At, Base, LimitInv
  <2>3. ContainerOk' /\ UNCHANGED <<row, edits, up, installer, settings, limit, variables, clean>>
    BY <1>3, <1>c DEF Apply
  <2> DEFINE x == proc[p].read
  <2>4. Moves(p, "read disk", <<>>, x)
    BY <2>1
  <2>5. settings'.limits \in BuildSet /\ limit' \in Nat /\ variables' # <<>> /\ clean' \in BOOLEAN
    BY <1>0, <1>u, <2>1, <2>3
  <2> HIDE DEF x
  <2> QED BY <2>1, <2>2, <2>3, <2>4, <2>5, MoveBase
<1>4. CASE ReadDisk(p)
  <2> DEFINE x == <<DiskSpace(cfg)>>
  <2>1. Moves(p, "set disk", proc[p].got, x) /\ up
    BY <1>0, <1>4, ProcGoes DEF ReadDisk, At
  <2>2. x[1] \in Nat
    <3>1. cfg.build.disk \in Nat
      BY <1>u, <2>1 DEF CfgOk, BuildSet
    <3> QED BY <3>1, UnitAssumption DEF DiskSpace
  <2> HIDE DEF x
  <2>3. ContainerOk' /\ UNCHANGED <<row, edits, up, installer, cfg, settings, limit, variables, clean>>
    BY <1>4, <1>c DEF ReadDisk
  <2> QED BY <1>0, <2>1, <2>2, <2>3, PlainBase
<1>5. CASE SetDiskLimit(p)
  <2>1. Moves(p, "read settings", proc[p].got, <<>>) /\ up
    BY <1>0, <1>5, ProcGoes DEF SetDiskLimit, At
  <2>2. limit' \in Nat
    BY <1>5 DEF SetDiskLimit, At, Base, LimitInv
  <2>3. ContainerOk' /\ UNCHANGED <<row, edits, up, installer, cfg, settings, variables, clean>>
    BY <1>5, <1>c DEF SetDiskLimit
  <2>4. CfgOk(cfg')
    BY <1>u, <2>1, <2>3
  <2> QED BY <1>0, <1>u, <2>1, <2>2, <2>3, <2>4, MoveBase
<1>6. CASE ReadSettings(p)
  <2>1. Moves(p, "set settings", proc[p].got, Settings(cfg)) /\ up
    BY <1>0, <1>6, ProcGoes DEF ReadSettings, At
  <2>2. Settings(cfg).limits \in BuildSet
    BY <1>u, <2>1, SettingsAre DEF CfgOk
  <2>3. ContainerOk' /\ UNCHANGED <<row, edits, up, installer, cfg, settings, limit, variables, clean>>
    BY <1>6, <1>c DEF ReadSettings
  <2> QED BY <1>0, <2>1, <2>2, <2>3, PlainBase
<1>7. CASE SetSettings(p)
  <2>1. Moves(p, "read image", proc[p].got, <<>>) /\ up
    BY <1>0, <1>7, ProcGoes DEF SetSettings, At
  <2>2. settings'.limits \in BuildSet
    BY <1>7 DEF SetSettings, At, Base, LimitInv
  <2>3. ContainerOk' /\ UNCHANGED <<row, edits, up, installer, cfg, limit, variables, clean>>
    BY <1>7, <1>c DEF SetSettings
  <2>4. CfgOk(cfg')
    BY <1>u, <2>1, <2>3
  <2> QED BY <1>0, <1>u, <2>1, <2>2, <2>3, <2>4, MoveBase
<1>8. CASE ReadImage(p)
  <2> DEFINE x == <<cfg.image>>
  <2>1. Moves(p, "set image", proc[p].got, x) /\ up
    BY <1>0, <1>8, ProcGoes DEF ReadImage, At
  <2> HIDE DEF x
  <2>2. ContainerOk' /\ UNCHANGED <<row, edits, up, installer, cfg, settings, limit, variables, clean>>
    BY <1>8, <1>c DEF ReadImage
  <2> QED BY <1>0, <2>1, <2>2, PlainBase
<1>9. CASE SetImage(p)
  <2>1. Moves(p, "read env", proc[p].got, <<>>) /\ up
    BY <1>0, <1>9, ProcGoes DEF SetImage, At
  <2>2. ContainerOk' /\ UNCHANGED <<row, edits, up, installer, cfg, settings, limit, variables, clean>>
    BY <1>9, <1>c DEF SetImage
  <2> QED BY <1>0, <2>1, <2>2, PlainBase
<1>10. CASE ReadEnv(p)
  <2>1. CASE Down
    BY <2>1, DownBase
  <2>2. CASE ~Down
    <3>1. up /\ ContainerOk' /\ UNCHANGED <<row, edits, up, installer, cfg, settings, limit, variables, clean>>
      BY <1>10, <2>2, <1>c DEF ReadEnv, At
    <3>2. CASE End(p)
      <4>1. Moves(p, "idle", <<>>, <<>>)
        BY <1>0, <3>2, ProcGoes
      <4> QED BY <1>0, <3>1, <4>1, PlainBase
    <3>3. CASE \E o \in Orders : Read(p, "set env", EnvironmentVariables(cfg, o))
      <4>1. PICK o \in Orders : Read(p, "set env", EnvironmentVariables(cfg, o))
        BY <3>3
      <4> DEFINE x == EnvironmentVariables(cfg, o)
      <4>2. Moves(p, "set env", proc[p].got, x)
        BY <1>0, <4>1, ProcGoes
      <4>3. x # <<>>
        BY VariablesAre
      <4>4. clean' \in BOOLEAN
        BY <1>0, <3>1
      <4> HIDE DEF x
      <4> QED BY <3>1, <4>2, <4>3, <4>4, PlainBase
    <3> QED BY <1>10, <2>2, <3>2, <3>3 DEF ReadEnv
  <2> QED BY <2>1, <2>2
<1>11. CASE SetEnv(p)
  <2>1. Moves(p, "update", proc[p].got, <<>>) /\ up
    BY <1>0, <1>11, ProcGoes DEF SetEnv, At
  <2>2. variables' # <<>>
    BY <1>11 DEF SetEnv, At, Base, LimitInv
  <2>3. ContainerOk' /\ UNCHANGED <<row, edits, up, installer, cfg, settings, limit, clean>>
    BY <1>11, <1>c DEF SetEnv
  <2>4. CfgOk(cfg')
    BY <1>u, <2>1, <2>3
  <2> QED BY <1>0, <1>u, <2>1, <2>2, <2>3, <2>4, MoveBase
<1>12. CASE Update(p)
  <2>1. up /\ UNCHANGED <<row, edits, up, installer, cfg, settings, limit, variables, clean>>
    BY <1>12 DEF Update, At
  <2>2. ContainerOk'
    <3>1. CASE container' = container
      BY <3>1, <1>c
    <3>2. CASE container # <<>> /\ container' = [container EXCEPT !.resources = AsContainerResources(settings.limits)]
      <4>1. DOMAIN container = {"image", "mounts", "ports", "env", "resources"}
        BY <3>2 DEF Base, ShapeInv
      <4>2. Ordered(AsContainerResources(settings.limits))
        BY <1>u, <2>1, ResourcesIn
      <4> DEFINE y == AsContainerResources(settings.limits)
      <4>3. container' = [container EXCEPT !.resources = y] /\ Ordered(y)
        BY <3>2, <4>2
      <4> HIDE DEF y
      <4>4. DOMAIN container' = DOMAIN container /\ container'.resources = y
        BY <4>1, <4>3
      <4> QED BY <4>1, <4>3, <4>4 DEF ContainerOk
    <3> QED BY <1>12, <3>1, <3>2 DEF Update
  <2>3. CASE End(p)
    <3>1. Moves(p, "idle", <<>>, <<>>)
      BY <1>0, <2>3, ProcGoes
    <3> QED BY <1>0, <2>1, <2>2, <3>1, PlainBase
  <2>4. CASE Goto(p, "remove")
    <3>1. Moves(p, "remove", proc[p].got, <<>>)
      BY <1>0, <2>4, ProcGoes
    <3> QED BY <1>0, <2>1, <2>2, <3>1, PlainBase
  <2>5. CASE proc' = [proc EXCEPT ![p] = [@ EXCEPT !.pc = "read settings", !.round = 2]]
    <3> DEFINE x == proc[p].read
    <3>1. Moves(p, "read settings", proc[p].got, x)
      BY <1>0, <2>5, ProcGoes
    <3> HIDE DEF x
    <3> QED BY <1>0, <2>1, <2>2, <3>1, PlainBase
  <2> QED BY <1>12, <2>3, <2>4, <2>5 DEF Update
<1> QED BY <1>1, <1>2, <1>3, <1>4, <1>5, <1>6, <1>7, <1>8, <1>9, <1>10, <1>11, <1>12 DEF Sync

LEMMA StartBase ==
  ASSUME Base, Remove(Start) \/ Create(Start) \/ Created(Start)
  PROVE  Base'
<1>0. ProcShape /\ clean \in BOOLEAN /\ Start \in Procs
  BY DEF Base, ShapeInv, TypeOK, Procs
<1>c. container' = container \/ container' = <<>> => ContainerOk'
  BY DEF Base, ShapeInv, LimitInv, ContainerOk
<1>e. End(Start) => Moves(Start, "idle", <<>>, <<>>)
  BY <1>0, ProcGoes
<1>1. CASE Remove(Start)
  <2>1. up /\ ContainerOk' /\ UNCHANGED <<row, edits, up, installer, cfg, settings, limit, variables, clean>>
    BY <1>1, <1>c DEF Remove, At
  <2>2. CASE End(Start)
    BY <1>0, <1>e, <2>1, <2>2, PlainBase
  <2>3. CASE Goto(Start, "create")
    <3>1. Moves(Start, "create", proc[Start].got, <<>>)
      BY <1>0, <2>3, ProcGoes
    <3> QED BY <1>0, <2>1, <3>1, PlainBase
  <2> QED BY <1>1, <2>2, <2>3 DEF Remove
<1>2. CASE Create(Start)
  <2>1. CASE Down
    BY <2>1, DownBase
  <2>2. CASE ~Down
    <3>1. up /\ UNCHANGED <<row, edits, up, installer, cfg, settings, limit, variables, clean>>
      BY <1>2, <2>2 DEF Create, At
    <3>2. CASE End(Start) /\ UNCHANGED container
      BY <1>0, <1>c, <1>e, <3>1, <3>2, PlainBase
    <3>3. CASE container' = NewContainer(settings, image, variables) /\ Goto(Start, "created")
      <4>1. Moves(Start, "created", proc[Start].got, <<>>)
        BY <1>0, <3>3, ProcGoes
      <4>2. settings.limits \in BuildSet
        BY <3>1 DEF Base, LimitInv
      <4>3. ContainerOk'
        <5>1. Ordered(AsContainerResources(settings.limits))
          BY <4>2, ResourcesIn
        <5> DEFINE y == NewContainer(settings, image, variables)
                   z == AsContainerResources(settings.limits)
        <5>2. DOMAIN y = {"image", "mounts", "ports", "env", "resources"} /\ y.resources = z
          BY ContainerFields
        <5>3. container' = y /\ Ordered(z)
          BY <3>3, <5>1
        <5> HIDE DEF y, z
        <5> QED BY <5>2, <5>3 DEF ContainerOk
      <4> QED BY <1>0, <3>1, <4>1, <4>3, PlainBase
    <3> QED BY <1>2, <2>2, <3>2, <3>3 DEF Create
  <2> QED BY <2>1, <2>2
<1>3. CASE Created(Start)
  <2>1. up /\ ContainerOk' /\ UNCHANGED <<row, edits, up, installer, cfg, settings, limit, variables>>
        /\ clean' \in BOOLEAN
    BY <1>3, <1>c DEF Created, At
  <2>2. Moves(Start, "idle", <<>>, <<>>)
    BY <1>e, <1>3 DEF Created
  <2> QED BY <1>0, <2>1, <2>2, PlainBase
<1> QED BY <1>1, <1>2, <1>3

LEMMA NextBase ==
  ASSUME Base, Next
  PROVE  Base'
BY EditsBase, BootBase, DownBase, InstallBase, SyncBase, StartBase DEF Next

-----------------------------------------------------------------------------
(* A clean start.                                                           *)

\* The row, and whatever a sync can take from it, stays; the steps of others too.
CleanUp == \A p \in Procs : CleanAt(p)

\* p goes to l; what it stores on the way comes from the current row.
LEMMA MoveClean ==
  ASSUME CleanUp, NEW p \in Procs, NEW l, NEW g, NEW x, Moves(p, l, g, x), UNCHANGED row,
         cfg' = cfg \/ cfg' \in Answers(row),
         settings' = settings \/ CurrentSettings(settings'),
         image' = image \/ image' = row.image,
         variables' = variables \/ CurrentVariables(variables'),
         l = "apply" => g \in Answers(row),
         l \in PastApply => cfg' \in Answers(row),
         l = "set settings" => CurrentSettings(x),
         l \in PastSettings => CurrentSettings(settings'),
         l = "set image" => x = <<row.image>>,
         l \in PastImage => image' = row.image,
         l = "set env" => CurrentVariables(x),
         l \in PastEnv => CurrentVariables(variables')
  PROVE  CleanUp'
<1>1. CleanAt(p)'
  BY DEF Moves, CleanAt, CurrentSettings, CurrentVariables
<1>2. ASSUME NEW q \in Procs \ {p} PROVE CleanAt(q)'
  <2>1. proc'[q] = proc[q] /\ CleanAt(q)
    BY DEF Moves, CleanUp
  <2>2. row' = row /\ Answers(row)' = Answers(row)
    OBVIOUS
  <2>3. CurrentSettings(proc[q].read)' = CurrentSettings(proc[q].read)
    BY <2>1, <2>2 DEF CurrentSettings
  <2>4. CurrentVariables(proc[q].read)' = CurrentVariables(proc[q].read)
    BY <2>1, <2>2 DEF CurrentVariables
  <2> QED BY <2>1, <2>2, <2>3, <2>4, ZenonT(60) DEF CleanAt, CurrentSettings, CurrentVariables
<1> QED BY <1>1, <1>2 DEF CleanUp

\* What has been made stays what it is.
LEMMA MadeStays ==
  ASSUME AsMade, UNCHANGED row,
         container'.image = container.image, container'.ports = container.ports, container'.env = container.env,
         container'.mounts = container.mounts, container'.resources.quota = row.build.cpu * 1000
  PROVE  AsMade'
BY DEF AsMade, AsTheRowSays, CurrentCommand

\* A step of a sync that does not touch the container.
LEMMA CleanStep ==
  ASSUME CleanInv, NEW p \in Procs, NEW l, NEW g, NEW x, Moves(p, l, g, x), l # "created",
         UNCHANGED <<row, container, clean, up>>, clean => CleanUp'
  PROVE  CleanInv'
<1>1. clean' => up' /\ \A q \in Procs : CleanAt(q)'
  BY DEF CleanInv, CleanUp
<1>2. CleanlyMade' => CleanlyMade
  BY DEF Moves, CleanlyMade, Procs
<1>3. AsMade => AsMade'
  BY DEF AsMade, AsTheRowSays, CurrentCommand
<1> QED BY <1>1, <1>2, <1>3 DEF CleanInv

LEMMA DownClean ==
  ASSUME Down \/ Edits
  PROVE  CleanInv'
<1>1. clean' = FALSE
  BY DEF Down, Edits, UpdateBuild, UpdatePrimary, UpdateStartup, Suspend, DeleteAllocation, DeleteMount, Edit
<1> QED BY <1>1 DEF CleanInv, CleanlyMade

\* The image of every answer is the row's.
LEMMA SyncClean ==
  ASSUME Base, CleanInv, NEW p \in Procs, Begin(p) \/ (Sync(p) /\ ~Update(p))
  PROVE  CleanInv'
<1>0. ProcShape /\ row \in RowSet
  BY DEF Base, ShapeInv, TypeOK
<1>1. CASE Begin(p)
  <2>1. Moves(p, "fetch", proc[p].got, <<>>)
    BY <1>0, <1>1, ProcGoes DEF Begin
  <2>2. UNCHANGED <<row, container, clean, up, cfg, settings, image, variables>>
    BY <1>1 DEF Begin
  <2>3. clean => CleanUp'
    BY <2>1, <2>2, MoveClean DEF CleanInv, CleanUp, PastApply, PastSettings, PastImage, PastEnv
  <2> QED BY <2>1, <2>2, <2>3, CleanStep
<1>2. CASE Fetch(p)
  <2>1. UNCHANGED <<row, container, up, cfg, settings, image, variables>> /\ up
    BY <1>2 DEF Fetch, At
  <2>2. CASE End(p) /\ UNCHANGED clean
    <3>1. Moves(p, "idle", <<>>, <<>>)
      BY <1>0, <2>2, ProcGoes
    <3>2. clean => CleanUp'
      BY <2>1, <3>1, MoveClean DEF CleanInv, CleanUp, PastApply, PastSettings, PastImage, PastEnv
    <3> QED BY <2>1, <2>2, <3>1, <3>2, CleanStep
  <2>3. CASE \E c \in Answers(row) : proc' = [proc EXCEPT ![p] = [@ EXCEPT !.pc = "apply", !.got = c]]
    <3>1. PICK c \in Answers(row) : proc' = [proc EXCEPT ![p] = [@ EXCEPT !.pc = "apply", !.got = c]]
      BY <2>3
    <3> DEFINE x == proc[p].read
    <3>2. Moves(p, "apply", c, x)
      BY <1>0, <3>1, ProcGoes
    <3> HIDE DEF x
    <3>3. CASE clean' = clean
      <4>1. clean => CleanUp'
        BY <2>1, <3>2, MoveClean DEF CleanInv, CleanUp, PastApply, PastSettings, PastImage, PastEnv
      <4> QED BY <2>1, <3>2, <3>3, <4>1, CleanStep
    <3>4. CASE p = Start /\ clean' # clean
      <4>1. clean' => \A q \in Requests : proc[q].pc \in {"idle", "fetch"}
        BY <1>2, <2>3, <3>4 DEF Fetch
      <4>2. proc'[Start].pc = "apply" /\ proc'[Start].got = c
        BY <3>2, <3>4 DEF Moves
      <4>3. CleanAt(Start)'
        BY <2>1, <4>2 DEF CleanAt, PastApply, PastSettings, PastImage, PastEnv
      <4>4. ASSUME clean', NEW q \in Procs \ {Start} PROVE CleanAt(q)'
        <5>1. proc'[q].pc \in {"idle", "fetch"}
          BY <3>2, <3>4, <4>1, <4>4 DEF Moves, Procs
        <5> QED BY <5>1 DEF CleanAt, PastApply, PastSettings, PastImage, PastEnv
      <4> QED BY <2>1, <4>2, <4>3, <4>4 DEF CleanInv, CleanlyMade
    <3> QED BY <1>2, <3>3, <3>4 DEF Fetch
  <2> QED BY <1>2, <2>2, <2>3 DEF Fetch
<1>3. CASE Apply(p)
  <2> DEFINE x == proc[p].read
  <2>1. Moves(p, "read disk", <<>>, x)
    BY <1>0, <1>3, ProcGoes DEF Apply
  <2> HIDE DEF x
  <2>2. UNCHANGED <<row, container, clean, up, settings, image, variables>> /\ cfg' = proc[p].got
    BY <1>3 DEF Apply
  <2>3. clean => cfg' \in Answers(row)
    BY <1>3, <2>2 DEF Apply, At, CleanInv, CleanAt
  <2>4. clean => CleanUp'
    BY <2>1, <2>2, <2>3, MoveClean DEF CleanInv, CleanUp, PastApply, PastSettings, PastImage, PastEnv
  <2> QED BY <2>1, <2>2, <2>4, CleanStep
<1>4. CASE ReadDisk(p)
  <2> DEFINE x == <<DiskSpace(cfg)>>
  <2>1. Moves(p, "set disk", proc[p].got, x)
    BY <1>0, <1>4, ProcGoes DEF ReadDisk
  <2> HIDE DEF x
  <2>2. UNCHANGED <<row, container, clean, up, cfg, settings, image, variables>>
    BY <1>4 DEF ReadDisk
  <2>3. clean => cfg' \in Answers(row)
    BY <1>4, <2>2 DEF ReadDisk, At, CleanInv, CleanAt, PastApply
  <2>4. clean => CleanUp'
    BY <2>1, <2>2, <2>3, MoveClean DEF CleanInv, CleanUp, PastApply, PastSettings, PastImage, PastEnv
  <2> QED BY <2>1, <2>2, <2>4, CleanStep
<1>5. CASE SetDiskLimit(p)
  <2>1. Moves(p, "read settings", proc[p].got, <<>>)
    BY <1>0, <1>5, ProcGoes DEF SetDiskLimit
  <2>2. UNCHANGED <<row, container, clean, up, cfg, settings, image, variables>>
    BY <1>5 DEF SetDiskLimit
  <2>3. clean => cfg' \in Answers(row)
    BY <1>5, <2>2 DEF SetDiskLimit, At, CleanInv, CleanAt, PastApply
  <2>4. clean => CleanUp'
    BY <2>1, <2>2, <2>3, MoveClean DEF CleanInv, CleanUp, PastApply, PastSettings, PastImage, PastEnv
  <2> QED BY <2>1, <2>2, <2>4, CleanStep
<1>6. CASE ReadSettings(p)
  <2> DEFINE x == Settings(cfg)
  <2>1. Moves(p, "set settings", proc[p].got, x)
    BY <1>0, <1>6, ProcGoes DEF ReadSettings
  <2>2. UNCHANGED <<row, container, clean, up, cfg, settings, image, variables>>
    BY <1>6 DEF ReadSettings
  <2>3. clean => cfg' \in Answers(row)
    BY <1>6, <2>2 DEF ReadSettings, At, CleanInv, CleanAt, PastApply
  <2>4. clean => CurrentSettings(x)
    BY <2>2, <2>3 DEF CurrentSettings
  <2> HIDE DEF x
  <2>5. clean => CleanUp'
    BY <2>1, <2>2, <2>3, <2>4, MoveClean DEF CleanInv, CleanUp, PastApply, PastSettings, PastImage, PastEnv
  <2> QED BY <2>1, <2>2, <2>5, CleanStep
<1>7. CASE SetSettings(p)
  <2>1. Moves(p, "read image", proc[p].got, <<>>)
    BY <1>0, <1>7, ProcGoes DEF SetSettings
  <2>2. UNCHANGED <<row, container, clean, up, cfg, image, variables>> /\ settings' = proc[p].read
    BY <1>7 DEF SetSettings
  <2>3. clean => cfg' \in Answers(row) /\ CurrentSettings(settings')
    BY <1>7, <2>2 DEF SetSettings, At, CleanInv, CleanAt, PastApply
  <2>4. clean => CleanUp'
    BY <2>1, <2>2, <2>3, MoveClean DEF CleanInv, CleanUp, PastApply, PastSettings, PastImage, PastEnv
  <2> QED BY <2>1, <2>2, <2>4, CleanStep
<1>8. CASE ReadImage(p)
  <2> DEFINE x == <<cfg.image>>
  <2>1. Moves(p, "set image", proc[p].got, x)
    BY <1>0, <1>8, ProcGoes DEF ReadImage
  <2>2. UNCHANGED <<row, container, clean, up, cfg, settings, image, variables>>
    BY <1>8 DEF ReadImage
  <2>3. clean => cfg' \in Answers(row) /\ CurrentSettings(settings')
    BY <1>8, <2>2 DEF ReadImage, At, CleanInv, CleanAt, PastApply, PastSettings
  <2>4. clean => x = <<row.image>>
    BY <1>0, <2>2, <2>3, AnswersAre
  <2> HIDE DEF x
  <2>5. clean => CleanUp'
    BY <2>1, <2>2, <2>3, <2>4, MoveClean DEF CleanInv, CleanUp, PastApply, PastSettings, PastImage, PastEnv
  <2> QED BY <2>1, <2>2, <2>5, CleanStep
<1>9. CASE SetImage(p)
  <2>1. Moves(p, "read env", proc[p].got, <<>>)
    BY <1>0, <1>9, ProcGoes DEF SetImage
  <2>2. UNCHANGED <<row, container, clean, up, cfg, settings, variables>> /\ image' = proc[p].read[1]
    BY <1>9 DEF SetImage
  <2>3. clean => cfg' \in Answers(row) /\ CurrentSettings(settings') /\ image' = row.image
    <3>1. proc[p].pc = "set image"
      BY <1>9 DEF SetImage, At
    <3>2. clean => cfg \in Answers(row) /\ CurrentSettings(settings) /\ proc[p].read = <<row.image>>
      BY <3>1 DEF CleanInv, CleanAt, PastApply, PastSettings
    <3>3. <<row.image>>[1] = row.image
      OBVIOUS
    <3> QED BY <2>2, <3>2, <3>3
  <2>4. clean => CleanUp'
    BY <2>1, <2>2, <2>3, MoveClean DEF CleanInv, CleanUp, PastApply, PastSettings, PastImage, PastEnv
  <2> QED BY <2>1, <2>2, <2>4, CleanStep
<1>10. CASE ReadEnv(p)
  <2>1. CASE Down
    BY <2>1, DownClean
  <2>2. CASE ~Down
    <3>1. UNCHANGED <<row, container, clean, up, cfg, settings, image, variables>>
      BY <1>10, <2>2 DEF ReadEnv
    <3>2. CASE End(p)
      <4>1. Moves(p, "idle", <<>>, <<>>)
        BY <1>0, <3>2, ProcGoes
      <4>2. clean => CleanUp'
        BY <3>1, <4>1, MoveClean DEF CleanInv, CleanUp, PastApply, PastSettings, PastImage, PastEnv
      <4> QED BY <3>1, <4>1, <4>2, CleanStep
    <3>3. CASE cfg.default # <<>> /\ \E o \in Orders : Read(p, "set env", EnvironmentVariables(cfg, o))
      <4>1. PICK o \in Orders : Read(p, "set env", EnvironmentVariables(cfg, o))
        BY <3>3
      <4> DEFINE x == EnvironmentVariables(cfg, o)
      <4>2. Moves(p, "set env", proc[p].got, x)
        BY <1>0, <4>1, ProcGoes
      <4>3. clean => cfg' \in Answers(row) /\ CurrentSettings(settings') /\ image' = row.image
        BY <1>10, <3>1 DEF ReadEnv, At, CleanInv, CleanAt, PastApply, PastSettings, PastImage
      <4>4. clean => CurrentVariables(x)
        BY <3>1, <3>3, <4>3 DEF CurrentVariables
      <4> HIDE DEF x
      <4>5. clean => CleanUp'
        BY <3>1, <4>2, <4>3, <4>4, MoveClean DEF CleanInv, CleanUp, PastApply, PastSettings, PastImage, PastEnv
      <4> QED BY <3>1, <4>2, <4>5, CleanStep
    <3> QED BY <1>10, <2>2, <3>2, <3>3 DEF ReadEnv
  <2> QED BY <2>1, <2>2
<1>11. CASE SetEnv(p)
  <2>1. Moves(p, "update", proc[p].got, <<>>)
    BY <1>0, <1>11, ProcGoes DEF SetEnv
  <2>2. UNCHANGED <<row, container, clean, up, cfg, settings, image>> /\ variables' = proc[p].read
    BY <1>11 DEF SetEnv
  <2>3. clean => cfg' \in Answers(row) /\ CurrentSettings(settings') /\ image' = row.image
                 /\ CurrentVariables(variables')
    BY <1>11, <2>2 DEF SetEnv, At, CleanInv, CleanAt, PastApply, PastSettings, PastImage
  <2>4. clean => CleanUp'
    BY <2>1, <2>2, <2>3, MoveClean DEF CleanInv, CleanUp, PastApply, PastSettings, PastImage, PastEnv
  <2> QED BY <2>1, <2>2, <2>4, CleanStep
<1> QED BY <1>1, <1>2, <1>3, <1>4, <1>5, <1>6, <1>7, <1>8, <1>9, <1>10, <1>11 DEF Sync

LEMMA EmptyHasNoFields ==
  "image" \notin DOMAIN <<>>
OBVIOUS

\* The processor share that follows from current settings.
LEMMA CurrentQuota ==
  ASSUME row \in RowSet, CurrentSettings(settings)
  PROVE  AsContainerResources(settings.limits).quota = row.build.cpu * 1000
<1>1. PICK c \in Answers(row) : settings = Settings(c)
  BY DEF CurrentSettings
<1>2. settings.limits = c.build /\ c.build \in BuildSet /\ c.build.cpu = row.build.cpu
  BY <1>1, SettingsAre, AnswersAre DEF CfgOk
<1> DEFINE b == settings.limits
<1>3. b \in BuildSet /\ b.cpu = row.build.cpu
  BY <1>2
<1> HIDE DEF b
<1>4. AsContainerResources(b).quota = b.cpu * 1000
  BY <1>3, ResourcesIn
<1>5. AsContainerResources(b).quota = row.build.cpu * 1000
  BY <1>3, <1>4
<1> QED BY <1>5 DEF b

\* An update in place gives the container the limits of the current row.
LEMMA UpdateClean ==
  ASSUME Base, CleanInv, NEW p \in Procs, Update(p)
  PROVE  CleanInv'
<1>0. ProcShape /\ row \in RowSet
  BY DEF Base, ShapeInv, TypeOK
<1>1. UNCHANGED <<row, clean, up, cfg, settings, image, variables>> /\ up /\ proc[p].pc = "update"
  BY DEF Update, At
<1>2. clean => /\ cfg' \in Answers(row) /\ CurrentSettings(settings') /\ image' = row.image
               /\ CurrentVariables(variables')
  BY <1>1 DEF CleanInv, CleanAt, PastApply, PastSettings, PastImage, PastEnv
<1>3. \E l \in {"idle", "remove", "read settings"} : \E g, x : Moves(p, l, g, x)
  <2>1. CASE End(p)
    <3>1. Moves(p, "idle", <<>>, <<>>)
      BY <1>0, <2>1, ProcGoes
    <3> QED BY <3>1
  <2>2. CASE Goto(p, "remove")
    <3>1. Moves(p, "remove", proc[p].got, <<>>)
      BY <1>0, <2>2, ProcGoes
    <3> QED BY <3>1
  <2>3. CASE proc' = [proc EXCEPT ![p] = [@ EXCEPT !.pc = "read settings", !.round = 2]]
    <3>1. Moves(p, "read settings", proc[p].got, proc[p].read)
      BY <1>0, <2>3, ProcGoes
    <3> QED BY <3>1
  <2> QED BY <2>1, <2>2, <2>3 DEF Update
<1>8. PICK l \in {"idle", "remove", "read settings"} : \E g, x : Moves(p, l, g, x)
  BY <1>3
<1>4. PICK g, x : Moves(p, l, g, x)
  BY <1>8
<1>5. clean => CleanUp'
  BY <1>1, <1>2, <1>4, MoveClean DEF CleanInv, CleanUp, PastApply, PastSettings, PastImage, PastEnv
<1>6. CASE container' = container
  BY <1>1, <1>4, <1>5, <1>6, CleanStep
<1>7. CASE container # <<>> /\ container' = [container EXCEPT !.resources = AsContainerResources(settings.limits)]
  <2>1. CleanlyMade' => CleanlyMade
    BY <1>1, <1>4 DEF Moves, CleanlyMade, Procs
  <2>2. SUFFICES ASSUME CleanlyMade PROVE container' # <<>> /\ AsMade'
    BY <1>1, <1>5, <2>1 DEF CleanInv, CleanUp
  <2>3. AsMade /\ clean
    BY <2>2 DEF CleanInv, CleanlyMade
  <2> DEFINE y == AsContainerResources(settings.limits)
  <2>4. y.quota = row.build.cpu * 1000
    <3>1. CurrentSettings(settings)
      BY <1>1, <1>2, <2>3 DEF CurrentSettings
    <3> QED BY <1>0, <3>1, CurrentQuota, ZenonT(60)
  <2>5. DOMAIN container = {"image", "mounts", "ports", "env", "resources"}
    BY <1>7 DEF Base, ShapeInv
  <2>6. container' = [container EXCEPT !.resources = y]
    BY <1>7
  <2> HIDE DEF y
  <2>7. /\ container'.image = container.image /\ container'.ports = container.ports
        /\ container'.env = container.env /\ container'.mounts = container.mounts
        /\ container'.resources = y /\ DOMAIN container' = DOMAIN container
    BY <2>5, <2>6
  <2>8. container' # <<>>
    BY <2>5, <2>7, EmptyHasNoFields
  <2> QED BY <1>1, <2>3, <2>4, <2>7, <2>8, MadeStays, ZenonT(60)
<1> QED BY <1>6, <1>7 DEF Update

\* A container made from current settings, image and variables is what the row asks for.
LEMMA MadeAsAsked ==
  ASSUME row \in RowSet, CurrentSettings(settings), image = row.image, CurrentVariables(variables),
         settings.default # <<>>, UNCHANGED row, container' = NewContainer(settings, image, variables)
  PROVE  container' # <<>> /\ AsMade'
<1>1. PICK c \in Answers(row) : settings = Settings(c)
  BY DEF CurrentSettings
<1>2. PICK d \in Answers(row), o \in Orders : d.default # <<>> /\ variables = EnvironmentVariables(d, o)
  BY DEF CurrentVariables
<1>3. /\ settings.limits = c.build /\ settings.mappings = c.mappings
      /\ settings.default = c.default /\ settings.mounts = MountsOf(c)
  BY <1>1, SettingsAre
<1>4. /\ container' # <<>> /\ container'.image = row.image /\ container'.mounts = MountsOf(c)
      /\ container'.ports = DockerBindings(settings) /\ container'.resources = AsContainerResources(c.build)
  BY <1>3, ContainerFields
<1>5. container'.env = [variables EXCEPT !.ip = IF settings.default[1].port # 0 THEN Host(@) ELSE @]
  BY ContainerEnv
<1>6. /\ c.build \in BuildSet /\ c.build.cpu = row.build.cpu /\ c.mounts = row.mounts
      /\ c.mappings = {AllocationAt[a] : a \in row.allocs}
  BY AnswersAre DEF CfgOk
<1>7. PICK b \in Mine(row) : c.default[1] = AllocationAt[b]
  BY <1>3, AnswersAre
<1>8. PICK a \in Mine(row) : d.default[1] = AllocationAt[a]
  BY <1>2, AnswersAre
<1>9. container'.resources.quota = row.build.cpu * 1000
  BY <1>4, <1>6, ResourcesIn
<1>10. /\ container'.env.port = AllocationAt[a].port /\ container'.env.own = row.values
       /\ container'.env.ip = IF AllocationAt[b].port # 0 THEN Host(AllocationAt[a].ip) ELSE AllocationAt[a].ip
  <2> DEFINE y == IF settings.default[1].port # 0 THEN Host(variables.ip) ELSE variables.ip
  <2>1. /\ DOMAIN variables = {"startup", "memory", "ip", "port", "own"}
        /\ variables.ip = AllocationAt[a].ip /\ variables.port = AllocationAt[a].port
        /\ variables.own = d.env
    BY <1>2, <1>8, VariablesAre
  <2>2. d.env = row.values
    BY AnswersAre
  <2>3. container'.env = [variables EXCEPT !.ip = y]
    BY <1>5
  <2>4. y = IF AllocationAt[b].port # 0 THEN Host(AllocationAt[a].ip) ELSE AllocationAt[a].ip
    BY <1>3, <1>7, <2>1
  <2> HIDE DEF y
  <2>5. container'.env.ip = y /\ container'.env.port = variables.port /\ container'.env.own = variables.own
    BY <2>1, <2>3
  <2> QED BY <2>1, <2>2, <2>4, <2>5
<1>11. \A m \in row.mounts : m \in container'.mounts <=>
          MountAt[m].exists /\ MountAt[m].allowed /\ (MountAt[m].home => ~BlockBaseDirMount)
  <2>1. \A m \in row.mounts : m # "/home/container"
    BY MountsAssumption DEF RowSet
  <2> QED BY <1>4, <1>6, <2>1 DEF MountsOf
<1>12. container'.ports = {[ip |-> Host(AllocationAt[z].ip), port |-> AllocationAt[z].port] :
          z \in {w \in row.allocs : AllocationAt[w].port \in 1..MaxPort /\ ~(ISPN /\ AllocationAt[w].ip = "lo")}}
  BY <1>3, <1>4, <1>6 DEF DockerBindings
<1>13. AsTheRowSays'
  BY <1>4, <1>7, <1>8, <1>9, <1>10, <1>11, <1>12 DEF AsTheRowSays, Mine
<1>14. CurrentCommand(container'.env.startup)
  <2>1. DOMAIN variables = {"startup", "memory", "ip", "port", "own"}
    BY <1>2, VariablesAre
  <2> DEFINE y == IF settings.default[1].port # 0 THEN Host(variables.ip) ELSE variables.ip
  <2>2. container'.env = [variables EXCEPT !.ip = y]
    BY <1>5
  <2> HIDE DEF y
  <2>3. container'.env.startup = variables.startup
    BY <2>1, <2>2
  <2> QED BY <1>2, <2>3 DEF CurrentCommand
<1>15. AsMade'
  BY <1>13, <1>14 DEF AsMade, CurrentCommand
<1> QED BY <1>4, <1>15

\* The start removes the old container, makes the new one and runs it.
LEMMA StartClean ==
  ASSUME Base, CleanInv, Remove(Start) \/ Create(Start) \/ Created(Start)
  PROVE  CleanInv'
<1>0. ProcShape /\ row \in RowSet /\ Start \in Procs
  BY DEF Base, ShapeInv, TypeOK, Procs
<1>1. CASE Remove(Start)
  <2>1. UNCHANGED <<row, clean, up, cfg, settings, image, variables>> /\ up /\ proc[Start].pc = "remove"
    BY <1>1 DEF Remove, At
  <2>2. clean => CleanAt(Start)
    BY <1>0 DEF CleanInv
  <2>3. clean => /\ cfg' \in Answers(row) /\ CurrentSettings(settings') /\ image' = row.image
                 /\ CurrentVariables(variables')
    BY <2>1, <2>2 DEF CleanAt, PastApply, PastSettings, PastImage, PastEnv
  <2>4. \E l, g, x : l \in {"idle", "create"} /\ Moves(Start, l, g, x)
    <3>1. CASE End(Start)
      <4>1. Moves(Start, "idle", <<>>, <<>>)
        BY <1>0, <3>1, ProcGoes
      <4> QED BY <4>1, SMTT(60)
    <3>2. CASE Goto(Start, "create")
      <4>1. Moves(Start, "create", proc[Start].got, <<>>)
        BY <1>0, <3>2, ProcGoes
      <4> QED BY <4>1
    <3> QED BY <1>1, <3>1, <3>2 DEF Remove
  <2>5. PICK l, g, x : l \in {"idle", "create"} /\ Moves(Start, l, g, x)
    BY <2>4
  <2>6. clean => CleanUp'
    BY <1>0, <2>1, <2>3, <2>5, MoveClean DEF CleanInv, CleanUp, PastApply, PastSettings, PastImage, PastEnv
  <2>7. ~CleanlyMade'
    BY <2>5 DEF Moves, CleanlyMade
  <2> QED BY <2>1, <2>6, <2>7 DEF CleanInv, CleanUp
<1>2. CASE Create(Start)
  <2>1. CASE Down
    BY <2>1, DownClean
  <2>2. CASE ~Down
    <3>1. UNCHANGED <<row, clean, up, cfg, settings, image, variables>> /\ up /\ proc[Start].pc = "create"
      BY <1>2, <2>2 DEF Create, At
    <3>2. clean => CleanAt(Start)
      BY <1>0 DEF CleanInv
    <3>3. clean => /\ cfg' \in Answers(row) /\ CurrentSettings(settings') /\ image' = row.image
                   /\ CurrentVariables(variables')
      BY <3>1, <3>2 DEF CleanAt, PastApply, PastSettings, PastImage, PastEnv
    <3>4. \E l, g, x : l \in {"idle", "created"} /\ Moves(Start, l, g, x)
      <4>1. CASE End(Start)
        <5>1. Moves(Start, "idle", <<>>, <<>>)
          BY <1>0, <4>1, ProcGoes
        <5> QED BY <5>1
      <4>2. CASE Goto(Start, "created")
        <5>1. Moves(Start, "created", proc[Start].got, <<>>)
          BY <1>0, <4>2, ProcGoes
        <5> QED BY <5>1
      <4> QED BY <1>2, <2>2, <4>1, <4>2 DEF Create
    <3>5. PICK l, g, x : l \in {"idle", "created"} /\ Moves(Start, l, g, x)
      BY <3>4
    <3>6. clean => CleanUp'
      BY <1>0, <3>1, <3>3, <3>5, MoveClean DEF CleanInv, CleanUp, PastApply, PastSettings, PastImage, PastEnv
    <3>7. CASE End(Start) /\ UNCHANGED container
      <4>1. Moves(Start, "idle", <<>>, <<>>)
        BY <1>0, <3>7, ProcGoes
      <4>2. ~CleanlyMade'
        BY <4>1 DEF Moves, CleanlyMade
      <4> QED BY <3>1, <3>6, <4>2 DEF CleanInv, CleanUp
    <3>8. CASE settings.default # <<>> /\ container' = NewContainer(settings, image, variables)
      <4>1. clean => container' # <<>> /\ AsMade'
        BY <1>0, <3>1, <3>3, <3>8, MadeAsAsked
      <4>2. CleanlyMade' => clean
        BY <3>1 DEF CleanlyMade
      <4> QED BY <3>1, <3>6, <4>1, <4>2 DEF CleanInv, CleanUp
    <3> QED BY <1>2, <2>2, <3>7, <3>8 DEF Create
  <2> QED BY <2>1, <2>2
<1>3. CASE Created(Start)
  BY <1>3 DEF Created, CleanInv, CleanlyMade
<1> QED BY <1>1, <1>2, <1>3

\* Nothing of it changes.
LEMMA SameClean ==
  ASSUME CleanInv, UNCHANGED <<row, up, cfg, settings, image, variables, container, proc, clean>>
  PROVE  CleanInv'
<1>1. ASSUME NEW p \in Procs, CleanAt(p) PROVE CleanAt(p)'
  <2>1. CurrentSettings(proc[p].read)' = CurrentSettings(proc[p].read)
    BY DEF CurrentSettings
  <2>2. CurrentSettings(settings)' = CurrentSettings(settings)
    BY DEF CurrentSettings
  <2>3. CurrentVariables(proc[p].read)' = CurrentVariables(proc[p].read)
    BY DEF CurrentVariables
  <2>4. CurrentVariables(variables)' = CurrentVariables(variables)
    BY DEF CurrentVariables
  <2> QED BY <1>1, <2>1, <2>2, <2>3, <2>4 DEF CleanAt
<1>2. AsMade => AsMade'
  BY DEF AsMade, AsTheRowSays, CurrentCommand
<1>3. CleanlyMade' => CleanlyMade
  BY DEF CleanlyMade
<1> QED BY <1>1, <1>2, <1>3 DEF CleanInv

\* A boot follows a crash, and an installation leaves the server's container alone.
LEMMA BootClean ==
  ASSUME CleanInv, Boot \/ Install
  PROVE  CleanInv'
<1>1. CASE Boot
  <2>1. ~clean /\ clean' = clean
    BY <1>1 DEF Boot, CleanInv
  <2> QED BY <2>1 DEF CleanInv, CleanlyMade
<1>2. CASE Install /\ Down
  BY <1>2, DownClean
<1>3. CASE UNCHANGED <<row, edits, up, cfg, limit, settings, image, variables, container, proc, clean>>
  BY <1>3, SameClean
<1> QED BY <1>1, <1>2, <1>3 DEF Install

\* The command of a row with shallow values.
LEMMA CommandResolved ==
  ASSUME \A r \in Rows : Shallow(r.values), row \in RowSet, NEW s, CurrentCommand(s)
  PROVE  Resolved(s, Names \union {"SERVER_PORT", "SERVER_MEMORY", "SERVER_IP"})
<1>1. PICK c \in Answers(row), order \in Orders : s = EnvironmentVariables(c, order).startup
  BY DEF CurrentCommand
<1>2. PICK o \in Orders, d \in Defaults(row) : c = Config(row, o, d)
  BY DEF Answers
<1> DEFINE env == row.values
           cmd == row.startup
           memory == c.build.memory
           default == c.default[1]
<1>3. Shallow(env)
  BY DEF RowSet
<1>4. \A i \in DOMAIN cmd : Flagged(cmd[i])
  BY StartupsAssumption DEF RowSet, Flagged
<1>5. c.invocation = Substitute(cmd, env, o, TRUE) /\ c.env = env
  BY <1>2 DEF Config
<1>6. s = ParseInvocation(Substitute(cmd, env, o, TRUE), env, order, memory, default)
  BY <1>1, <1>5 DEF EnvironmentVariables
<1> HIDE DEF env, cmd, memory, default
<1> QED BY <1>3, <1>4, <1>6, InvocationResolved

-----------------------------------------------------------------------------
(* The theorems.                                                            *)

LEMMA InitHolds ==
  ASSUME Init
  PROVE  IInv
<1>1. row \in RowSet /\ edits \in 0..MaxEdits
  BY RowsAssumption, BoundAssumption DEF Init
<1>2. \A p \in Procs : proc[p] = NoProc
  BY DEF Init
<1>3. DOMAIN NoProc = {"pc", "round", "got", "read"} /\ NoProc.pc = "idle"
  BY DEF NoProc
<1>4. ProcShape
  BY <1>2, <1>3 DEF Init, ProcShape
<1>5. TypeOK
  BY <1>1, <1>2, <1>3 DEF Init, TypeOK
<1>6. ShapeInv
  BY <1>4 DEF Init, ShapeInv
<1>7. LimitInv
  BY <1>2, <1>3 DEF Init, LimitInv
<1>8. CleanInv
  BY DEF Init, CleanInv, CleanlyMade
<1> QED BY <1>5, <1>6, <1>7, <1>8 DEF IInv

LEMMA StepHolds ==
  ASSUME IInv, [Next]_vars
  PROVE  IInv'
<1>1. CASE Next
  <2>1. Base /\ CleanInv
    BY DEF IInv, Base
  <2>2. Base'
    BY <1>1, <2>1, NextBase
  <2>3. CleanInv'
    <3>1. CASE Edits \/ (up /\ Down)
      BY <3>1, DownClean
    <3>2. CASE Boot \/ Install
      BY <2>1, <3>2, BootClean
    <3>3. ASSUME NEW p \in Procs, Begin(p) \/ Sync(p) PROVE CleanInv'
      BY <2>1, <3>3, SyncClean, UpdateClean
    <3>4. CASE Remove(Start) \/ Create(Start) \/ Created(Start)
      BY <2>1, <3>4, StartClean
    <3> QED BY <1>1, <3>1, <3>2, <3>3, <3>4 DEF Next
  <2> QED BY <2>2, <2>3 DEF IInv, Base
<1>2. CASE UNCHANGED vars
  <2>1. TypeOK'
    BY <1>2 DEF vars, IInv, TypeOK
  <2>2. ShapeInv'
    BY <1>2 DEF vars, IInv, ShapeInv, ProcShape
  <2>3. LimitInv'
    BY <1>2 DEF vars, IInv, LimitInv
  <2>4. CleanInv'
    BY <1>2, SameClean DEF vars, IInv
  <2> QED BY <2>1, <2>2, <2>3, <2>4 DEF IInv
<1> QED BY <1>1, <1>2

\* Every reachable state has its type: among others the daemon has a configuration and
\* variables exactly while it serves, and a sync is under way only then (Server.Sync,
\* NewManager).
THEOREM ProvisionTypeOK == Spec => []TypeOK
<1>1. IInv => TypeOK
  BY DEF IInv
<1> QED BY <1>1, InitHolds, StepHolds, PTL DEF Spec

\* Docker accepts the limits of every container, also after an update in place, and of
\* every installer, whatever limits the rows set and whatever overheads of at least 100
\* percent the daemon is configured with (Limits, resourceLimits).
THEOREM LimitsAccepted == Spec => []LimitsOrdered
<1>1. IInv => LimitsOrdered
  BY DEF IInv, LimitInv, LimitsOrdered, Ordered
<1> QED BY <1>1, InitHolds, StepHolds, PTL DEF Spec

\* A container made by a start that fetched the current row, while no sync with an older
\* one was under way, has the image, ports, address, mounts, variables and processor
\* share of that row, whatever requests to sync do meanwhile (buildServerConfig,
\* SyncWithEnvironment, Environment.Create).
THEOREM MadeAsTheRowSays == Spec => [](CleanlyMade => AsTheRowSays)
<1>1. IInv => (CleanlyMade => AsTheRowSays)
  BY DEF IInv, CleanInv, AsMade
<1> QED BY <1>1, InitHolds, StepHolds, PTL DEF Spec

\* The same, and its command has no open placeholder, if values refer at most to
\* variables whose own values refer to none: the Panel and the daemon each replace the
\* variables once, in whatever order Go ranges over them (parseInvocation).
THEOREM FreshContainer ==
  ASSUME \A r \in Rows : Shallow(r.values)
  PROVE  Spec => []Fresh
<1>1. IInv => Fresh
  <2> SUFFICES ASSUME IInv, CleanlyMade
               PROVE  /\ AsTheRowSays
                      /\ Resolved(container.env.startup, Names \union {"SERVER_PORT", "SERVER_MEMORY", "SERVER_IP"})
    BY DEF Fresh
  <2>1. row \in RowSet /\ AsTheRowSays /\ CurrentCommand(container.env.startup)
    BY DEF IInv, TypeOK, CleanInv, AsMade
  <2> QED BY <2>1, CommandResolved
<1> QED BY <1>1, InitHolds, StepHolds, PTL DEF Spec
=============================================================================
