-------------------------- MODULE MigrationsProofs --------------------------
(***************************************************************************)
(* Theorems about Migrations, for any number of processes that run one     *)
(* command at a time.  The strengthening says how far each running command *)
(* has come: an "up" has the migrations before its current one recorded    *)
(* (Climbing), a "down" has those above its current one gone (Falling).    *)
(***************************************************************************)
EXTENDS Migrations, SequenceTheorems, TLAPS

LEMMA RegistryFacts ==
  /\ Registry \in Seq(Names) /\ Len(Registry) = 3
  /\ Names = {Registry[1], Registry[2], Registry[3]}
  /\ Registry[1] # Registry[2] /\ Registry[2] # Registry[3] /\ Registry[1] # Registry[3]
<1> DEFINE N == {"01_create_auth_schema", "02_seed_roles", "03_create_documents"}
<1>1. Registry \in Seq(N) /\ Len(Registry) = 3
  BY DEF Registry
<1>2. Names = {Registry[i] : i \in 1 .. 3}
  BY <1>1, RangeEquality DEF Names
<1>3. Registry \in Seq(Names)
  BY <1>1, SeqOfRange DEF Names
<1>4. Registry[1] # Registry[2] /\ Registry[2] # Registry[3] /\ Registry[1] # Registry[3]
  BY DEF Registry
<1> QED
  BY <1>1, <1>2, <1>3, <1>4

LEMMA Places ==
  ASSUME NEW i \in 1 .. 3, NEW j \in 1 .. 3
  PROVE  Registry[i] \in Names /\ (Registry[i] = Registry[j] <=> i = j)
BY RegistryFacts

(* The changelog after the first n migrations of the registry.             *)
FirstOf(n) == SubSeq(Registry, 1, n)

LEMMA FirstFacts ==
  ASSUME NEW n \in 0 .. 3
  PROVE  /\ FirstOf(n) \in Seq(Names)
         /\ Len(FirstOf(n)) = n
         /\ \A i \in 1 .. n : FirstOf(n)[i] = Registry[i]
         /\ Range(FirstOf(n)) = {Registry[i] : i \in 1 .. n}
         /\ \A k \in 1 .. 3 : Registry[k] \in Range(FirstOf(n)) <=> k <= n
<1>1. /\ FirstOf(n) \in Seq(Names)
      /\ Len(FirstOf(n)) = n
      /\ \A i \in 1 .. n : FirstOf(n)[i] = Registry[i]
  <2>1. \A i \in 1 .. n : Registry[i] \in Names
    BY Places
  <2> QED
    BY <2>1, SubSeqProperties DEF FirstOf
<1>2. Range(FirstOf(n)) = {FirstOf(n)[i] : i \in 1 .. n}
  BY <1>1, RangeEquality
<1>3. Range(FirstOf(n)) = {Registry[i] : i \in 1 .. n}
  BY <1>1, <1>2
<1>4. \A k \in 1 .. 3 : Registry[k] \in Range(FirstOf(n)) <=> k <= n
  BY <1>3, Places
<1> QED
  BY <1>1, <1>3, <1>4

LEMMA OneMore ==
  ASSUME NEW n \in 0 .. 2
  PROVE  Append(FirstOf(n), Registry[n + 1]) = FirstOf(n + 1)
<1>1. /\ FirstOf(n) \in Seq(Names) /\ Len(FirstOf(n)) = n
      /\ FirstOf(n + 1) \in Seq(Names) /\ Len(FirstOf(n + 1)) = n + 1
      /\ Registry[n + 1] \in Names
  <2>1. n \in 0 .. 3 /\ n + 1 \in 0 .. 3 /\ n + 1 \in 1 .. 3
    OBVIOUS
  <2>2. FirstOf(n) \in Seq(Names) /\ Len(FirstOf(n)) = n
    BY <2>1, FirstFacts
  <2>3. FirstOf(n + 1) \in Seq(Names) /\ Len(FirstOf(n + 1)) = n + 1
    BY <2>1, FirstFacts
  <2>4. Registry[n + 1] \in Names
    BY <2>1, Places
  <2> QED
    BY <2>2, <2>3, <2>4
<1> DEFINE s == Append(FirstOf(n), Registry[n + 1])
<1>2. /\ s \in Seq(Names) /\ Len(s) = n + 1
      /\ \A i \in 1 .. n : s[i] = FirstOf(n)[i]
      /\ s[n + 1] = Registry[n + 1]
  BY <1>1, AppendProperties
<1> HIDE DEF s
<1>3. \A i \in 1 .. n + 1 : s[i] = FirstOf(n + 1)[i]
  <2>1. \A i \in 1 .. n : s[i] = Registry[i]
    BY <1>2, FirstFacts
  <2>2. \A i \in 1 .. n + 1 : FirstOf(n + 1)[i] = Registry[i]
    BY FirstFacts
  <2> QED
    BY <1>2, <2>1, <2>2
<1>4. s = FirstOf(n + 1)
  BY <1>1, <1>2, <1>3, SeqEqual
<1> QED
  BY <1>4 DEF s

LEMMA OneLess ==
  ASSUME NEW n \in 1 .. 3
  PROVE  RemoveFirst(FirstOf(n), Registry[n]) = FirstOf(n - 1)
<1> DEFINE s == FirstOf(n)
<1>0. n \in 0 .. 3
  OBVIOUS
<1>1. s \in Seq(Names) /\ Len(s) = n /\ \A i \in 1 .. n : s[i] = Registry[i]
  BY <1>0, FirstFacts
<1>2. \A i \in 1 .. n : s[i] = Registry[n] <=> i = n
  BY <1>1, Places
<1>3. {i \in 1 .. Len(s) : s[i] = Registry[n]} = {n}
  BY <1>1, <1>2
<1>4. Min({i \in 1 .. Len(s) : s[i] = Registry[n]}) = n
  <2>1. Min({n}) = n
    BY DEF Min
  <2> QED
    BY <1>3, <2>1
<1>5. RemoveFirst(s, Registry[n]) = RemoveAt(s, n)
  <2>1. /\ {i \in 1 .. Len(s) : s[i] = Registry[n]} # {}
        /\ \E i \in 1 .. Len(s) : s[i] = Registry[n]
    BY <1>1, <1>3
  <2> HIDE DEF s
  <2> QED
    BY <1>4, <2>1 DEF RemoveFirst, SelectInSeq
<1>6. RemoveAt(s, n) = SubSeq(s, 1, n - 1) \o SubSeq(s, n + 1, n)
  BY <1>1 DEF RemoveAt
<1>7. SubSeq(s, n + 1, n) = <<>>
  BY SubSeqEmpty
<1>8. SubSeq(s, 1, n - 1) = FirstOf(n - 1)
  <2>1. \A i \in 1 .. n - 1 : s[i] \in Names
    BY <1>1, Places
  <2>2. /\ SubSeq(s, 1, n - 1) \in Seq(Names)
        /\ Len(SubSeq(s, 1, n - 1)) = n - 1
        /\ \A i \in 1 .. n - 1 : SubSeq(s, 1, n - 1)[i] = s[i]
    <3> HIDE DEF s
    <3>1. 1 \in Int /\ n - 1 \in Int
      OBVIOUS
    <3>2. /\ SubSeq(s, 1, n - 1) \in Seq(Names)
          /\ Len(SubSeq(s, 1, n - 1)) = IF 1 <= n - 1 THEN (n - 1) - 1 + 1 ELSE 0
          /\ \A i \in 1 .. (n - 1) - 1 + 1 : SubSeq(s, 1, n - 1)[i] = s[1 + i - 1]
      BY <2>1, <3>1, SubSeqProperties
    <3> QED
      BY <3>2
  <2>3. /\ FirstOf(n - 1) \in Seq(Names) /\ Len(FirstOf(n - 1)) = n - 1
        /\ \A i \in 1 .. n - 1 : FirstOf(n - 1)[i] = Registry[i]
    BY FirstFacts
  <2>4. \A i \in 1 .. n - 1 : SubSeq(s, 1, n - 1)[i] = FirstOf(n - 1)[i]
    BY <1>1, <2>2, <2>3
  <2> QED
    BY <2>2, <2>3, <2>4, SeqEqual
<1>9. FirstOf(n - 1) \o <<>> = FirstOf(n - 1)
  BY FirstFacts, ConcatEmptySeq
<1> QED
  BY <1>5, <1>6, <1>7, <1>8, <1>9

LEMMA NoneLess ==
  ASSUME NEW n \in 0 .. 3, NEW k \in 1 .. 3, n < k
  PROVE  RemoveFirst(FirstOf(n), Registry[k]) = FirstOf(n)
<1>1. ~ \E i \in 1 .. Len(FirstOf(n)) : FirstOf(n)[i] = Registry[k]
  BY FirstFacts, Places
<1> QED
  BY <1>1 DEF RemoveFirst

-----------------------------------------------------------------------------
(* The changelog is the beginning of the registry.                         *)
Height == Len(changelog) \in 0 .. 3 /\ changelog = FirstOf(Len(changelog))

OneCommand == \A q, r \in Running : command[q] = command[r]

(* An "up" has come to a migration above which nothing else is missing.    *)
Climbing(r) ==
  pc[r] \in {"check", "apply"} =>
    command[r] = "up" /\ names[r] = Registry /\ at[r] <= Len(changelog) + 1

(* A "down" has listed the registry from some place downwards, and no more *)
(* is recorded than what lies below the migrations it has reverted.        *)
Falling(r) ==
  /\ pc[r] = "list" => command[r] = "down" /\ at[r] = 1
  /\ pc[r] = "revert" =>
       /\ command[r] = "down"
       /\ \E top \in 1 .. 3 :
            /\ Len(names[r]) \in 1 .. top
            /\ \A i \in 1 .. Len(names[r]) : names[r][i] = Registry[top + 1 - i]
            /\ at[r] \in 1 .. Len(names[r])
            /\ Len(changelog) <= top + 1 - at[r]

Progress == \A r \in Runners : Climbing(r) /\ Falling(r)

IInv == TypeOK /\ Height /\ ChangelogMatchesSchema /\ OneCommand /\ Progress

LEMMA RecordedFacts ==
  ASSUME Height
  PROVE  /\ Recorded = {Registry[i] : i \in 1 .. Len(changelog)}
         /\ \A k \in 1 .. 3 : Registry[k] \in Recorded <=> k <= Len(changelog)
<1>1. Len(changelog) \in 0 .. 3 /\ Recorded = Range(FirstOf(Len(changelog)))
  BY DEF Height, Recorded
<1> QED
  BY <1>1, FirstFacts

LEMMA FirstsInjective ==
  ASSUME NEW n \in 0 .. 3
  PROVE  FirstOf(n) \in Seq(Names) /\ IsInjective(FirstOf(n))
<1>1. /\ FirstOf(n) \in Seq(Names) /\ Len(FirstOf(n)) = n
      /\ \A i \in 1 .. n : FirstOf(n)[i] = Registry[i]
  BY FirstFacts
<1>2. DOMAIN FirstOf(n) = 1 .. n
  BY <1>1, LenProperties
<1>3. ASSUME NEW i \in 1 .. n, NEW j \in 1 .. n, FirstOf(n)[i] = FirstOf(n)[j]
      PROVE  i = j
  <2>1. i \in 1 .. 3 /\ j \in 1 .. 3
    OBVIOUS
  <2>2. Registry[i] = Registry[j]
    BY <1>1, <1>3
  <2> QED
    BY <2>1, <2>2, Places
<1> QED
  BY <1>1, <1>2, <1>3 DEF IsInjective

LEMMA Initially ==
  ASSUME Init
  PROVE  IInv
<1>1. changelog = <<>> /\ Len(changelog) = 0
  BY DEF Init
<1>2. Height
  <2>1. FirstOf(0) = <<>>
    BY SubSeqEmpty DEF FirstOf
  <2> QED
    BY <1>1, <2>1 DEF Height
<1>3. Recorded = {}
  BY <1>1, <1>2, RecordedFacts
<1>4. TypeOK
  <2>1. <<>> \in Seq(Names)
    OBVIOUS
  <2>2. changelog \in Seq(Names) /\ IsInjective(changelog)
    BY <1>2, FirstsInjective DEF Height
  <2> QED
    BY <2>1, <2>2, RegistryFacts DEF Init, TypeOK
<1>5. ChangelogMatchesSchema
  BY <1>3 DEF Init, ChangelogMatchesSchema
<1>6. OneCommand /\ Progress
  BY DEF Init, OneCommand, Running, Progress, Climbing, Falling
<1> QED
  BY <1>2, <1>4, <1>5, <1>6 DEF IInv

(* A step of a command that is under way.                                  *)
LEMMA Moves ==
  ASSUME OneCommand, TypeOK, NEW r \in Running, NEW how,
         pc' = [pc EXCEPT ![r] = how], command' = command
  PROVE  OneCommand' /\ r \in Runners
<1>1. r \in Runners
  BY DEF Running
<1>2. Running' \subseteq Running
  BY <1>1 DEF Running, TypeOK
<1> QED
  BY <1>1, <1>2 DEF OneCommand

LEMMA StartKeeps ==
  ASSUME IInv, ~MayMix, NEW r \in Runners,
         MigrateUp(r) \/ MigrateDown(r)
  PROVE  IInv'
<1>1. PICK cmd, step, over :
        /\ \/ cmd = "up" /\ step = "check" /\ over = Registry
           \/ cmd = "down" /\ step = "list" /\ over = <<>>
        /\ Start(r, cmd, step, over)
  BY DEF MigrateUp, MigrateDown
<1>2. /\ changelog' = changelog /\ schema' = schema
      /\ command' = [command EXCEPT ![r] = cmd]
      /\ names' = [names EXCEPT ![r] = over]
      /\ at' = [at EXCEPT ![r] = 1]
      /\ pc' = [pc EXCEPT ![r] = step]
      /\ \A q \in Running : command[q] = cmd
  BY <1>1 DEF Start
<1>3. over \in Seq(Names)
  <2>1. <<>> \in Seq(Names) /\ Registry \in Seq(Names)
    BY RegistryFacts
  <2> QED
    BY <1>1, <2>1
<1>4. TypeOK'
  <2>1. 1 \in 1 .. Len(Registry)
    BY RegistryFacts
  <2> QED
    BY <1>1, <1>2, <1>3, <2>1 DEF IInv, TypeOK
<1>5. Height' /\ ChangelogMatchesSchema'
  BY <1>2 DEF IInv, Height, FirstOf, ChangelogMatchesSchema, Recorded
<1>6. OneCommand'
  BY <1>2 DEF IInv, OneCommand, Running, TypeOK
<1>7. ASSUME NEW q \in Runners PROVE Climbing(q)' /\ Falling(q)'
  <2>1. CASE q = r
    <3>1. /\ pc'[q] = step /\ command'[q] = cmd /\ names'[q] = over /\ at'[q] = 1
          /\ Len(changelog') \in Nat
      BY <1>2, <2>1 DEF IInv, TypeOK, Height
    <3> QED
      BY <1>1, <3>1 DEF Climbing, Falling
  <2>2. CASE q # r
    <3>1. /\ pc'[q] = pc[q] /\ command'[q] = command[q]
          /\ names'[q] = names[q] /\ at'[q] = at[q]
      BY <1>2, <2>2 DEF IInv, TypeOK
    <3> QED
      BY <1>2, <3>1 DEF IInv, Progress, Climbing, Falling
  <2> QED
    BY <2>1, <2>2
<1> QED
  BY <1>4, <1>5, <1>6, <1>7 DEF IInv, Progress

(* A command that is under way takes a step: what the other commands need  *)
(* to know of the changelog still holds.                                   *)
LEMMA OthersKeep ==
  ASSUME IInv, Height', NEW r \in Runners,
         \A q \in Runners \ {r} : /\ pc'[q] = pc[q] /\ command'[q] = command[q]
                                  /\ names'[q] = names[q] /\ at'[q] = at[q],
         \/ Len(changelog') = Len(changelog)
         \/ pc[r] = "apply" /\ Len(changelog') >= Len(changelog)
         \/ pc[r] = "revert" /\ Len(changelog') <= Len(changelog)
  PROVE  \A q \in Runners \ {r} : Climbing(q)' /\ Falling(q)'
<1> SUFFICES ASSUME NEW q \in Runners \ {r}
             PROVE  Climbing(q)' /\ Falling(q)'
  OBVIOUS
<1>1. /\ pc'[q] = pc[q] /\ command'[q] = command[q]
      /\ names'[q] = names[q] /\ at'[q] = at[q]
      /\ Climbing(q) /\ Falling(q) /\ Climbing(r) /\ Falling(r)
      /\ Len(changelog) \in Nat /\ Len(changelog') \in Nat
      /\ at[q] \in Nat
      /\ r \in Running /\ q \in Running => command[q] = command[r]
  BY RegistryFacts DEF IInv, Progress, Height, TypeOK, OneCommand
<1>2. pc[r] = "apply" => pc[q] # "revert"
  BY <1>1 DEF Climbing, Falling, Running
<1>3. pc[r] = "revert" => pc[q] \notin {"check", "apply"}
  BY <1>1 DEF Climbing, Falling, Running
<1>4. Climbing(q)'
  BY <1>1, <1>3 DEF Climbing
<1>5. Falling(q)'
  <2>1. pc'[q] = "list" => command'[q] = "down" /\ at'[q] = 1
    BY <1>1 DEF Falling
  <2>2. ASSUME pc'[q] = "revert"
        PROVE  /\ command'[q] = "down"
               /\ \E top \in 1 .. 3 :
                    /\ Len(names'[q]) \in 1 .. top
                    /\ \A i \in 1 .. Len(names'[q]) : names'[q][i] = Registry[top + 1 - i]
                    /\ at'[q] \in 1 .. Len(names'[q])
                    /\ Len(changelog') <= top + 1 - at'[q]
    <3>1. PICK top \in 1 .. 3 :
            /\ Len(names[q]) \in 1 .. top
            /\ \A i \in 1 .. Len(names[q]) : names[q][i] = Registry[top + 1 - i]
            /\ at[q] \in 1 .. Len(names[q])
            /\ Len(changelog) <= top + 1 - at[q]
      BY <1>1, <2>2 DEF Falling
    <3>2. Len(changelog') <= Len(changelog)
      BY <1>1, <1>2, <2>2
    <3>3. Len(changelog') <= top + 1 - at[q]
      BY <1>1, <3>1, <3>2
    <3>4. command'[q] = "down"
      BY <1>1, <2>2 DEF Falling
    <3> QED
      BY <1>1, <3>1, <3>3, <3>4
  <2> QED
    BY <2>1, <2>2 DEF Falling
<1> QED
  BY <1>4, <1>5

(* Where an "up" is.                                                       *)
LEMMA UpFacts ==
  ASSUME IInv, NEW r \in Runners, pc[r] \in {"check", "apply"}
  PROVE  /\ at[r] \in 1 .. 3 /\ Current(r) = Registry[at[r]]
         /\ Len(names[r]) = 3 /\ command[r] = "up" /\ r \in Running
         /\ at[r] <= Len(changelog) + 1
         /\ Current(r) \in Recorded <=> at[r] <= Len(changelog)
<1>1. Climbing(r) /\ at[r] \in 1 .. 3
  BY RegistryFacts DEF IInv, Progress, TypeOK
<1>2. names[r] = Registry /\ command[r] = "up" /\ at[r] <= Len(changelog) + 1
  BY <1>1 DEF Climbing
<1>3. Current(r) \in Recorded <=> at[r] <= Len(changelog)
  BY <1>1, <1>2, RecordedFacts DEF IInv, Current
<1> QED
  BY <1>1, <1>2, <1>3, RegistryFacts DEF Current, Running

LEMMA Advances ==
  ASSUME TypeOK, NEW r \in Runners,
         \/ at' = at
         \/ at[r] < Len(names[r]) /\ Len(names[r]) <= 3 /\ at' = [at EXCEPT ![r] = at[r] + 1]
  PROVE  at' \in [Runners -> 1 .. Len(Registry)]
<1>1. at \in [Runners -> 1 .. 3] /\ Len(Registry) = 3 /\ Len(names[r]) \in Nat
  BY RegistryFacts DEF TypeOK
<1>2. ASSUME at[r] < Len(names[r]), Len(names[r]) <= 3
      PROVE  at[r] + 1 \in 1 .. 3
  BY <1>1, <1>2
<1>3. at' \in [Runners -> 1 .. 3]
  BY <1>1, <1>2
<1> QED
  BY <1>1, <1>3

LEMMA CheckKeeps ==
  ASSUME IInv, NEW r \in Runners, Check(r)
  PROVE  IInv'
<1>1. /\ pc[r] = "check"
      /\ changelog' = changelog /\ schema' = schema
      /\ command' = command /\ names' = names
  BY DEF Check
<1>2. \/ pc' = [pc EXCEPT ![r] = "idle"] /\ at' = at
      \/ /\ Current(r) \in Recorded /\ at[r] < Len(names[r])
         /\ at' = [at EXCEPT ![r] = at[r] + 1] /\ pc' = [pc EXCEPT ![r] = "check"]
      \/ pc' = [pc EXCEPT ![r] = "done"] /\ at' = at
      \/ pc' = [pc EXCEPT ![r] = "apply"] /\ at' = at
  BY DEF Check, Return, Advance
<1>3. /\ at[r] \in 1 .. 3 /\ Len(names[r]) = 3 /\ names[r] = Registry
      /\ command[r] = "up" /\ r \in Running
      /\ at[r] <= Len(changelog) + 1 /\ Len(changelog) \in 0 .. 3
      /\ Current(r) \in Recorded => at[r] <= Len(changelog)
  BY <1>1, UpFacts DEF IInv, Progress, Climbing, Height
<1>4. TypeOK'
  <2>1. at' \in [Runners -> 1 .. Len(Registry)]
    <3>1. \/ at' = at
          \/ at[r] < Len(names[r]) /\ Len(names[r]) <= 3 /\ at' = [at EXCEPT ![r] = at[r] + 1]
      BY <1>2, <1>3
    <3> QED
      BY <3>1, Advances DEF IInv
  <2>2. pc' \in [Runners -> {"idle", "check", "apply", "list", "revert", "done"}]
    BY <1>2 DEF IInv, TypeOK
  <2> QED
    BY <1>1, <2>1, <2>2 DEF IInv, TypeOK
<1>5. Height' /\ ChangelogMatchesSchema'
  BY <1>1 DEF IInv, Height, FirstOf, ChangelogMatchesSchema, Recorded
<1>6. OneCommand'
  BY <1>1, <1>2, <1>3, Moves DEF IInv
<1>7. \A q \in Runners \ {r} : Climbing(q)' /\ Falling(q)'
  <2>1. \A q \in Runners \ {r} : /\ pc'[q] = pc[q] /\ command'[q] = command[q]
                                 /\ names'[q] = names[q] /\ at'[q] = at[q]
    BY <1>1, <1>2 DEF IInv, TypeOK
  <2> QED
    BY <1>1, <1>5, <2>1, OthersKeep
<1>8. Climbing(r)' /\ Falling(r)'
  <2>1. /\ pc'[r] \in {"idle", "check", "done", "apply"}
        /\ at'[r] = at[r] \/ (at'[r] = at[r] + 1 /\ Current(r) \in Recorded)
    BY <1>2 DEF IInv, TypeOK
  <2> QED
    BY <1>1, <1>3, <2>1 DEF Climbing, Falling
<1> QED
  BY <1>4, <1>5, <1>6, <1>7, <1>8 DEF IInv, Progress

LEMMA ApplyKeeps ==
  ASSUME IInv, NEW r \in Runners, Apply(r)
  PROVE  IInv'
<1> DEFINE n == Len(changelog)
<1>1. pc[r] = "apply" /\ command' = command /\ names' = names
  BY DEF Apply
<1>2. \/ /\ changelog' = changelog /\ schema' = schema
         /\ pc' = [pc EXCEPT ![r] = "idle"] /\ at' = at
      \/ /\ Current(r) \notin Recorded
         /\ changelog' = Append(changelog, Current(r))
         /\ schema' = schema \cup {Current(r)}
         /\ \/ pc' = [pc EXCEPT ![r] = "idle"] /\ at' = at
            \/ pc' = [pc EXCEPT ![r] = "done"] /\ at' = at
            \/ /\ at[r] < Len(names[r]) /\ at' = [at EXCEPT ![r] = at[r] + 1]
               /\ pc' = [pc EXCEPT ![r] = "check"]
  BY DEF Apply, Return, Advance, Uppable
<1>3. /\ at[r] \in 1 .. 3 /\ Len(names[r]) = 3 /\ names[r] = Registry
      /\ Current(r) = Registry[at[r]]
      /\ command[r] = "up" /\ r \in Running
      /\ at[r] <= n + 1 /\ n \in 0 .. 3 /\ changelog = FirstOf(n)
      /\ Current(r) \in Recorded <=> at[r] <= n
  BY <1>1, UpFacts DEF IInv, Progress, Climbing, Height
<1> HIDE DEF n
<1>4. Current(r) \notin Recorded => at[r] = n + 1 /\ n \in 0 .. 2
  BY <1>3
<1>5. \/ changelog' = changelog /\ schema' = schema /\ at' = at /\ pc' = [pc EXCEPT ![r] = "idle"]
      \/ /\ changelog' = FirstOf(n + 1) /\ n \in 0 .. 2 /\ at[r] = n + 1
         /\ schema' = schema \cup {Registry[n + 1]}
  <2>1. Current(r) \notin Recorded => Append(changelog, Current(r)) = FirstOf(n + 1)
    BY <1>3, <1>4, OneMore
  <2> QED
    BY <1>2, <1>3, <1>4, <2>1
<1>6. /\ Height'
      /\ \/ Len(changelog') = n /\ pc' = [pc EXCEPT ![r] = "idle"] /\ at' = at
         \/ Len(changelog') = n + 1
  <2>1. CASE changelog' = changelog /\ at' = at /\ pc' = [pc EXCEPT ![r] = "idle"]
    BY <2>1 DEF IInv, Height, FirstOf, n
  <2>2. CASE changelog' = FirstOf(n + 1) /\ n \in 0 .. 2
    <3>1. n + 1 \in 0 .. 3
      BY <2>2
    <3>2. Len(FirstOf(n + 1)) = n + 1
      BY <3>1, FirstFacts
    <3>3. Len(changelog') = n + 1
      BY <2>2, <3>2
    <3>4. changelog' = FirstOf(Len(changelog'))
      BY <2>2, <3>3
    <3>5. Height'
      BY <3>1, <3>3, <3>4 DEF Height, FirstOf
    <3> QED
      BY <3>3, <3>5
  <2> QED
    BY <1>5, <2>1, <2>2
<1>7. ChangelogMatchesSchema'
  <2>1. CASE changelog' = changelog /\ schema' = schema
    BY <2>1 DEF IInv, ChangelogMatchesSchema, Recorded
  <2>2. CASE /\ changelog' = FirstOf(n + 1) /\ n \in 0 .. 2
             /\ schema' = schema \cup {Registry[n + 1]}
    <3>1. n + 1 \in 0 .. 3 /\ n \in 0 .. 3
      BY <2>2
    <3>2. Recorded = {Registry[i] : i \in 1 .. n}
      BY <1>3, <3>1, FirstFacts DEF Recorded
    <3>3. Range(FirstOf(n + 1)) = {Registry[i] : i \in 1 .. n + 1}
      BY <3>1, FirstFacts
    <3>4. Recorded' = {Registry[i] : i \in 1 .. n + 1}
      BY <2>2, <3>3 DEF Recorded
    <3>5. \A i \in 1 .. n + 1 : i \in 1 .. n \/ i = n + 1
      BY <3>1
    <3>6. \A i \in 1 .. n : i \in 1 .. n + 1
      BY <3>1
    <3>7. n + 1 \in 1 .. n + 1
      BY <3>1
    <3>8. Recorded' = Recorded \cup {Registry[n + 1]}
      BY <3>2, <3>4, <3>5, <3>6, <3>7
    <3> QED
      BY <2>2, <3>8 DEF IInv, ChangelogMatchesSchema
  <2> QED
    BY <1>5, <2>1, <2>2
<1>8. \E how \in {"idle", "done", "check"} : pc' = [pc EXCEPT ![r] = how]
  BY <1>2
<1>9. TypeOK'
  <2>1. at' \in [Runners -> 1 .. Len(Registry)]
    <3>1. \/ at' = at
          \/ at[r] < Len(names[r]) /\ Len(names[r]) <= 3 /\ at' = [at EXCEPT ![r] = at[r] + 1]
      BY <1>2, <1>3
    <3> QED
      BY <3>1, Advances DEF IInv
  <2>2. pc' \in [Runners -> {"idle", "check", "apply", "list", "revert", "done"}]
    BY <1>8 DEF IInv, TypeOK
  <2>3. changelog' \in Seq(Names) /\ IsInjective(changelog')
    <3>1. Len(changelog') \in 0 .. 3 /\ changelog' = FirstOf(Len(changelog'))
      BY <1>6 DEF Height, FirstOf
    <3> QED
      BY <3>1, FirstsInjective
  <2>4. schema' \subseteq Names
    BY <1>2, <1>3, Places DEF IInv, TypeOK
  <2> QED
    BY <1>1, <2>1, <2>2, <2>3, <2>4 DEF IInv, TypeOK
<1>10. OneCommand'
  BY <1>1, <1>3, <1>8, Moves DEF IInv
<1>11. \A q \in Runners \ {r} : Climbing(q)' /\ Falling(q)'
  <2>1. \A q \in Runners \ {r} : /\ pc'[q] = pc[q] /\ command'[q] = command[q]
                                 /\ names'[q] = names[q] /\ at'[q] = at[q]
    BY <1>1, <1>2 DEF IInv, TypeOK
  <2>2. Len(changelog') >= Len(changelog)
    BY <1>3, <1>6 DEF n
  <2> QED
    BY <1>1, <1>6, <2>1, <2>2, OthersKeep
<1>12. Climbing(r)' /\ Falling(r)'
  <2>1. CASE pc'[r] = "check"
    <3>1. at[r] <= n + 1 /\ Len(changelog') = n + 1 /\ at'[r] = at[r] + 1
      BY <1>2, <1>3, <1>6, <2>1 DEF IInv, TypeOK
    <3> QED
      BY <1>1, <1>3, <2>1, <3>1 DEF Climbing, Falling
  <2>2. CASE pc'[r] # "check"
    <3>1. pc'[r] \in {"idle", "done"}
      BY <1>8, <2>2 DEF IInv, TypeOK
    <3> QED
      BY <3>1 DEF Climbing, Falling
  <2> QED
    BY <2>1, <2>2
<1> QED
  BY <1>6, <1>7, <1>9, <1>10, <1>11, <1>12 DEF IInv, Progress

(* What "down" lists, the last migration first.                            *)
LEMMA LatestFacts ==
  ASSUME Height, changelog # <<>>, NEW n \in 1 .. 3
  PROVE  /\ Len(changelog) \in 1 .. 3
         /\ Latest(n) \in Seq(Names)
         /\ Len(Latest(n)) \in 1 .. Len(changelog)
         /\ \A i \in 1 .. Len(Latest(n)) :
              Latest(n)[i] = Registry[Len(changelog) + 1 - i]
<1> DEFINE h == Len(changelog)
           low == IF n < h THEN h - n + 1 ELSE 1
           s == SubSeq(changelog, low, h)
<1>1. h \in 0 .. 3 /\ changelog = FirstOf(h)
  BY DEF Height
<1>2. /\ changelog \in Seq(Names)
      /\ \A i \in 1 .. h : changelog[i] = Registry[i] /\ changelog[i] \in Names
  <2> HIDE DEF h
  <2>1. FirstOf(h) \in Seq(Names) /\ \A i \in 1 .. h : FirstOf(h)[i] = Registry[i]
    BY <1>1, FirstFacts
  <2>2. \A i \in 1 .. h : i \in 1 .. 3
    BY <1>1
  <2> QED
    BY <1>1, <2>1, <2>2, Places
<1>3. h # 0
  BY <1>2, EmptySeq
<1>4. h \in 1 .. 3 /\ low \in 1 .. h
  <2> HIDE DEF h
  <2> QED
    BY <1>1, <1>3
<1> HIDE DEF h, low
<1>5. /\ s \in Seq(Names) /\ Len(s) = h - low + 1
      /\ \A i \in 1 .. h - low + 1 : s[i] = changelog[low + i - 1]
  <2>1. \A i \in low .. h : changelog[i] \in Names
    BY <1>2, <1>4
  <2>2. low \in Int /\ h \in Int /\ low <= h
    BY <1>4
  <2> QED
    BY <2>1, <2>2, SubSeqProperties
<1> HIDE DEF s
<1> DEFINE k == h - low + 1
           t == [i \in 1 .. k |-> s[(k - i) + 1]]
<1>6. Latest(n) = t
  BY <1>5 DEF Latest, Reverse, h, low, s
<1>7. k \in 1 .. h /\ \A i \in 1 .. k : (k - i) + 1 \in 1 .. k
  BY <1>4
<1>8. \A i \in 1 .. k : s[i] \in Names /\ s[i] = Registry[low + i - 1]
  <2> SUFFICES ASSUME NEW i \in 1 .. k
               PROVE  s[i] \in Names /\ s[i] = Registry[low + i - 1]
    OBVIOUS
  <2>1. low + i - 1 \in 1 .. h /\ s[i] = changelog[low + i - 1]
    BY <1>4, <1>5
  <2> QED
    BY <1>2, <2>1
<1>9. t \in Seq(Names) /\ Len(t) = k
  <2>1. t \in [1 .. k -> Names]
    BY <1>7, <1>8
  <2>2. k \in Nat
    BY <1>4, <1>7
  <2> HIDE DEF t, k
  <2> QED
    BY <2>1, <2>2
<1>10. \A i \in 1 .. k : t[i] = Registry[h + 1 - i]
  <2> SUFFICES ASSUME NEW i \in 1 .. k
               PROVE  t[i] = Registry[h + 1 - i]
    OBVIOUS
  <2>1. t[i] = s[(k - i) + 1] /\ (k - i) + 1 \in 1 .. k
    BY <1>7
  <2>2. t[i] = Registry[low + ((k - i) + 1) - 1]
    BY <1>8, <2>1
  <2>3. low + ((k - i) + 1) - 1 = h + 1 - i
    BY <1>4
  <2> QED
    BY <2>2, <2>3
<1> QED
  BY <1>4, <1>6, <1>7, <1>9, <1>10 DEF h

LEMMA ListLatestKeeps ==
  ASSUME IInv, NEW r \in Runners, ListLatest(r)
  PROVE  IInv'
<1>1. /\ pc[r] = "list" /\ command[r] = "down" /\ r \in Running
      /\ changelog' = changelog /\ schema' = schema
      /\ command' = command /\ at' = at
  BY DEF ListLatest, IInv, Progress, Falling, Running
<1>2. PICK n \in 1 .. 3, how \in {"idle", "done", "revert"} :
        /\ pc' = [pc EXCEPT ![r] = how]
        /\ \/ how = "idle" /\ names' = names
           \/ /\ names' = [names EXCEPT ![r] = Latest(n)]
              /\ how = "revert" <=> changelog # <<>>
  BY RegistryFacts DEF ListLatest
<1>3. Height /\ (changelog = <<>> => Latest(n) = <<>>)
  <2>1. ASSUME changelog = <<>> PROVE Latest(n) = <<>>
    <3>1. Len(changelog) = 0
      BY <2>1
    <3>2. SubSeq(changelog, IF n < Len(changelog) THEN Len(changelog) - n + 1 ELSE 1,
                 Len(changelog)) = <<>>
      BY <3>1, SubSeqEmpty
    <3>3. Latest(n) = Reverse(<<>>)
      BY <3>2 DEF Latest
    <3>4. Reverse(<<>>) = <<>>
      BY DEF Reverse
    <3> QED
      BY <3>3, <3>4
  <2> QED
    BY <2>1 DEF IInv
<1>4. Latest(n) \in Seq(Names)
  <2>1. <<>> \in Seq(Names)
    OBVIOUS
  <2> QED
    BY <1>3, <2>1, LatestFacts
<1>5. TypeOK'
  <2>1. names' \in [Runners -> Seq(Names)]
    BY <1>2, <1>4 DEF IInv, TypeOK
  <2>2. pc' \in [Runners -> {"idle", "check", "apply", "list", "revert", "done"}]
    BY <1>2 DEF IInv, TypeOK
  <2> QED
    BY <1>1, <2>1, <2>2 DEF IInv, TypeOK
<1>6. Height' /\ ChangelogMatchesSchema'
  BY <1>1 DEF IInv, Height, FirstOf, ChangelogMatchesSchema, Recorded
<1>7. OneCommand'
  BY <1>1, <1>2, Moves DEF IInv
<1>8. \A q \in Runners \ {r} : Climbing(q)' /\ Falling(q)'
  <2>1. \A q \in Runners \ {r} : /\ pc'[q] = pc[q] /\ command'[q] = command[q]
                                 /\ names'[q] = names[q] /\ at'[q] = at[q]
    BY <1>1, <1>2 DEF IInv, TypeOK
  <2> QED
    BY <1>1, <1>6, <2>1, OthersKeep
<1>9. Climbing(r)' /\ Falling(r)'
  <2>1. pc'[r] = how /\ command'[r] = "down"
    BY <1>1, <1>2 DEF IInv, TypeOK
  <2>2. CASE how # "revert"
    BY <1>2, <2>1, <2>2 DEF Climbing, Falling
  <2>3. CASE how = "revert"
    <3>1. names'[r] = Latest(n) /\ changelog # <<>>
      BY <1>2, <2>3 DEF IInv, TypeOK
    <3>2. /\ Len(changelog) \in 1 .. 3
          /\ Len(names'[r]) \in 1 .. Len(changelog)
          /\ \A i \in 1 .. Len(names'[r]) : names'[r][i] = Registry[Len(changelog) + 1 - i]
      BY <1>3, <3>1, LatestFacts
    <3>3. at'[r] = 1
      BY <1>1 DEF IInv, Progress, Falling
    <3>4. 1 \in 1 .. Len(names'[r]) /\ Len(changelog') <= Len(changelog) + 1 - 1
      BY <1>1, <3>2
    <3> QED
      BY <2>1, <2>3, <3>2, <3>3, <3>4 DEF Climbing, Falling
  <2> QED
    BY <2>2, <2>3
<1> QED
  BY <1>5, <1>6, <1>7, <1>8, <1>9 DEF IInv, Progress

(* Down of a migration with none recorded above it.                        *)
LEMMA SchemaAfter ==
  ASSUME Height, ChangelogMatchesSchema, NEW c \in 1 .. 3, Len(changelog) <= c
  PROVE  /\ Recorded \ {Registry[c]} \subseteq After(Registry[c])
         /\ After(Registry[c]) \subseteq (Recorded \ {Registry[c]}) \cup {Registry[2]}
         /\ After(Registry[c]) \subseteq schema
<1>1. /\ \A k \in 1 .. 3 : Registry[k] \in Recorded <=> k <= Len(changelog)
      /\ Recorded \subseteq Names /\ Len(changelog) \in 0 .. 3
  <2>1. Len(changelog) \in 0 .. 3
    BY DEF Height
  <2>2. \A i \in 1 .. Len(changelog) : i \in 1 .. 3
    BY <2>1
  <2> QED
    BY <2>1, <2>2, RecordedFacts, Places
<1>2. CASE c = 1
  <2>1. Registry[2] \notin Recorded /\ Registry[3] \notin Recorded
    BY <1>1, <1>2
  <2>2. After(Registry[c]) = schema \ {Registry[1], Registry[2]}
    BY <1>2, RegistryFacts DEF After
  <2>3. Recorded \subseteq {Registry[1]}
    BY <1>1, <2>1, RegistryFacts
  <2> QED
    BY <1>2, <2>2, <2>3 DEF ChangelogMatchesSchema
<1>3. CASE c = 2
  <2>1. After(Registry[c]) = schema
    BY <1>3, RegistryFacts DEF After
  <2> QED
    BY <1>3, <2>1 DEF ChangelogMatchesSchema
<1>4. CASE c = 3
  <2>1. After(Registry[c]) = schema \ {Registry[3]}
    BY <1>4, RegistryFacts DEF After
  <2> QED
    BY <1>4, <2>1 DEF ChangelogMatchesSchema
<1> QED
  BY <1>2, <1>3, <1>4

(* Where a "down" is: n migrations are recorded, none above the c-th.      *)
LEMMA DownFacts ==
  ASSUME IInv, NEW r \in Runners, pc[r] = "revert"
  PROVE  /\ command[r] = "down" /\ r \in Running
         /\ \E top \in 1 .. 3 :
              /\ Len(names[r]) \in 1 .. top
              /\ \A i \in 1 .. Len(names[r]) : names[r][i] = Registry[top + 1 - i]
              /\ at[r] \in 1 .. Len(names[r])
              /\ top + 1 - at[r] \in 1 .. 3
              /\ Len(changelog) <= top + 1 - at[r]
              /\ Current(r) = Registry[top + 1 - at[r]]
<1>1. command[r] = "down" /\ r \in Running
  BY DEF IInv, Progress, Falling, Running
<1>2. PICK top \in 1 .. 3 :
        /\ Len(names[r]) \in 1 .. top
        /\ \A i \in 1 .. Len(names[r]) : names[r][i] = Registry[top + 1 - i]
        /\ at[r] \in 1 .. Len(names[r])
        /\ Len(changelog) <= top + 1 - at[r]
  BY DEF IInv, Progress, Falling
<1>3. top + 1 - at[r] \in 1 .. 3 /\ Current(r) = Registry[top + 1 - at[r]]
  BY <1>2 DEF Current
<1> QED
  BY <1>1, <1>2, <1>3

LEMMA RevertKeeps ==
  ASSUME IInv, NEW r \in Runners, Revert(r)
  PROVE  IInv'
<1> DEFINE n == Len(changelog)
<1>1. pc[r] = "revert" /\ command' = command /\ names' = names
  BY DEF Revert
<1>2. \/ /\ changelog' = changelog /\ schema' = schema
         /\ pc' = [pc EXCEPT ![r] = "idle"] /\ at' = at
      \/ /\ changelog' = RemoveFirst(changelog, Current(r))
         /\ schema' = After(Current(r))
         /\ \/ pc' = [pc EXCEPT ![r] = "idle"] /\ at' = at
            \/ pc' = [pc EXCEPT ![r] = "done"] /\ at' = at
            \/ /\ at[r] < Len(names[r]) /\ at' = [at EXCEPT ![r] = at[r] + 1]
               /\ pc' = [pc EXCEPT ![r] = "revert"]
  BY DEF Revert, Return, Advance
<1>3. command[r] = "down" /\ r \in Running
  BY <1>1, DownFacts
<1>4. PICK top \in 1 .. 3 :
        /\ Len(names[r]) \in 1 .. top
        /\ \A i \in 1 .. Len(names[r]) : names[r][i] = Registry[top + 1 - i]
        /\ at[r] \in 1 .. Len(names[r])
        /\ top + 1 - at[r] \in 1 .. 3
        /\ Len(changelog) <= top + 1 - at[r]
        /\ Current(r) = Registry[top + 1 - at[r]]
  BY <1>1, DownFacts
<1>5. PICK c \in 1 .. 3 : c = top + 1 - at[r]
  BY <1>4
<1>6. n \in 0 .. 3 /\ n <= c /\ changelog = FirstOf(n) /\ Current(r) = Registry[c]
  BY <1>4, <1>5 DEF IInv, Height
<1> HIDE DEF n
<1>7. PICK left \in 0 .. 3 :
        /\ left <= n /\ left <= c - 1
        /\ RemoveFirst(changelog, Current(r)) = FirstOf(left)
        /\ Range(FirstOf(left)) = Recorded \ {Registry[c]}
  <2>1. Recorded = Range(FirstOf(n))
    BY <1>6 DEF Recorded
  <2>2. CASE n = c
    <3>1. c \in 1 .. 3 /\ c - 1 \in 0 .. 3 /\ c \in 0 .. 3
      OBVIOUS
    <3>2. RemoveFirst(changelog, Current(r)) = FirstOf(c - 1)
      BY <1>6, <2>2, OneLess
    <3>3. Range(FirstOf(c - 1)) = {Registry[i] : i \in 1 .. c - 1}
      BY <3>1, FirstFacts
    <3>4. Recorded = {Registry[i] : i \in 1 .. c}
      BY <2>1, <2>2, <3>1, FirstFacts
    <3>5. \A i \in 1 .. c : i \in 1 .. 3 /\ (i \in 1 .. c - 1 <=> i # c)
      BY <3>1
    <3>6. \A i \in 1 .. c : Registry[i] = Registry[c] <=> i = c
      BY <3>5, Places
    <3>7. \A i \in 1 .. c - 1 : i \in 1 .. c
      BY <3>1
    <3>8. {Registry[i] : i \in 1 .. c - 1} = {Registry[i] : i \in 1 .. c} \ {Registry[c]}
      BY <3>5, <3>6, <3>7
    <3> QED
      BY <2>2, <3>1, <3>2, <3>3, <3>4, <3>8
  <2>3. CASE n # c
    <3>1. n < c
      BY <1>6, <2>3
    <3>2. RemoveFirst(changelog, Current(r)) = FirstOf(n)
      BY <1>6, <3>1, NoneLess
    <3>3. Registry[c] \notin Recorded
      BY <1>6, <2>1, <3>1, FirstFacts
    <3>4. Range(FirstOf(n)) = Recorded \ {Registry[c]}
      BY <2>1, <3>3
    <3> QED
      BY <1>6, <3>1, <3>2, <3>4
  <2> QED
    BY <2>2, <2>3
<1>8. \/ /\ changelog' = changelog /\ schema' = schema
         /\ pc' = [pc EXCEPT ![r] = "idle"] /\ at' = at
      \/ changelog' = FirstOf(left) /\ schema' = After(Registry[c])
  BY <1>2, <1>6, <1>7
<1>9. /\ Height'
      /\ \/ Len(changelog') = n /\ pc' = [pc EXCEPT ![r] = "idle"]
         \/ Len(changelog') = left
  <2>1. CASE changelog' = changelog /\ pc' = [pc EXCEPT ![r] = "idle"]
    BY <2>1 DEF IInv, Height, FirstOf, n
  <2>2. CASE changelog' = FirstOf(left)
    <3>1. Len(changelog') = left
      BY <2>2, FirstFacts
    <3>2. Height'
      BY <2>2, <3>1 DEF Height, FirstOf
    <3> QED
      BY <3>1, <3>2
  <2> QED
    BY <1>8, <2>1, <2>2
<1>10. ChangelogMatchesSchema' /\ schema' \subseteq schema
  <2>1. CASE changelog' = changelog /\ schema' = schema
    BY <2>1 DEF IInv, ChangelogMatchesSchema, Recorded
  <2>2. CASE changelog' = FirstOf(left) /\ schema' = After(Registry[c])
    <3>1. Recorded' = Recorded \ {Registry[c]}
      BY <1>7, <2>2 DEF Recorded
    <3>2. Len(changelog) <= c
      BY <1>6 DEF n
    <3> QED
      BY <2>2, <3>1, <3>2, SchemaAfter DEF IInv, ChangelogMatchesSchema
  <2> QED
    BY <1>8, <2>1, <2>2
<1>11. \E how \in {"idle", "done", "revert"} : pc' = [pc EXCEPT ![r] = how]
  BY <1>2
<1>12. TypeOK'
  <2>1. at' \in [Runners -> 1 .. Len(Registry)]
    <3>1. \/ at' = at
          \/ at[r] < Len(names[r]) /\ Len(names[r]) <= 3 /\ at' = [at EXCEPT ![r] = at[r] + 1]
      BY <1>2, <1>4
    <3> QED
      BY <3>1, Advances DEF IInv
  <2>2. pc' \in [Runners -> {"idle", "check", "apply", "list", "revert", "done"}]
    BY <1>11 DEF IInv, TypeOK
  <2>3. changelog' \in Seq(Names) /\ IsInjective(changelog')
    <3>1. Len(changelog') \in 0 .. 3 /\ changelog' = FirstOf(Len(changelog'))
      BY <1>9 DEF Height, FirstOf
    <3> QED
      BY <3>1, FirstsInjective
  <2> QED
    BY <1>1, <1>10, <2>1, <2>2, <2>3 DEF IInv, TypeOK
<1>13. OneCommand'
  BY <1>1, <1>3, <1>11, Moves DEF IInv
<1>14. \A q \in Runners \ {r} : Climbing(q)' /\ Falling(q)'
  <2>1. \A q \in Runners \ {r} : /\ pc'[q] = pc[q] /\ command'[q] = command[q]
                                 /\ names'[q] = names[q] /\ at'[q] = at[q]
    BY <1>1, <1>2 DEF IInv, TypeOK
  <2>2. Len(changelog') <= Len(changelog)
    BY <1>6, <1>7, <1>9 DEF n
  <2> QED
    BY <1>1, <1>9, <2>1, <2>2, OthersKeep
<1>15. Climbing(r)' /\ Falling(r)'
  <2>1. CASE pc'[r] = "revert"
    <3>1. /\ at[r] < Len(names[r]) /\ at'[r] = at[r] + 1
          /\ Len(changelog') <= c - 1
      BY <1>2, <1>6, <1>7, <1>9, <2>1 DEF IInv, TypeOK
    <3>2. at'[r] \in 1 .. Len(names[r]) /\ Len(changelog') <= top + 1 - at'[r]
      <4>1. Len(changelog') \in Nat
        BY <1>9 DEF Height
      <4> QED
        BY <1>4, <1>5, <3>1, <4>1
    <3>3. command'[r] = "down" /\ names'[r] = names[r]
      BY <1>1, <1>3
    <3> QED
      BY <1>4, <2>1, <3>2, <3>3 DEF Climbing, Falling
  <2>2. CASE pc'[r] # "revert"
    <3>1. pc'[r] \in {"idle", "done"}
      BY <1>11, <2>2 DEF IInv, TypeOK
    <3> QED
      BY <3>1 DEF Climbing, Falling
  <2> QED
    BY <2>1, <2>2
<1> QED
  BY <1>9, <1>10, <1>12, <1>13, <1>14, <1>15 DEF IInv, Progress

-----------------------------------------------------------------------------
(* While only one command is run at a time, the strengthened invariant     *)
(* holds, however many processes run it and wherever they fail.            *)
THEOREM MigrationInvariance == ~MayMix => (Spec => []IInv)
<1> SUFFICES ASSUME ~MayMix PROVE Spec => []IInv
  OBVIOUS
<1>1. Init => IInv
  BY Initially
<1>2. IInv /\ [Next]_vars => IInv'
  <2> SUFFICES ASSUME IInv, [Next]_vars PROVE IInv'
    OBVIOUS
  <2>1. CASE Next
    <3> PICK r \in Runners : \/ MigrateUp(r) \/ Check(r) \/ Apply(r)
                             \/ MigrateDown(r) \/ ListLatest(r) \/ Revert(r)
      BY <2>1 DEF Next
    <3> QED
      BY StartKeeps, CheckKeeps, ApplyKeeps, ListLatestKeeps, RevertKeeps
  <2>2. CASE UNCHANGED vars
    BY <2>2 DEF vars, IInv, TypeOK, Height, FirstOf, ChangelogMatchesSchema, Recorded,
                OneCommand, Running, Progress, Climbing, Falling, Current
  <2> QED
    BY <2>1, <2>2
<1> QED
  BY <1>1, <1>2, PTL DEF Spec

(* The changelog holds registered migrations, none of them twice.          *)
THEOREM MigrationTypes == ~MayMix => (Spec => []TypeOK)
<1>1. IInv => TypeOK
  BY DEF IInv
<1> QED
  BY <1>1, MigrationInvariance, PTL

(* The recorded migrations are the first of the registry, in its order.    *)
THEOREM History == ~MayMix => (Spec => []HistoryIsPrefix)
<1>1. IInv => HistoryIsPrefix
  <2> SUFFICES ASSUME IInv PROVE HistoryIsPrefix
    OBVIOUS
  <2>1. Len(changelog) \in 0 .. 3 /\ changelog = SubSeq(Registry, 1, Len(changelog))
    BY DEF IInv, Height, FirstOf
  <2>2. SubSeq(changelog, 1, Len(changelog)) = changelog
    BY SubSeqFull DEF IInv, TypeOK
  <2>3. Len(changelog) <= Len(Registry)
    BY <2>1, RegistryFacts
  <2> QED
    BY <2>1, <2>2, <2>3 DEF HistoryIsPrefix, IsPrefix
<1> QED
  BY <1>1, MigrationInvariance, PTL

(* What is recorded is there, and what is there is recorded, save for the  *)
(* rows of the seed.                                                       *)
THEOREM SchemaRecorded == ~MayMix => (Spec => []ChangelogMatchesSchema)
<1>1. IInv => ChangelogMatchesSchema
  BY DEF IInv
<1> QED
  BY <1>1, MigrationInvariance, PTL

(* What is recorded is there, as long as no up meets a down, with any      *)
(* number of processes and statements that fail (main.go:128, 154).        *)
THEOREM RecordedMeansApplied == ~MayMix => (Spec => []RecordedIsApplied)
<1>1. IInv => RecordedIsApplied
  BY DEF IInv, ChangelogMatchesSchema, RecordedIsApplied
<1> QED
  BY <1>1, MigrationInvariance, PTL

Success(r) ==
  r \in Running /\ pc'[r] = "done" =>
    /\ command[r] = "up" => Range(changelog') = Names
    /\ command[r] = "down" => Range(changelog') \cap Range(names'[r]) = {}

LEMMA UpSucceeds ==
  ASSUME IInv, IInv', NEW r \in Runners, Check(r) \/ Apply(r), pc'[r] = "done"
  PROVE  Range(changelog') = Names
<1>1. /\ at[r] \in 1 .. 3 /\ Current(r) = Registry[at[r]] /\ Len(names[r]) = 3
      /\ at[r] <= Len(changelog) + 1
      /\ Current(r) \in Recorded <=> at[r] <= Len(changelog)
  BY UpFacts DEF Check, Apply
<1>2. /\ at[r] = 3
      /\ Len(changelog') \in 0 .. 3 /\ changelog' = FirstOf(Len(changelog'))
      /\ \/ changelog' = changelog /\ Current(r) \in Recorded
         \/ Current(r) \in Range(changelog')
  <2>1. Len(changelog') \in 0 .. 3 /\ changelog' = FirstOf(Len(changelog'))
    BY DEF IInv, Height, FirstOf
  <2>2. CASE Check(r)
    <3>1. at[r] >= Len(names[r]) /\ Current(r) \in Recorded /\ changelog' = changelog
      BY <2>2 DEF Check, Advance, Return, IInv, TypeOK
    <3> QED
      BY <1>1, <2>1, <3>1
  <2>3. CASE Apply(r)
    <3>1. at[r] >= Len(names[r]) /\ changelog' = Append(changelog, Current(r))
      BY <2>3 DEF Apply, Advance, Return, IInv, TypeOK
    <3>2. changelog \in Seq(Names) /\ Current(r) \in Names
      BY <1>1, Places DEF IInv, TypeOK
    <3>3. /\ changelog' \in Seq(Names)
          /\ Len(changelog') = Len(changelog) + 1
          /\ changelog'[Len(changelog) + 1] = Current(r)
      BY <3>1, <3>2, AppendProperties
    <3>4. Current(r) \in Range(changelog')
      <4>1. Range(changelog') = {changelog'[i] : i \in 1 .. Len(changelog')}
        BY <3>3, RangeEquality
      <4>2. Len(changelog) + 1 \in 1 .. Len(changelog')
        BY <3>2, <3>3
      <4> QED
        BY <3>3, <4>1, <4>2
    <3> QED
      BY <1>1, <2>1, <3>1, <3>4
  <2> QED
    BY <2>2, <2>3
<1>3. Registry[3] \in Range(changelog')
  BY <1>1, <1>2 DEF Recorded
<1>4. 3 <= Len(changelog')
  BY <1>2, <1>3, FirstFacts
<1>5. Range(changelog') = {Registry[i] : i \in 1 .. 3}
  <2>1. PICK m \in 0 .. 3 : m = Len(changelog') /\ changelog' = FirstOf(m)
    BY <1>2
  <2>2. changelog' = FirstOf(3)
    BY <1>4, <2>1
  <2> QED
    BY <2>2, FirstFacts
<1> QED
  BY <1>5, RegistryFacts

LEMMA DownSucceeds ==
  ASSUME IInv, IInv', NEW r \in Runners, ListLatest(r) \/ Revert(r), pc'[r] = "done"
  PROVE  Range(changelog') \cap Range(names'[r]) = {}
<1>1. Len(changelog') \in 0 .. 3 /\ changelog' = FirstOf(Len(changelog'))
  BY DEF IInv, Height, FirstOf
<1>2. CASE ListLatest(r)
  <2>1. changelog' = <<>>
    BY <1>2 DEF ListLatest, IInv, TypeOK
  <2>2. Range(changelog') = {}
    <3>1. Len(changelog') = 0
      BY <2>1
    <3>2. Range(FirstOf(0)) = {Registry[i] : i \in 1 .. 0}
      BY FirstFacts
    <3> QED
      BY <1>1, <3>1, <3>2
  <2> QED
    BY <2>2
<1>3. CASE Revert(r)
  <2>1. pc[r] = "revert" /\ names' = names
    BY <1>3 DEF Revert
  <2>2. PICK top \in 1 .. 3 :
          /\ Len(names[r]) \in 1 .. top
          /\ \A i \in 1 .. Len(names[r]) : names[r][i] = Registry[top + 1 - i]
          /\ at[r] \in 1 .. Len(names[r])
          /\ top + 1 - at[r] \in 1 .. 3
          /\ Len(changelog) <= top + 1 - at[r]
          /\ Current(r) = Registry[top + 1 - at[r]]
    BY <2>1, DownFacts
  <2>3. /\ at[r] = Len(names[r])
        /\ changelog' = RemoveFirst(changelog, Current(r))
    BY <1>3, <2>2 DEF Revert, Advance, Return, IInv, TypeOK
  <2>4. PICK c \in 1 .. 3 : c = top + 1 - at[r]
    BY <2>2
  <2>5. Len(changelog') <= c - 1
    <3>1. Len(changelog) \in 0 .. 3 /\ changelog = FirstOf(Len(changelog))
      BY DEF IInv, Height
    <3>2. PICK n \in 0 .. 3 : n = Len(changelog)
      BY <3>1
    <3>3. /\ n <= c /\ changelog = FirstOf(n)
          /\ changelog' = RemoveFirst(FirstOf(n), Registry[c])
      BY <2>2, <2>3, <2>4, <3>1, <3>2
    <3>4. CASE n = c
      <4>1. changelog' = FirstOf(c - 1)
        BY <3>3, <3>4, OneLess
      <4>2. c - 1 \in 0 .. 3
        OBVIOUS
      <4>3. Len(FirstOf(c - 1)) = c - 1
        BY <4>2, FirstFacts
      <4> QED
        BY <4>1, <4>3
    <3>5. CASE n # c
      <4>1. n < c
        BY <3>3, <3>5
      <4>2. changelog' = FirstOf(n)
        BY <3>3, <4>1, NoneLess
      <4>3. Len(changelog') = n
        BY <4>2, FirstFacts
      <4> QED
        BY <4>1, <4>3
    <3> QED
      BY <3>4, <3>5
  <2>6. ASSUME NEW i \in 1 .. Len(names[r])
        PROVE  names[r][i] \notin Range(changelog')
    <3>1. top + 1 - i \in 1 .. 3 /\ top + 1 - i >= c
      BY <2>2, <2>3, <2>4
    <3>2. names[r][i] = Registry[top + 1 - i]
      BY <2>2
    <3>3. ~(top + 1 - i <= Len(changelog'))
      BY <1>1, <2>5, <3>1
    <3>4. PICK m \in 0 .. 3 : m = Len(changelog') /\ changelog' = FirstOf(m)
      BY <1>1
    <3>5. Registry[top + 1 - i] \notin Range(FirstOf(m))
      BY <3>1, <3>3, <3>4, FirstFacts
    <3> QED
      BY <3>2, <3>4, <3>5
  <2>7. Range(names[r]) = {names[r][i] : i \in 1 .. Len(names[r])}
    <3>1. names[r] \in Seq(Names)
      BY DEF IInv, TypeOK
    <3> QED
      BY <3>1, RangeEquality
  <2> QED
    BY <2>1, <2>6, <2>7
<1> QED
  BY <1>2, <1>3

(* A command that reports success has done all its work, although others   *)
(* run the same command at the same time.                                  *)
THEOREM SuccessMeansDone == ~MayMix => (Spec => SuccessIsComplete)
<1> SUFFICES ASSUME ~MayMix PROVE Spec => SuccessIsComplete
  OBVIOUS
<1>1. ASSUME IInv, IInv', [Next]_vars
      PROVE  [\A r \in Runners : Success(r)]_vars
  <2> SUFFICES ASSUME Next, NEW r \in Running, pc'[r] = "done"
               PROVE  /\ command[r] = "up" => Range(changelog') = Names
                      /\ command[r] = "down" => Range(changelog') \cap Range(names'[r]) = {}
    BY <1>1 DEF Success
  <2>1. r \in Runners /\ pc[r] # "done"
    BY DEF Running
  <2>2. PICK q \in Runners : \/ MigrateUp(q) \/ Check(q) \/ Apply(q)
                             \/ MigrateDown(q) \/ ListLatest(q) \/ Revert(q)
    BY DEF Next
  <2>3. q = r
    BY <1>1, <2>1, <2>2
    DEF MigrateUp, MigrateDown, Start, Check, Apply, ListLatest, Revert, Return, Advance, IInv, TypeOK
  <2>4. ~MigrateUp(r) /\ ~MigrateDown(r)
    BY DEF MigrateUp, MigrateDown, Start
  <2>5. CASE Check(r) \/ Apply(r)
    <3>1. command[r] = "up"
      BY <1>1, <2>1, <2>5, UpFacts DEF Check, Apply
    <3> QED
      BY <1>1, <2>1, <2>5, <3>1, UpSucceeds
  <2>6. CASE ListLatest(r) \/ Revert(r)
    <3>1. command[r] = "down"
      BY <1>1, <2>1, <2>6 DEF ListLatest, Revert, IInv, Progress, Falling
    <3> QED
      BY <1>1, <2>1, <2>6, <3>1, DownSucceeds
  <2> QED
    BY <2>2, <2>3, <2>4, <2>5, <2>6
<1>2. [\A r \in Runners : Success(r)]_vars
      => [\A r \in Runners : r \in Running /\ pc'[r] = "done" =>
            /\ command[r] = "up" => Range(changelog') = Names
            /\ command[r] = "down" => Range(changelog') \cap Range(names'[r]) = {}]_vars
  BY DEF Success
<1>3. Spec => []IInv
  BY MigrationInvariance
<1> QED
  BY <1>1, <1>2, <1>3, PTL DEF Spec, SuccessIsComplete
=============================================================================
