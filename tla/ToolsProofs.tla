---------------------------- MODULE ToolsProofs -----------------------------
(***************************************************************************)
(* The server that is started in the background, the script that PHP runs, *)
(* and the tools that are installed, for any number of commands, options   *)
(* and releases.                                                           *)
(***************************************************************************)
EXTENDS Reexec, UpsunInstall, PhpTools, WellFoundedInduction, TLAPS

-----------------------------------------------------------------------------
(* The server in the background.                                           *)

USE ReexecAssumption

(***************************************************************************)
(* Type correctness of the handshake of Background and NotifyForeground.   *)
(***************************************************************************)
THEOREM TypeCorrect == Spec => []TypeOK
<1>1. Init => TypeOK
  <2> SUFFICES ASSUME Init PROVE TypeOK
    OBVIOUS
  <2>1. {childAlive, killed, env} \subseteq BOOLEAN
    BY Zenon DEF Init
  <2> QED
    BY <2>1 DEF Init, TypeOK, Events
<1>2. TypeOK /\ [Next]_vars => TypeOK'
  <2> SUFFICES ASSUME TypeOK, [Next]_vars PROVE TypeOK'
    OBVIOUS
  <2> USE DEF TypeOK, Events, parentVars, childVars
  <2>1. ASSUME Respawn PROVE TypeOK'
    BY <2>1 DEF Respawn
  <2>2. ASSUME RespawnError PROVE TypeOK'
    BY <2>2 DEF RespawnError, Return
  <2>3. ASSUME OnSignal PROVE TypeOK'
    BY <2>3 DEF OnSignal, Return
  <2>4. ASSUME OnEvent PROVE TypeOK'
    <3>1. childAlive' \in BOOLEAN
      BY <2>4, Zenon DEF OnEvent, Return
    <3> QED
      BY <2>4, <3>1 DEF OnEvent, Return
  <2>5. ASSUME OnStatus PROVE TypeOK'
    BY <2>5 DEF OnStatus, Return
  <2>6. ASSUME OnTick PROVE TypeOK'
    <3>1. childAlive' \in BOOLEAN
      BY <2>6 DEF OnTick, Return
    <3>2. killed' \in BOOLEAN
      BY <2>6, Zenon DEF OnTick, Return
    <3> QED
      BY <2>6, <3>1, <3>2 DEF OnTick, Return
  <2>7. ASSUME WaitChild PROVE TypeOK'
    BY <2>7 DEF WaitChild
  <2>8. ASSUME NotifyTruncates PROVE TypeOK'
    BY <2>8 DEF NotifyTruncates, Emit, Active
  <2>9. ASSUME NotifyWrites PROVE TypeOK'
    BY <2>9 DEF NotifyWrites, Emit, Active
  <2>10. ASSUME NotifyUp PROVE TypeOK'
    BY <2>10 DEF NotifyUp, Emit, Active
  <2>11. ASSUME ChildExit PROVE TypeOK'
    BY <2>11 DEF ChildExit
  <2>12. ASSUME Signal PROVE TypeOK'
    BY <2>12 DEF Signal
  <2>13. ASSUME ForegroundNotify PROVE TypeOK'
    BY <2>13 DEF ForegroundNotify
  <2>14. ASSUME ForegroundUp PROVE TypeOK'
    <3>1. env' \in BOOLEAN
      BY <2>14, Zenon DEF ForegroundUp
    <3> QED
      BY <2>14, <3>1 DEF ForegroundUp
  <2>15. CASE UNCHANGED vars
    BY <2>15, SMTT(30) DEF vars
  <2> QED
    BY <2>1, <2>2, <2>3, <2>4, <2>5, <2>6, <2>7, <2>8, <2>9, <2>10, <2>11, <2>12, <2>13, <2>14, <2>15, SMTT(30)
       DEF Next, Background, NotifyForeground
<1> QED
  BY <1>1, <1>2, PTL DEF Spec

\* What the parent and the child may do, and the status file, step by step.
LEMMA ChildStep == TypeOK /\ IInv /\ [Next]_vars => ChildInv'
<1> SUFFICES ASSUME TypeOK, IInv, [Next]_vars PROVE ChildInv'
  OBVIOUS
<1> USE DEF TypeOK, IInv, ChildInv, NotTwice, parentVars, childVars
<1>1. ASSUME Respawn PROVE ChildInv'
  BY <1>1 DEF Respawn
<1>2. ASSUME RespawnError PROVE ChildInv'
  BY <1>2 DEF RespawnError, Return
<1>3. ASSUME OnSignal PROVE ChildInv'
  BY <1>3 DEF OnSignal, Return
<1>4. ASSUME OnEvent PROVE ChildInv'
  BY <1>4 DEF OnEvent, Return
<1>5. ASSUME OnStatus PROVE ChildInv'
  BY <1>5 DEF OnStatus, Return
<1>6. ASSUME OnTick PROVE ChildInv'
  BY <1>6 DEF OnTick, Return
<1>7. ASSUME WaitChild PROVE ChildInv'
  BY <1>7 DEF WaitChild
<1>8. ASSUME NotifyTruncates PROVE ChildInv'
  BY <1>8 DEF NotifyTruncates, Emit, Active
<1>9. ASSUME NotifyWrites PROVE ChildInv'
  BY <1>9 DEF NotifyWrites, Emit, Active
<1>10. ASSUME NotifyUp PROVE ChildInv'
  BY <1>10 DEF NotifyUp, Emit, Active
<1>11. ASSUME ChildExit PROVE ChildInv'
  BY <1>11 DEF ChildExit
<1>12. ASSUME Signal PROVE ChildInv'
  BY <1>12 DEF Signal
<1>13. ASSUME ForegroundNotify PROVE ChildInv'
  BY <1>13 DEF ForegroundNotify
<1>14. ASSUME ForegroundUp PROVE ChildInv'
  BY <1>14 DEF ForegroundUp
<1>15. CASE UNCHANGED vars
  BY <1>15, SMTT(30) DEF vars
<1> QED
  BY <1>1, <1>2, <1>3, <1>4, <1>5, <1>6, <1>7, <1>8, <1>9, <1>10, <1>11, <1>12, <1>13, <1>14, <1>15, Zenon
       DEF Next, Background, NotifyForeground

\* The removal of the file, seen or pending, is the child's.
LEMMA UpStep == TypeOK /\ IInv /\ [Next]_vars => UpInv'
<1> SUFFICES ASSUME TypeOK, IInv, [Next]_vars PROVE UpInv'
  OBVIOUS
<1> USE DEF TypeOK, Events, IInv, UpInv, ChildInv, FileRemoved, parentVars, childVars
<1>1. ASSUME Respawn PROVE UpInv'
  BY <1>1 DEF Respawn
<1>2. ASSUME RespawnError PROVE UpInv'
  BY <1>2 DEF RespawnError, Return
<1>3. ASSUME OnSignal PROVE UpInv'
  BY <1>3 DEF OnSignal, Return
<1>4. ASSUME OnEvent PROVE UpInv'
  BY <1>4 DEF OnEvent, Return
<1>5. ASSUME OnStatus PROVE UpInv'
  BY <1>5 DEF OnStatus, Return
<1>6. ASSUME OnTick PROVE UpInv'
  BY <1>6 DEF OnTick, Return
<1>7. ASSUME WaitChild PROVE UpInv'
  BY <1>7 DEF WaitChild
<1>8. ASSUME NotifyTruncates PROVE UpInv'
  BY <1>8 DEF NotifyTruncates, Emit, Active
<1>9. ASSUME NotifyWrites PROVE UpInv'
  BY <1>9 DEF NotifyWrites, Emit, Active
<1>10. ASSUME NotifyUp PROVE UpInv'
  BY <1>10 DEF NotifyUp, Emit, Active
<1>11. ASSUME ChildExit PROVE UpInv'
  BY <1>11 DEF ChildExit
<1>12. ASSUME Signal PROVE UpInv'
  BY <1>12 DEF Signal
<1>13. ASSUME ForegroundNotify PROVE UpInv'
  BY <1>13 DEF ForegroundNotify
<1>14. ASSUME ForegroundUp PROVE UpInv'
  BY <1>14 DEF ForegroundUp
<1>15. CASE UNCHANGED vars
  BY <1>15, SMTT(30) DEF vars
<1> QED
  BY <1>1, <1>2, <1>3, <1>4, <1>5, <1>6, <1>7, <1>8, <1>9, <1>10, <1>11, <1>12, <1>13, <1>14, <1>15, SMTT(30)
       DEF Next, Background, NotifyForeground

\* The three properties are preserved.
LEMMA SafeStep == TypeOK /\ IInv /\ [Next]_vars => (NilMeansUp /\ NotTwice /\ FileRemoved)'
<1> SUFFICES ASSUME TypeOK, IInv, [Next]_vars PROVE (NilMeansUp /\ NotTwice /\ FileRemoved)'
  OBVIOUS
<1> USE DEF TypeOK, Events, IInv, UpInv, ChildInv, NilMeansUp, NotTwice, FileRemoved, parentVars, childVars
<1>1. ASSUME Respawn PROVE (NilMeansUp /\ NotTwice /\ FileRemoved)'
  BY <1>1 DEF Respawn
<1>2. ASSUME RespawnError PROVE (NilMeansUp /\ NotTwice /\ FileRemoved)'
  BY <1>2 DEF RespawnError, Return
<1>3. ASSUME OnSignal PROVE (NilMeansUp /\ NotTwice /\ FileRemoved)'
  BY <1>3 DEF OnSignal, Return
<1>4. ASSUME OnEvent PROVE (NilMeansUp /\ NotTwice /\ FileRemoved)'
  BY <1>4 DEF OnEvent, Return
<1>5. ASSUME OnStatus PROVE (NilMeansUp /\ NotTwice /\ FileRemoved)'
  BY <1>5 DEF OnStatus, Return
<1>6. ASSUME OnTick PROVE (NilMeansUp /\ NotTwice /\ FileRemoved)'
  BY <1>6, Zenon DEF OnTick, Return
<1>7. ASSUME WaitChild PROVE (NilMeansUp /\ NotTwice /\ FileRemoved)'
  BY <1>7 DEF WaitChild
<1>8. ASSUME NotifyTruncates PROVE (NilMeansUp /\ NotTwice /\ FileRemoved)'
  BY <1>8 DEF NotifyTruncates, Emit, Active
<1>9. ASSUME NotifyWrites PROVE (NilMeansUp /\ NotTwice /\ FileRemoved)'
  BY <1>9 DEF NotifyWrites, Emit, Active
<1>10. ASSUME NotifyUp PROVE (NilMeansUp /\ NotTwice /\ FileRemoved)'
  BY <1>10 DEF NotifyUp, Emit, Active
<1>11. ASSUME ChildExit PROVE (NilMeansUp /\ NotTwice /\ FileRemoved)'
  BY <1>11 DEF ChildExit
<1>12. ASSUME Signal PROVE (NilMeansUp /\ NotTwice /\ FileRemoved)'
  BY <1>12 DEF Signal
<1>13. ASSUME ForegroundNotify PROVE (NilMeansUp /\ NotTwice /\ FileRemoved)'
  BY <1>13 DEF ForegroundNotify
<1>14. ASSUME ForegroundUp PROVE (NilMeansUp /\ NotTwice /\ FileRemoved)'
  BY <1>14 DEF ForegroundUp
<1>15. CASE UNCHANGED vars
  BY <1>15 DEF vars
<1> QED
  BY <1>1, <1>2, <1>3, <1>4, <1>5, <1>6, <1>7, <1>8, <1>9, <1>10, <1>11, <1>12, <1>13, <1>14, <1>15, SMTT(30)
       DEF Next, Background, NotifyForeground

(***************************************************************************)
(* The invariant is inductive.                                             *)
(***************************************************************************)
THEOREM Invariance == Spec => []IInv
<1>1. Init => IInv
  BY DEF Init, IInv, UpInv, ChildInv, NilMeansUp, NotTwice, FileRemoved
<1>2. TypeOK /\ IInv /\ [Next]_vars => IInv'
  BY ChildStep, UpStep, SafeStep DEF IInv
<1> QED
  BY <1>1, <1>2, TypeCorrect, PTL DEF Spec

(***************************************************************************)
(* Background returns nil only if the child called NotifyForeground(UP).   *)
(***************************************************************************)
THEOREM NilMeansUpAlways == Spec => []NilMeansUp
BY Invariance, PTL DEF IInv

(***************************************************************************)
(* Background never fails, or reports a status, with a child that runs and *)
(* was not killed.                                                         *)
(***************************************************************************)
THEOREM NotTwiceAlways == Spec => []NotTwice
BY Invariance, PTL DEF IInv

(***************************************************************************)
(* The status file is gone once Background returned.                       *)
(***************************************************************************)
THEOREM FileRemovedAlways == Spec => []FileRemoved
BY Invariance, PTL DEF IInv

HIDE ReexecAssumption

-----------------------------------------------------------------------------
(* The script that PHP runs, and the Composer and the PIE that are found.  *)

\* A set of natural numbers that is not empty has a least one.
Less == {ss \in Nat \X Nat : ss[1] < ss[2]}

LEMMA LeastLemma ==
    ASSUME NEW S \in SUBSET Nat, S # {}
    PROVE  \E m \in S : \A n \in S : m <= n
<1>1. IsWellFoundedOn(Less, Nat)
  BY NatLessThanWellFounded DEF OpToRel, Less
<1>2. PICK m \in S : \A n \in S : <<n, m>> \notin Less
  BY <1>1, WFMin, Zenon
<1>3. \A n \in S : ~(n < m)
  <2> SUFFICES ASSUME NEW n \in S, n < m PROVE FALSE
    OBVIOUS
  <2>1. <<n, m>> \in Nat \X Nat
    OBVIOUS
  <2>2. <<n, m>> \in Less
    BY <2>1 DEF Less
  <2> QED
    BY <1>2, <2>2
<1>4. m \in Nat /\ \A n \in S : n \in Nat
  OBVIOUS
<1> QED
  BY <1>2, <1>3, <1>4

\* The flag of the loop of detectScriptDir over its first n arguments.
IsSkip(f, args, n) ==
    f = [i \in 0 .. n |-> IF i = 0 THEN FALSE ELSE args[i] = "-d" /\ ~f[i - 1]]

\* skipNext has the flag after each argument.
LEMMA SkipLemma ==
    ASSUME NEW args \in Seq(Arguments)
    PROVE  /\ skipNext(args)[0] = FALSE
           /\ \A i \in 1 .. Len(args) :
                 skipNext(args)[i] = (args[i] = "-d" /\ ~skipNext(args)[i - 1])
<1> DEFINE None == {n \in 0 .. Len(args) : ~\E f : IsSkip(f, args, n)}
<1>1. None = {}
  <2> SUFFICES ASSUME None # {} PROVE FALSE
    OBVIOUS
  <2>1. PICK m \in None : \A n \in None : m <= n
    <3>1. None \in SUBSET Nat
      OBVIOUS
    <3> QED
      BY <3>1, LeastLemma, Zenon
  <2>2. m # 0
    <3>1. IsSkip([i \in 0 .. 0 |-> FALSE], args, 0)
      BY DEF IsSkip
    <3> QED
      BY <3>1
  <2>3. PICK f : IsSkip(f, args, m - 1)
    BY <2>1, <2>2
  <2> DEFINE g == [i \in 0 .. m |-> IF i = m THEN args[m] = "-d" /\ ~f[m - 1] ELSE f[i]]
  <2>4. IsSkip(g, args, m)
    <3>1. ASSUME NEW i \in 0 .. m PROVE g[i] = IF i = 0 THEN FALSE ELSE args[i] = "-d" /\ ~g[i - 1]
      <4>0. m - 1 \in 0 .. m /\ m - 1 # m
        BY <2>2
      <4>1. CASE i = m
        BY <2>2, <4>0, <4>1, Zenon
      <4>2. CASE i # m
        <5>1. i \in 0 .. m - 1 /\ (i # 0 => i - 1 \in 0 .. m /\ i - 1 # m)
          BY <4>2
        <5>2. f[i] = IF i = 0 THEN FALSE ELSE args[i] = "-d" /\ ~f[i - 1]
          BY <2>3, <5>1, Zenon DEF IsSkip
        <5> QED
          BY <4>2, <5>1, <5>2, Zenon
      <4> QED
        BY <4>1, <4>2, Zenon
    <3> QED
      BY <3>1, Zenon DEF IsSkip
  <2> QED
    BY <2>4
<1>2. \E f : IsSkip(f, args, Len(args))
  <2>1. Len(args) \in 0 .. Len(args)
    OBVIOUS
  <2> QED
    BY <1>1, <2>1, Zenon
<1>3. IsSkip(skipNext(args), args, Len(args))
  BY <1>2 DEF skipNext, IsSkip
<1> QED
  BY <1>3 DEF IsSkip

StopWords == {"-f", "--", "word", "script"}

Stops(args, i) == ~skipNext(args)[i - 1] /\ args[i] \in StopWords

StartsWith(args, p) == Len(p) <= Len(args) /\ \A i \in 1 .. Len(p) : args[i] = p[i]

\* The loop passes over p, and the argument behind p is looked at.
Passed(p) ==
    \A args \in Seq(Arguments) : StartsWith(args, p) =>
        /\ skipNext(args)[Len(p)] = FALSE
        /\ \A i \in 1 .. Len(p) : ~Stops(args, i)

\* An option is a list of arguments.
LEMMA OptionLemma ==
    ASSUME NEW o \in Options
    PROVE  o \in Seq(Arguments)
<1>1. ASSUME NEW w \in Arguments PROVE <<w>> \in Seq(Arguments)
  OBVIOUS
<1>2. ASSUME NEW v \in Arguments, NEW w \in Arguments PROVE <<w, v>> \in Seq(Arguments)
  OBVIOUS
<1>3. {"-v", "-d.", "-d"} \subseteq Arguments
  BY Zenon DEF Arguments
<1> QED
  BY <1>1, <1>2, <1>3, Zenon DEF Options

\* An option behind arguments that are passed over is passed over, and so is
\* its value, also one that looks like an option.
LEMMA PassedStep ==
    ASSUME NEW p \in Seq(Arguments), Passed(p), NEW o \in Options
    PROVE  p \o o \in Seq(Arguments) /\ Passed(p \o o)
<1>0. o \in Seq(Arguments)
  BY OptionLemma
<1>1. p \o o \in Seq(Arguments)
  BY <1>0
<1>2. ASSUME NEW args \in Seq(Arguments), StartsWith(args, p \o o)
      PROVE  /\ skipNext(args)[Len(p \o o)] = FALSE
             /\ \A i \in 1 .. Len(p \o o) : ~Stops(args, i)
  <2> DEFINE L == Len(p)
  <2>1. L \in Nat /\ o \in Seq(Arguments)
    BY <1>0
  <2>2. StartsWith(args, p)
    BY <1>2, <2>1 DEF StartsWith
  <2>3. skipNext(args)[L] = FALSE /\ \A i \in 1 .. L : ~Stops(args, i)
    BY <2>2 DEF Passed
  <2>4. CASE \E w \in {"-v", "-d."} : o = <<w>>
    <3>1. PICK w \in {"-v", "-d."} : o = <<w>>
      BY <2>4
    <3>2. Len(p \o o) = L + 1 /\ args[L + 1] = w /\ L + 1 \in 1 .. Len(args)
      BY <1>2, <2>1, <3>1 DEF StartsWith
    <3>3. skipNext(args)[L + 1] = (args[L + 1] = "-d" /\ ~skipNext(args)[(L + 1) - 1])
      BY <3>2, SkipLemma, Zenon
    <3>4. skipNext(args)[L + 1] = FALSE
      BY <3>1, <3>2, <3>3, Zenon
    <3>5. ~Stops(args, L + 1)
      BY <3>1, <3>2, Zenon DEF Stops, StopWords
    <3>6. \A i \in 1 .. L + 1 : i \in 1 .. L \/ i = L + 1
      BY <2>1
    <3> QED
      BY <2>3, <3>2, <3>4, <3>5, <3>6, Zenon
  <2>5. CASE \E v \in Arguments : o = <<"-d", v>>
    <3>1. PICK v \in Arguments : o = <<"-d", v>>
      BY <2>5
    <3>2. /\ Len(p \o o) = L + 2 /\ args[L + 1] = "-d"
          /\ L + 1 \in 1 .. Len(args) /\ L + 2 \in 1 .. Len(args)
          /\ (L + 1) - 1 = L /\ (L + 2) - 1 = L + 1
      BY <1>2, <2>1, <3>1 DEF StartsWith
    <3>3. skipNext(args)[L + 1] = (args[L + 1] = "-d" /\ ~skipNext(args)[(L + 1) - 1])
      BY <3>2, SkipLemma, Zenon
    <3>4. skipNext(args)[L + 2] = (args[L + 2] = "-d" /\ ~skipNext(args)[(L + 2) - 1])
      BY <3>2, SkipLemma, Zenon
    <3>5. skipNext(args)[L + 1] = TRUE
      BY <2>3, <3>2, <3>3, Zenon
    <3>6. skipNext(args)[L + 2] = FALSE
      BY <3>2, <3>4, <3>5, Zenon
    <3>7. ~Stops(args, L + 1)
      BY <3>2, Zenon DEF Stops, StopWords
    <3>8. ~Stops(args, L + 2)
      BY <3>2, <3>5, Zenon DEF Stops
    <3>9. \A i \in 1 .. L + 2 : i \in 1 .. L \/ i = L + 1 \/ i = L + 2
      BY <2>1
    <3> QED
      BY <2>3, <3>2, <3>6, <3>7, <3>8, <3>9, Zenon
  <2> QED
    BY <2>4, <2>5, Zenon DEF Options
<1> QED
  BY <1>1, <1>2, Zenon DEF Passed

\* Concat is the last value of a function on the lengths of beginnings.
IsConcat(f, s, n) == f = [i \in 0 .. n |-> IF i = 0 THEN <<>> ELSE f[i - 1] \o s[i]]

\* There is one for every list.
LEMMA ConcatFunction ==
    ASSUME NEW s, Len(s) \in Nat
    PROVE  \E f : IsConcat(f, s, Len(s)) /\ Concat(s) = f[Len(s)]
<1> DEFINE None == {n \in 0 .. Len(s) : ~\E f : IsConcat(f, s, n)}
<1>1. None = {}
  <2> SUFFICES ASSUME None # {} PROVE FALSE
    OBVIOUS
  <2>1. PICK m \in None : \A n \in None : m <= n
    <3>1. None \in SUBSET Nat
      OBVIOUS
    <3> QED
      BY <3>1, LeastLemma, Zenon
  <2>2. m # 0
    <3>1. IsConcat([i \in 0 .. 0 |-> <<>>], s, 0)
      BY DEF IsConcat
    <3> QED
      BY <3>1
  <2>3. PICK f : IsConcat(f, s, m - 1)
    BY <2>1, <2>2
  <2> DEFINE g == [i \in 0 .. m |-> IF i = m THEN f[m - 1] \o s[m] ELSE f[i]]
  <2>4. IsConcat(g, s, m)
    <3>1. ASSUME NEW i \in 0 .. m PROVE g[i] = IF i = 0 THEN <<>> ELSE g[i - 1] \o s[i]
      <4>1. CASE i = m
        <5>1. m \in 0 .. m /\ m - 1 \in 0 .. m /\ m - 1 # m
          BY <2>2, SMT
        <5>2. g[m] = f[m - 1] \o s[m] /\ g[m - 1] = f[m - 1]
          BY <5>1, Zenon
        <5> HIDE DEF g
        <5> QED
          BY <2>2, <4>1, <5>2, Zenon
      <4>2. CASE i # m
        BY <2>2, <2>3, <4>2 DEF IsConcat
      <4> QED
        BY <4>1, <4>2
    <3> QED
      BY <3>1, ZenonT(60) DEF IsConcat
  <2> QED
    BY <2>4
<1>2. \E f : IsConcat(f, s, Len(s))
  <2>1. Len(s) \in 0 .. Len(s)
    OBVIOUS
  <2> QED
    BY <1>1, <2>1, Zenon
<1> QED
  BY <1>2 DEF Concat, IsConcat

\* The loop passes over any number of options.
LEMMA OptionsPassed ==
    ASSUME NEW s \in Seq(Options)
    PROVE  Concat(s) \in Seq(Arguments) /\ Passed(Concat(s))
<1>1. Len(s) \in Nat /\ \A i \in 1 .. Len(s) : s[i] \in Options
  OBVIOUS
<1>2. PICK f : IsConcat(f, s, Len(s)) /\ Concat(s) = f[Len(s)]
  BY <1>1, ConcatFunction, Zenon
<1>3. f[0] = <<>> /\ \A i \in 1 .. Len(s) : f[i] = f[i - 1] \o s[i]
  BY <1>1, <1>2 DEF IsConcat
<1> DEFINE Good(k) == f[k] \in Seq(Arguments) /\ Passed(f[k])
           Bad == {k \in 0 .. Len(s) : ~Good(k)}
<1>4. Good(0)
  <2>1. ASSUME NEW args \in Seq(Arguments) PROVE skipNext(args)[Len(<<>>)] = FALSE
    <3>1. Len(<<>>) = 0
      OBVIOUS
    <3> QED
      BY <3>1, SkipLemma, Zenon
  <2>2. <<>> \in Seq(Arguments) /\ 1 .. Len(<<>>) = {}
    OBVIOUS
  <2>3. Passed(<<>>)
    BY <2>1, <2>2, Zenon DEF Passed
  <2> QED
    BY <1>3, <2>2, <2>3, Zenon
<1>5. Bad = {}
  <2> SUFFICES ASSUME Bad # {} PROVE FALSE
    OBVIOUS
  <2>1. PICK m \in Bad : \A n \in Bad : m <= n
    <3>1. Bad \in SUBSET Nat
      BY <1>1
    <3> HIDE DEF Bad
    <3> QED
      BY <3>1, LeastLemma
  <2>2. m # 0 /\ m \in 0 .. Len(s)
    BY <1>4, <2>1, Zenon
  <2>3. m \in 1 .. Len(s) /\ m - 1 \in 0 .. Len(s) /\ ~(m <= m - 1)
    BY <1>1, <2>2
  <2>4. Good(m - 1)
    BY <2>1, <2>3, Zenon
  <2>5. Good(m)
    BY <1>1, <1>3, <2>3, <2>4, PassedStep, Zenon
  <2> QED
    BY <2>1, <2>5, Zenon
<1> QED
  <2>1. Len(s) \in 0 .. Len(s)
    BY <1>1
  <2> QED
    BY <1>2, <1>5, <2>1, Zenon

\* Two arguments behind others.
LEMMA BehindLemma ==
    ASSUME NEW W, NEW p \in Seq(W), NEW w \in W, NEW x \in W
    PROVE  /\ p \o <<w, x>> \in Seq(W) /\ Len(p) \in Nat /\ Len(p \o <<w, x>>) = Len(p) + 2
           /\ (p \o <<w, x>>)[Len(p) + 1] = w /\ (p \o <<w, x>>)[Len(p) + 2] = x
           /\ \A i \in 1 .. Len(p) : (p \o <<w, x>>)[i] = p[i]
OBVIOUS

\* The argument behind options that are passed over decides.
LEMMA DetectLemma ==
    ASSUME NEW p \in Seq(Arguments), Passed(p), NEW w \in StopWords, NEW x \in Arguments
    PROVE  detectScriptDir(p \o <<w, x>>) =
              IF w = "-f" THEN x ELSE IF w = "--" THEN "cwd" ELSE w
<1> DEFINE args == p \o <<w, x>>
           L == Len(p)
           stop == {i \in DOMAIN args : ~skipNext(args)[i - 1] /\ args[i] \in {"-f", "--", "word", "script"}}
<1>1. /\ args \in Seq(Arguments) /\ L \in Nat /\ StartsWith(args, p) /\ Len(args) = L + 2
      /\ args[L + 1] = w /\ args[(L + 1) + 1] = x /\ L + 1 \in DOMAIN args /\ (L + 1) - 1 = L
      /\ \A i \in DOMAIN args : i \in Int /\ (i \in 1 .. L \/ L + 1 <= i)
  <2>1. w \in Arguments
    BY Zenon DEF StopWords, Arguments
  <2> QED
    BY <2>1, BehindLemma DEF StartsWith
<1> HIDE DEF args, L
<1>2. skipNext(args)[L] = FALSE /\ \A i \in 1 .. L : ~Stops(args, i)
  BY <1>1, Zenon DEF Passed, L
<1>3. L + 1 \in stop
  BY <1>1, <1>2, Zenon DEF StopWords
<1>4. \A i \in stop : L + 1 <= i
  BY <1>1, <1>2, Zenon DEF Stops, StopWords
<1>5. (CHOOSE k \in stop : \A n \in stop : k <= n) = L + 1
  <2>1. \A i \in stop : i \in Int
    BY <1>1, Zenon
  <2>2. ASSUME NEW k \in stop, \A n \in stop : k <= n PROVE k = L + 1
    <3>1. k <= L + 1 /\ L + 1 <= k
      BY <1>3, <1>4, <2>2, Zenon
    <3>2. k \in Int
      BY <2>1, Zenon
    <3> QED
      BY <1>1, <3>1, <3>2
  <2> HIDE DEF stop
  <2> QED
    BY <1>3, <1>4, <2>2, Zenon
<1>6. stop # {}
  BY <1>3, Zenon
<1>7. detectScriptDir(args) = IF stop = {} THEN "cwd"
         ELSE LET i == CHOOSE k \in stop : \A n \in stop : k <= n
              IN  IF args[i] = "-f" THEN args[i + 1] ELSE IF args[i] = "--" THEN "cwd" ELSE args[i]
  BY Zenon DEF detectScriptDir
<1> HIDE DEF stop
<1>8. detectScriptDir(args) =
         IF args[L + 1] = "-f" THEN args[(L + 1) + 1] ELSE IF args[L + 1] = "--" THEN "cwd" ELSE args[L + 1]
  BY <1>5, <1>6, <1>7, Zenon
<1> QED
  BY <1>1, <1>8, Zenon DEF args

\* The script behind any options is found.
LEMMA ScriptLemma ==
    ASSUME machine.opts \in Seq(Options) PROVE ScriptFound
<1> DEFINE opts == Concat(machine.opts)
<1>1. opts \in Seq(Arguments) /\ Passed(opts)
  BY OptionsPassed, Zenon
<1> HIDE DEF opts
<1>0. "script" \in Arguments /\ "word" \in Arguments
  BY Zenon DEF Arguments
<1>2. detectScriptDir(opts \o <<"script", "word">>) = "script"
  BY <1>0, <1>1, DetectLemma, Zenon DEF StopWords
<1>3. detectScriptDir(opts \o <<"-f", "script">>) = "script"
  BY <1>0, <1>1, DetectLemma, Zenon DEF StopWords
<1>4. detectScriptDir(opts \o <<"--", "script">>) = "cwd"
  BY <1>0, <1>1, DetectLemma, Zenon DEF StopWords
<1> QED
  BY <1>2, <1>3, <1>4, Zenon DEF ScriptFound, opts

\* FirstOf gives a file of the list that is there.
LEMMA FirstOfLemma ==
    ASSUME NEW names, NEW files, DOMAIN names \in SUBSET Nat,
           \E i \in DOMAIN names : names[i] \in DOMAIN files
    PROVE  \E i \in DOMAIN names : names[i] \in DOMAIN files /\ FirstOf(names, files) = files[names[i]]
<1> DEFINE found == {i \in DOMAIN names : names[i] \in DOMAIN files}
<1>1. found \in SUBSET Nat /\ found # {}
  BY Zenon
<1>2. \E i \in found : \A j \in found : i <= j
  <2> HIDE DEF found
  <2> QED
    BY <1>1, LeastLemma
<1> DEFINE least == CHOOSE i \in found : \A j \in found : i <= j
<1>3. least \in found
  BY <1>2, Zenon
<1>4. FirstOf(names, files) = files[names[least]]
  BY <1>1, Zenon DEF FirstOf
<1> HIDE DEF least
<1> QED
  BY <1>3, <1>4, Zenon

\* What a tool is run as, by the kind of the file that is found.
RunOf(k) == CASE k = "nix" -> "itself" [] k = "script" -> "php" [] OTHER -> "download"

\* The Composer and the PIE of the project are the ones that are found.
LEMMA OwnToolLemma ==
    ASSUME \A n \in DOMAIN machine.dirs[1] : machine.dirs[1][n] # "none"
    PROVE  OwnToolFirst
<1> DEFINE files == machine.dirs[1]
           named == composerVersion(machine)
           composer == <<named, "composer.phar", "composer">>
           pie == <<"pie.phar", "pie">>
<1>1. /\ DOMAIN composer = 1 .. 3 /\ composer[1] = named /\ composer[2] = "composer.phar" /\ composer[3] = "composer"
      /\ DOMAIN pie = 1 .. 2 /\ pie[1] = "pie.phar" /\ pie[2] = "pie"
      /\ 1 .. 3 = {1, 2, 3} /\ 1 .. 2 = {1, 2} /\ 1 .. 3 \in SUBSET Nat /\ 1 .. 2 \in SUBSET Nat
  OBVIOUS
<1>2. named \in {"composer1", "composer2"}
  BY Zenon DEF composerVersion
<1> HIDE DEF files, named, composer, pie
<1>3. ASSUME ~machine.toolPath, NEW n \in {named, "composer.phar", "composer"} \intersect DOMAIN files
      PROVE  \E k \in {files[x] : x \in {named, "composer.phar", "composer"} \intersect DOMAIN files} :
                Runs(machine, "composer") = RunOf(k)
  <2>1. PICK i \in DOMAIN composer : composer[i] \in DOMAIN files /\ FirstOf(composer, files) = files[composer[i]]
    <3>0. 1 \in DOMAIN composer /\ 2 \in DOMAIN composer /\ 3 \in DOMAIN composer
      BY <1>1, Zenon
    <3>1. \E i \in DOMAIN composer : composer[i] \in DOMAIN files
      <4>1. CASE n = named
        BY <1>1, <1>3, <3>0, <4>1, Zenon
      <4>2. CASE n = "composer.phar"
        BY <1>1, <1>3, <3>0, <4>2, Zenon
      <4>3. CASE n = "composer"
        BY <1>1, <1>3, <3>0, <4>3, Zenon
      <4> QED
        BY <1>3, <4>1, <4>2, <4>3, Zenon
    <3> QED
      BY <1>1, <3>1, FirstOfLemma, Zenon
  <2>2. FirstOf(composer, files) # "none"
    BY <2>1, Zenon DEF files
  <2>3. findComposer(machine) = files[composer[i]]
    BY <2>1, <2>2, Zenon DEF findComposer, composer, files, named
  <2>4. Runs(machine, "composer") = RunOf(files[composer[i]])
    BY <1>3, <2>3, Zenon DEF Runs, RunOf
  <2> QED
    BY <1>1, <2>1, <2>4, Zenon
<1>4. ASSUME ~machine.toolPath, NEW n \in {"pie", "pie.phar"} \intersect DOMAIN files
      PROVE  \E k \in {files[x] : x \in {"pie", "pie.phar"} \intersect DOMAIN files} :
                Runs(machine, "pie") = RunOf(k)
  <2>1. PICK i \in DOMAIN pie : pie[i] \in DOMAIN files /\ FirstOf(pie, files) = files[pie[i]]
    <3>1. \E i \in DOMAIN pie : pie[i] \in DOMAIN files
      BY <1>1, <1>4, ZenonT(60)
    <3> QED
      BY <1>1, <3>1, FirstOfLemma, Zenon
  <2>2. FirstOf(pie, files) # "none"
    BY <2>1, Zenon DEF files
  <2>3. findPie(machine) = files[pie[i]]
    BY <2>1, <2>2, Zenon DEF findPie, pie, files
  <2>4. Runs(machine, "pie") = RunOf(files[pie[i]])
    BY <1>4, <2>3, Zenon DEF Runs, RunOf
  <2> QED
    BY <1>1, <2>1, <2>4, Zenon
<1>5. {"composer1", "composer2", "composer.phar", "composer"} \ ({"composer1", "composer2"} \ {named})
         = {named, "composer.phar", "composer"}
  BY <1>2, Zenon
<1> QED
  BY <1>3, <1>4, <1>5, ZenonT(60) DEF OwnToolFirst, RunOf, files, named

\* Leaves that need arithmetic or fields of records cite SMT.
USE Zenon

-----------------------------------------------------------------------------
(* The Upsun binary.                                                       *)

InstSpec == InstInit /\ [][InstNext]_instVars

Shape ==
    /\ release \in Nat /\ bin \in [{1, 2} -> Nat]
    /\ check \in [state : {"none", "broken", "valid"}, version : Nat, recent : BOOLEAN]
    /\ inst \in [Installers -> [pc : {"idle", "start", "touch", "compare", "latest", "first",
                                      "second", "store", "run"}, asset : Nat, known : Nat]]
    /\ overlap \in BOOLEAN

\* No half of the binary is newer than the latest release.
Released == bin[1] <= release /\ bin[2] <= release

\* A command that downloads has a version at least as new as what it writes
\* over; the halves it has written are its own.
Download(p) ==
    /\ inst[p].pc = "first" => bin[1] <= inst[p].asset /\ bin[2] <= inst[p].asset
    /\ inst[p].pc = "second" => bin[1] = inst[p].asset /\ bin[2] <= inst[p].asset
    /\ inst[p].pc = "store" => bin[1] = inst[p].asset /\ bin[2] = inst[p].asset
    /\ inst[p].asset <= release

\* What a command read of the record stays true of the binary until it
\* writes the record again.
Known(p) == inst[p].pc = "touch" => inst[p].known <= bin[1] /\ inst[p].known <= bin[2]

InstInv ==
    /\ Shape /\ Released
    /\ \A p \in Installers : inst[p].asset <= release
    /\ ~overlap => \A p \in Installers : Download(p) /\ Known(p)
    /\ RecordNotNewer

\* A command that changes neither the binary nor the record, and does not
\* start a download.
LEMMA QuietStep ==
    ASSUME InstInv, NEW p \in Installers, NEW pc \in {"idle", "start", "compare", "latest", "run"},
           NEW asset \in Nat, NEW known \in Nat, Becomes(p, pc, asset, known), asset <= release,
           UNCHANGED <<release, bin, overlap>>,
           check' \in [state : {"none", "broken", "valid"}, version : Nat, recent : BOOLEAN],
           check'.state = "valid" /\ ~overlap => check'.version <= bin[1] /\ check'.version <= bin[2]
    PROVE  InstInv'
<1>1. Shape'
  BY DEF InstInv, Shape, Becomes
<1> QED
  BY <1>1, ZenonT(60) DEF InstInv, Shape, Released, Download, Known, RecordNotNewer, Becomes

\* Writing the record with a version that both halves have reached.
LEMMA WriteCheckLemma ==
    ASSUME InstInv, NEW v \in Nat, WriteCheck(v), ~overlap => v <= bin[1] /\ v <= bin[2]
    PROVE  /\ check' \in [state : {"none", "broken", "valid"}, version : Nat, recent : BOOLEAN]
           /\ check'.state = "valid" /\ ~overlap => check'.version <= bin[1] /\ check'.version <= bin[2]
<1>1. CASE check' = [state |-> "valid", version |-> v, recent |-> TRUE]
  BY <1>1
<1>2. CASE check' = [check EXCEPT !.state = "broken"]
  BY <1>2 DEF InstInv, Shape
<1>3. CASE UNCHANGED check
  BY <1>3 DEF InstInv, Shape, RecordNotNewer
<1> QED
  BY <1>1, <1>2, <1>3 DEF WriteCheck

\* Writing one half of the binary.
LEMMA WriteStep ==
    ASSUME InstInv, NEW p \in Installers, ExtractFirst(p) \/ ExtractSecond(p)
    PROVE  InstInv'
<1>1. PICK half \in {1, 2} : WriteHalf(p, IF half = 1 THEN "first" ELSE "second", half,
                                       IF half = 1 THEN "second" ELSE "store")
  BY SMTT(30) DEF ExtractFirst, ExtractSecond
<1>2. CASE bin' = bin
  BY <1>1, <1>2, SMTT(30) DEF WriteHalf, InstInv, Shape, Released, Download, Known, RecordNotNewer, GoTo, Becomes, Writing
<1>3. CASE bin' = [bin EXCEPT ![half] = inst[p].asset] /\ GoTo(p, IF half = 1 THEN "second" ELSE "store")
  <2>1. Shape' /\ Released'
    BY <1>1, <1>3 DEF WriteHalf, InstInv, Shape, Released, GoTo, Becomes
  <2>2. overlap' \/ (~overlap /\ \A q \in Installers \ {p} : ~Writing(q))
    BY <1>1 DEF WriteHalf, InstInv, Shape
  <2>3. ~overlap' => Download(p)' /\ bin[1] <= bin'[1] /\ bin[2] <= bin'[2]
    BY <1>1, <1>3, <2>2, SMTT(30) DEF WriteHalf, InstInv, Shape, Released, Download, GoTo, Becomes
  <2> QED
    BY <1>1, <1>3, <2>1, <2>2, <2>3, SMTT(30) DEF WriteHalf, InstInv, Shape, Released, Download, Known, RecordNotNewer, GoTo, Becomes, Writing
<1> QED
  BY <1>1, <1>2, <1>3 DEF WriteHalf

\* Every step keeps the invariant.
LEMMA InstStep ==
    ASSUME InstInv, [InstNext]_instVars
    PROVE  InstInv'
<1> USE DEF InstInv, Shape
<1>1. ASSUME NEW p \in Installers, getPath(p) PROVE InstInv'
  BY <1>1, QuietStep, SMTT(30) DEF getPath, GoTo, Becomes, Idle, RecordNotNewer
<1>2. ASSUME NEW p \in Installers, StatBin(p) PROVE InstInv'
  <2>1. CASE bin = NoBin
    BY <1>2, <2>1, QuietStep, SMTT(30) DEF StatBin, GoTo, RecordNotNewer
  <2>2. CASE bin # NoBin /\ check.state # "valid"
    BY <1>2, <2>2, QuietStep, ZenonT(60) DEF StatBin, GoTo
  <2>3. CASE bin # NoBin /\ check.state = "valid"
    BY <1>2, <2>3, SMTT(30) DEF StatBin, Becomes, Released, Download, Known, RecordNotNewer
  <2> QED
    BY <2>1, <2>2, <2>3, ZenonT(60)
<1>3. ASSUME NEW p \in Installers, Touch(p) PROVE InstInv'
  <2>1. WriteCheck(inst[p].known) /\ inst[p].known \in Nat /\ inst[p].asset \in Nat
    BY <1>3 DEF Touch
  <2>2. ~overlap => inst[p].known <= bin[1] /\ inst[p].known <= bin[2]
    BY <1>3 DEF Touch, Known
  <2> QED
    BY <1>3, <2>1, <2>2, QuietStep, WriteCheckLemma DEF Touch, GoTo
<1>4. ASSUME NEW p \in Installers, Compare(p) PROVE InstInv'
  BY <1>4, QuietStep, ZenonT(60) DEF Compare, GoTo, RecordNotNewer
<1>5. ASSUME NEW p \in Installers, getLatestVersion(p) PROVE InstInv'
  <2>1. CASE GoTo(p, "run")
    BY <1>5, <2>1, QuietStep, ZenonT(60) DEF getLatestVersion, GoTo, RecordNotNewer
  <2>2. CASE Becomes(p, "first", release, inst[p].known)
    BY <1>5, <2>2, SMTT(30) DEF getLatestVersion, Becomes, Released, Download, Known, RecordNotNewer
  <2> QED
    BY <1>5, <2>1, <2>2 DEF getLatestVersion
<1>6. ASSUME NEW p \in Installers, ExtractFirst(p) \/ ExtractSecond(p) PROVE InstInv'
  BY <1>6, WriteStep
<1>7. ASSUME NEW p \in Installers, StoreVersion(p) PROVE InstInv'
  <2>1. WriteCheck(inst[p].asset) /\ inst[p].known \in Nat /\ inst[p].asset \in Nat
    BY <1>7 DEF StoreVersion
  <2>2. ~overlap => inst[p].asset <= bin[1] /\ inst[p].asset <= bin[2]
    BY <1>7, <2>1, SMTT(30) DEF StoreVersion, Download
  <2> QED
    BY <1>7, <2>1, <2>2, QuietStep, WriteCheckLemma DEF StoreVersion, GoTo
<1>8. ASSUME NEW p \in Installers, Cancel(p) PROVE InstInv'
  <2>1. Becomes(p, "idle", 0, 0) /\ UNCHANGED <<release, bin, check, overlap>>
    BY <1>8 DEF Cancel, Idle, Becomes
  <2> QED
    BY <2>1, QuietStep, SMTT(30) DEF RecordNotNewer
<1>9. CASE DayPasses
  BY <1>9 DEF DayPasses, Released, Download, Known, RecordNotNewer
<1>10. CASE Release
  BY <1>10, SMTT(30) DEF Release, Released, Download, Known, RecordNotNewer
<1>11. CASE UNCHANGED instVars
  BY <1>11 DEF instVars, Released, Download, Known, RecordNotNewer
<1> QED
  BY <1>1, <1>2, <1>3, <1>4, <1>5, <1>6, <1>7, <1>8, <1>9, <1>10, <1>11, ZenonT(60) DEF InstNext

\* The record is never newer than a part of the binary, unless two commands
\* wrote it at the same time.
THEOREM RecordNotNewerAlways == InstSpec => []RecordNotNewer
<1>1. ASSUME InstInit PROVE InstInv
  <2>1. bin \in [{1, 2} -> Nat] /\ bin[1] = 0 /\ bin[2] = 0
    BY <1>1 DEF InstInit, NoBin
  <2>2. Shape
    BY <1>1, <2>1 DEF InstInit, Idle, Shape
  <2>3. \A p \in Installers : inst[p].pc = "idle" /\ inst[p].asset = 0
    BY <1>1 DEF InstInit, Idle
  <2> QED
    BY <1>1, <2>1, <2>2, <2>3, SMTT(30) DEF InstInit, InstInv, Released, Download, Known, RecordNotNewer
<1>2. InstInv => RecordNotNewer
  BY DEF InstInv
<1> QED
  BY <1>1, <1>2, InstStep, PTL DEF InstSpec

-----------------------------------------------------------------------------
(* Composer and PIE.                                                       *)

ToolSpec == (\E m : ToolInit(m, "find")) /\ [][ToolNext]_toolVars

ToolShape ==
    /\ DOMAIN dl = Users /\ DOMAIN phar = {"composer", "pie"}
    /\ setup \in {"none", "partial", "good"} /\ phar.composer \in {"none", "good"}
    /\ \A u \in Users :
         /\ DOMAIN dl[u] = {"pc", "tool", "got", "ran"} /\ dl[u].tool \in {"composer", "pie"}
         /\ dl[u].pc \in {"check", "setup", "chmod", "remove"} => dl[u].tool = "composer"

\* What is written was checked, so what runs was; and an installer that is
\* not there, or not complete, is one that another command removed, once it
\* had made a Composer of it, or is writing.
DownloadInv ==
    /\ OnlyVerified
    /\ \A u \in Users :
         /\ dl[u].tool = "composer" /\ dl[u].pc \in {"write", "close"} => dl[u].got = "good"
         /\ dl[u].pc = "check" => dl[u].got = "good" \/ trouble
         /\ dl[u].pc = "remove" \/ (dl[u].pc = "run" /\ dl[u].tool = "composer") => phar.composer # "none"
         /\ dl[u].pc = "setup" /\ phar.composer = "none" => setup # "none" \/ trouble
    /\ setup = "partial" => \E u \in Users : dl[u].tool = "composer" /\ dl[u].pc = "close"

\* A command that will make a Composer, unless the network fails it.
Hopeful(u) ==
    \/ dl[u].pc \in {"find", "stat", "get", "check", "write", "close"}
    \/ dl[u].pc = "setup" /\ setup = "good"

HopeInv ==
    ~trouble /\ (\A u \in Users : dl[u].tool = "composer") /\ Runs(machine, "composer") = "download"
        => phar.composer = "good" \/ \E u \in Users : Hopeful(u)

ToolInv == ToolShape /\ DownloadInv /\ HopeInv

\* The fields of a command after its step, and the other commands.
Moves(u, pc, got, ran) ==
    /\ DOMAIN dl' = Users /\ \A v \in Users \ {u} : dl'[v] = dl[v]
    /\ DOMAIN dl'[u] = DOMAIN dl[u] /\ dl'[u].tool = dl[u].tool
    /\ dl'[u].pc = pc /\ dl'[u].got = got /\ dl'[u].ran = ran

LEMMA ToLemma ==
    ASSUME ToolShape, NEW u \in Users, NEW pc, To(u, pc)
    PROVE  Moves(u, pc, dl[u].got, dl[u].ran)
BY DEF ToolShape, To, Moves

\* The part of the invariant that is about one command.
DownloadOf(u) ==
    /\ dl[u].pc \in {"check", "setup", "chmod", "remove"} => dl[u].tool = "composer"
    /\ dl[u].tool = "composer" => dl[u].ran # "bad"
    /\ dl[u].tool = "composer" /\ dl[u].pc \in {"write", "close"} => dl[u].got = "good"
    /\ dl[u].pc = "check" => dl[u].got = "good" \/ trouble
    /\ dl[u].pc = "remove" \/ (dl[u].pc = "run" /\ dl[u].tool = "composer") => phar.composer # "none"
    /\ dl[u].pc = "setup" /\ phar.composer = "none" => setup # "none" \/ trouble

\* A step of one command: it may take the installer away only when there is a
\* Composer, and leaves the hope to another command or has made a Composer.
LEMMA OneDownload ==
    ASSUME ToolInv, NEW u \in Users, NEW pc, NEW got, NEW ran, Moves(u, pc, got, ran), UNCHANGED machine,
           DOMAIN phar' = {"composer", "pie"}, phar'.composer \in {"none", "good"},
           setup' \in {"none", "partial", "good"}, trouble => trouble',
           phar.composer = "good" => phar'.composer = "good",
           setup # "none" => setup' # "none" \/ phar'.composer # "none",
           DownloadOf(u)',
           setup' = "partial" => \/ dl[u].tool = "composer" /\ pc = "close"
                                 \/ setup = "partial" /\ ~(dl[u].tool = "composer" /\ dl[u].pc = "close"),
           \/ trouble' \/ phar'.composer = "good" \/ Hopeful(u)'
           \/ ~Hopeful(u) /\ setup' = setup
           \/ dl[u].tool # "composer" \/ Runs(machine, "composer") # "download"
    PROVE  ToolInv'
<1>1. ToolShape'
  BY ZenonT(60) DEF ToolInv, ToolShape, Moves, DownloadOf
<1>2. ASSUME NEW v \in Users PROVE DownloadOf(v)'
  BY SMT DEF ToolInv, ToolShape, DownloadInv, OnlyVerified, Moves, DownloadOf
<1>3. setup' = "partial" => \E v \in Users : dl'[v].tool = "composer" /\ dl'[v].pc = "close"
  BY DEF ToolInv, DownloadInv, Moves
<1>4. DownloadInv'
  BY <1>2, <1>3 DEF DownloadInv, OnlyVerified, DownloadOf
<1>5. HopeInv'
  <2> SUFFICES ASSUME ~trouble', \A v \in Users : dl'[v].tool = "composer",
                      Runs(machine, "composer") = "download", phar'.composer # "good"
               PROVE  \E v \in Users : Hopeful(v)'
    BY DEF HopeInv
  <2>1. \A v \in Users : dl[v].tool = "composer"
    BY DEF Moves
  <2>2. PICK v \in Users : Hopeful(v)
    BY <2>1 DEF ToolInv, HopeInv
  <2>3. CASE Hopeful(u)'
    BY <2>3
  <2>4. CASE ~Hopeful(u) /\ setup' = setup
    BY <2>2, <2>4 DEF Hopeful, Moves
  <2> QED
    BY <2>1, <2>3, <2>4
<1> QED
  BY <1>1, <1>4, <1>5 DEF ToolInv

LEMMA DownloadStep ==
    ASSUME ToolInv, NEW u \in Users,
           Find(u) \/ StatPhar(u) \/ Get(u) \/ Check(u) \/ WriteFile(u) \/ CloseFile(u)
    PROVE  ToolInv'
<1>0. /\ ToolShape /\ DownloadOf(u) /\ dl[u].tool \in {"composer", "pie"}
      /\ DOMAIN phar = {"composer", "pie"} /\ DOMAIN dl = Users /\ DOMAIN dl[u] = {"pc", "tool", "got", "ran"}
  BY DEF ToolInv, ToolShape, DownloadInv, OnlyVerified, DownloadOf
<1>1. CASE Find(u)
  <2>1. PICK pc \in {"stat", "done"} : To(u, pc) /\ (pc = "done" => Runs(machine, dl[u].tool) # "download")
    BY <1>1 DEF Find
  <2>2. Moves(u, pc, dl[u].got, dl[u].ran)
    BY <1>0, <2>1, ToLemma
  <2>3. UNCHANGED <<machine, setup, phar, trouble>> /\ DownloadOf(u)'
    BY <1>0, <1>1, <2>2 DEF Find, DownloadOf, Moves
  <2>4. Hopeful(u)' \/ dl[u].tool # "composer" \/ Runs(machine, "composer") # "download"
    BY <1>0, <2>1, <2>2 DEF Hopeful, Moves
  <2>5. setup = "partial" => dl[u].pc # "close"
    BY <1>1 DEF Find
  <2> QED
    BY <1>0, <2>2, <2>3, <2>4, <2>5, OneDownload DEF ToolShape
<1>2. CASE StatPhar(u)
  <2>1. PICK pc \in {"run", "get"} : To(u, pc) /\ (pc = "run" => phar[dl[u].tool] # "none")
    BY <1>2 DEF StatPhar
  <2>2. Moves(u, pc, dl[u].got, dl[u].ran)
    BY <1>0, <2>1, ToLemma
  <2>3. UNCHANGED <<machine, setup, phar, trouble>> /\ DownloadOf(u)'
    BY <1>0, <1>2, <2>1, <2>2 DEF StatPhar, DownloadOf, Moves
  <2>4. Hopeful(u)' \/ dl[u].tool # "composer" \/ phar.composer = "good"
    BY <1>0, <2>1, <2>2 DEF Hopeful, Moves, ToolShape
  <2>5. setup = "partial" => dl[u].pc # "close"
    BY <1>2 DEF StatPhar
  <2> QED
    BY <1>0, <2>2, <2>3, <2>4, <2>5, OneDownload, ZenonT(60) DEF ToolShape
<1>3. CASE Get(u)
  <2>1. CASE To(u, "failed") /\ trouble' = TRUE
    <3>1. Moves(u, "failed", dl[u].got, dl[u].ran)
      BY <1>0, <2>1, ToLemma
    <3>2. UNCHANGED <<machine, setup, phar>> /\ DownloadOf(u)' /\ dl[u].pc # "close"
      BY <1>0, <1>3, <3>1 DEF Get, DownloadOf, Moves
    <3> QED
      BY <1>0, <2>1, <3>1, <3>2, OneDownload, ZenonT(60) DEF ToolShape
  <2>2. ASSUME NEW got \in {"good", "bad"}, trouble' = (trouble \/ got = "bad"),
               dl' = [dl EXCEPT ![u].got = got, ![u].pc = IF dl[u].tool = "composer" THEN "check" ELSE "write"]
        PROVE  ToolInv'
    <3>1. PICK pc : pc = IF dl[u].tool = "composer" THEN "check" ELSE "write"
      OBVIOUS
    <3>2. Moves(u, pc, got, dl[u].ran)
      BY <1>0, <2>2, <3>1 DEF Moves
    <3>3. UNCHANGED <<machine, setup, phar>> /\ dl[u].pc # "close"
      BY <1>3 DEF Get
    <3>4. got = "good" \/ trouble'
      BY <2>2
    <3>5. DownloadOf(u)' /\ Hopeful(u)'
      BY <1>0, <3>1, <3>2, <3>3, <3>4, ZenonT(60) DEF DownloadOf, Moves, Hopeful
    <3>6. trouble => trouble'
      BY <2>2
    <3> QED
      BY <1>0, <3>2, <3>3, <3>5, <3>6, OneDownload, ZenonT(60) DEF ToolShape
  <2> QED
    BY <1>3, <2>1, <2>2 DEF Get
<1>4. CASE Check(u)
  <2>1. PICK pc \in {"write", "failed"} : To(u, pc) /\ (pc = "write" <=> dl[u].got = "good")
    BY <1>4 DEF Check
  <2>2. Moves(u, pc, dl[u].got, dl[u].ran)
    BY <1>0, <2>1, ToLemma
  <2>3. UNCHANGED <<machine, setup, phar, trouble>> /\ DownloadOf(u)'
    BY <1>0, <1>4, <2>1, <2>2 DEF Check, DownloadOf, Moves
  <2>4. Hopeful(u)' \/ trouble
    BY <1>0, <1>4, <2>1, <2>2 DEF Check, Hopeful, Moves, DownloadOf
  <2>5. setup = "partial" => dl[u].pc # "close"
    BY <1>4 DEF Check
  <2> QED
    BY <1>0, <2>2, <2>3, <2>4, <2>5, OneDownload, ZenonT(60) DEF ToolShape
<1>5. CASE WriteFile(u)
  <2>1. CASE To(u, "close") /\ Store(u, "partial") /\ UNCHANGED trouble
    <3>1. Moves(u, "close", dl[u].got, dl[u].ran)
      BY <1>0, <2>1, ToLemma
    <3>2. /\ UNCHANGED <<machine, trouble>> /\ dl[u].pc = "write"
          /\ DOMAIN phar' = {"composer", "pie"} /\ phar'.composer = phar.composer
          /\ IF dl[u].tool = "composer" THEN setup' = "partial" ELSE setup' = setup
      BY <1>0, <1>5, <2>1 DEF WriteFile, Store
    <3>3. DownloadOf(u)' /\ Hopeful(u)'
      BY <1>0, <3>1, <3>2 DEF DownloadOf, Moves, Hopeful
    <3> QED
      BY <1>0, <3>1, <3>2, <3>3, OneDownload, ZenonT(60) DEF ToolShape
  <2>2. CASE /\ To(u, IF dl[u].tool = "composer" THEN "setup" ELSE "failed")
             /\ trouble' = TRUE /\ UNCHANGED <<setup, phar>>
    <3>1. PICK pc \in {"setup", "failed"} : To(u, pc) /\ (pc = "setup" => dl[u].tool = "composer")
      BY <2>2
    <3>2. Moves(u, pc, dl[u].got, dl[u].ran)
      BY <1>0, <3>1, ToLemma
    <3>3. UNCHANGED machine /\ DownloadOf(u)' /\ dl[u].pc = "write"
      BY <1>0, <1>5, <2>2, <3>1, <3>2, ZenonT(60) DEF WriteFile, DownloadOf, Moves
    <3> QED
      BY <1>0, <2>2, <3>2, <3>3, OneDownload DEF ToolShape
  <2> QED
    BY <1>5, <2>1, <2>2 DEF WriteFile
<1>6. CASE CloseFile(u)
  <2>1. PICK pc : pc = (IF dl[u].tool = "composer" THEN "setup" ELSE "run") /\ To(u, pc)
    BY <1>6 DEF CloseFile
  <2>2. Moves(u, pc, dl[u].got, dl[u].ran)
    BY <1>0, <2>1, ToLemma
  <2>3. /\ UNCHANGED <<machine, trouble>> /\ dl[u].pc = "close"
        /\ DOMAIN phar' = {"composer", "pie"} /\ phar'.composer = phar.composer
        /\ IF dl[u].tool = "composer" THEN setup' = "good" ELSE setup' = setup
    BY <1>0, <1>6 DEF CloseFile, Store, DownloadOf
  <2>4. DownloadOf(u)' /\ (Hopeful(u)' \/ dl[u].tool # "composer")
    BY <1>0, <2>1, <2>2, <2>3, ZenonT(60) DEF DownloadOf, Moves, Hopeful
  <2> QED
    BY <1>0, <2>2, <2>3, <2>4, OneDownload, ZenonT(60) DEF ToolShape
<1> QED
  BY <1>1, <1>2, <1>3, <1>4, <1>5, <1>6, ZenonT(60)

LEMMA InstallStep ==
    ASSUME ToolInv, NEW u \in Users, RunSetup(u) \/ Chmod(u) \/ RemoveSetup(u) \/ Run(u)
    PROVE  ToolInv'
<1>0. /\ ToolShape /\ DownloadOf(u) /\ dl[u].tool \in {"composer", "pie"}
      /\ DOMAIN phar = {"composer", "pie"} /\ DOMAIN dl = Users /\ DOMAIN dl[u] = {"pc", "tool", "got", "ran"}
      /\ setup \in {"none", "partial", "good"} /\ phar.composer \in {"none", "good"}
  BY DEF ToolInv, ToolShape, DownloadInv, OnlyVerified, DownloadOf
<1>1. CASE RunSetup(u)
  <2>1. PICK pc : /\ pc = (IF setup = "none" THEN "failed" ELSE "chmod")
                  /\ dl' = [dl EXCEPT ![u].ran = setup, ![u].pc = pc]
    BY <1>1 DEF RunSetup
  <2>2. Moves(u, pc, dl[u].got, setup)
    BY <1>0, <2>1 DEF Moves
  <2>3. /\ UNCHANGED <<machine, setup, trouble>> /\ dl[u].pc = "setup" /\ DOMAIN phar' = {"composer", "pie"}
        /\ phar'.composer = IF setup = "good" THEN "good" ELSE phar.composer
    BY <1>0, <1>1 DEF RunSetup
  <2>4. DownloadOf(u)' /\ (phar'.composer = "good" \/ ~Hopeful(u))
    BY <1>0, <2>1, <2>2, <2>3 DEF DownloadOf, Moves, Hopeful
  <2> QED
    BY <1>0, <2>2, <2>3, <2>4, OneDownload, ZenonT(60)
<1>2. CASE Chmod(u)
  <2>1. PICK pc \in {"failed", "remove"} : To(u, pc) /\ (pc = "remove" => phar.composer # "none")
    BY <1>2 DEF Chmod
  <2>2. Moves(u, pc, dl[u].got, dl[u].ran)
    BY <1>0, <2>1, ToLemma
  <2>3. UNCHANGED <<machine, setup, phar, trouble>> /\ dl[u].pc = "chmod"
    BY <1>2 DEF Chmod
  <2>4. DownloadOf(u)' /\ ~Hopeful(u)
    BY <1>0, <2>1, <2>2, <2>3 DEF DownloadOf, Moves, Hopeful
  <2> QED
    BY <1>0, <2>2, <2>3, <2>4, OneDownload, ZenonT(60)
<1>3. CASE RemoveSetup(u)
  <2>1. PICK pc \in {"failed", "run"} : To(u, pc)
    BY <1>3 DEF RemoveSetup
  <2>2. Moves(u, pc, dl[u].got, dl[u].ran)
    BY <1>0, <2>1, ToLemma
  <2>3. UNCHANGED <<machine, phar, trouble>> /\ setup' = "none" /\ dl[u].pc = "remove"
    BY <1>3 DEF RemoveSetup
  <2>4. DownloadOf(u)' /\ phar.composer = "good"
    BY <1>0, <2>1, <2>2, <2>3 DEF DownloadOf, Moves
  <2> QED
    BY <1>0, <2>2, <2>3, <2>4, OneDownload, ZenonT(60)
<1>4. CASE Run(u)
  <2>1. Moves(u, "done", dl[u].got, phar[dl[u].tool])
    BY <1>0, <1>4 DEF Run, Moves
  <2>2. UNCHANGED <<machine, setup, phar, trouble>> /\ dl[u].pc = "run"
    BY <1>4 DEF Run
  <2>3. DownloadOf(u)' /\ ~Hopeful(u)
    BY <1>0, <2>1, <2>2 DEF DownloadOf, Moves, Hopeful
  <2> QED
    BY <1>0, <2>1, <2>2, <2>3, OneDownload, ZenonT(60)
<1> QED
  BY <1>1, <1>2, <1>3, <1>4

LEMMA ToolInvariant == ToolSpec => []ToolInv
<1>1. (\E m : ToolInit(m, "find")) => ToolInv
  <2> SUFFICES ASSUME NEW m, ToolInit(m, "find") PROVE ToolInv
    OBVIOUS
  <2>1. /\ DOMAIN dl = Users /\ setup = "none" /\ ~trouble
        /\ DOMAIN phar = {"composer", "pie"} /\ phar.composer = "none"
    BY DEF ToolInit
  <2>2. ASSUME NEW u \in Users
        PROVE  /\ DOMAIN dl[u] = {"pc", "tool", "got", "ran"} /\ dl[u].pc = "find"
               /\ dl[u].tool \in {"composer", "pie"} /\ dl[u].ran = "none"
    BY DEF ToolInit
  <2>3. ToolShape
    BY <2>1, <2>2 DEF ToolShape
  <2>4. DownloadInv
    BY <2>1, <2>2 DEF DownloadInv, OnlyVerified
  <2>5. HopeInv
    BY <2>2, UsersAssumption DEF HopeInv, Hopeful
  <2> QED
    BY <2>3, <2>4, <2>5 DEF ToolInv
<1>2. ToolInv /\ [ToolNext]_toolVars => ToolInv'
  <2> SUFFICES ASSUME ToolInv, [ToolNext]_toolVars PROVE ToolInv'
    OBVIOUS
  <2>1. CASE UNCHANGED toolVars
    BY <2>1, ZenonT(60) DEF toolVars, ToolInv, ToolShape, DownloadInv, OnlyVerified, HopeInv, Hopeful
  <2> QED
    BY <2>1, DownloadStep, InstallStep DEF ToolNext
<1> QED
  BY <1>1, <1>2, PTL DEF ToolSpec

(***************************************************************************)
(* However many commands download Composer at the same time, over the same *)
(* composer-setup.php, none runs an installer that was not verified.       *)
(***************************************************************************)
THEOREM OnlyVerifiedAlways == ToolSpec => []OnlyVerified
<1>1. ToolInv => OnlyVerified
  BY DEF ToolInv, DownloadInv
<1> QED
  BY <1>1, ToolInvariant, PTL

(***************************************************************************)
(* Concurrent downloads of Composer do not all fail each other: without a  *)
(* failure of the network or the disk, there is a Composer at the end.     *)
(***************************************************************************)
THEOREM SomeoneSucceedsAlways == ToolSpec => []SomeoneSucceeds
<1>1. ToolInv => SomeoneSucceeds
  BY DEF ToolInv, HopeInv, Hopeful, SomeoneSucceeds
<1> QED
  BY <1>1, ToolInvariant, PTL

\* A machine: its options are ones, and its files are of some kind.
IsMachine(m) ==
    m.opts \in Seq(Options) /\ \A n \in DOMAIN m.dirs[1] : m.dirs[1][n] # "none"

(***************************************************************************)
(* What a command runs is the right script, Composer or PIE, for any list  *)
(* of options before the script and any files of the project, and what is  *)
(* downloaded meanwhile is verified and there.                             *)
(***************************************************************************)
THEOREM ToolSoundAlways == ToolSpec /\ IsMachine(machine) => []ToolSound
<1>1. IsMachine(machine) /\ [ToolNext]_toolVars => IsMachine(machine)'
  BY Zenon DEF toolVars, ToolNext, Find, StatPhar, Get, Check, WriteFile, CloseFile, RunSetup,
               Chmod, RemoveSetup, Run
<1>2. IsMachine(machine) => ScriptFound /\ OwnToolFirst
  BY ScriptLemma, OwnToolLemma, Zenon DEF IsMachine
<1>3. ScriptFound /\ OwnToolFirst /\ OnlyVerified /\ SomeoneSucceeds => ToolSound
  BY Zenon DEF ToolSound
<1> QED
  BY <1>1, <1>2, <1>3, OnlyVerifiedAlways, SomeoneSucceedsAlways, PTL DEF ToolSpec

=============================================================================
