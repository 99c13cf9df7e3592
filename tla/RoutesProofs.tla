---------------------------- MODULE RoutesProofs ----------------------------
(***************************************************************************)
(* The addresses that the proxy serves, for any number of commands,        *)
(* requests, directories and domains, and the routes and variables of a    *)
(* project in the cloud, for all routes, relationships and .env files.     *)
(***************************************************************************)
EXTENDS Proxy, RemoteEnv, FiniteSetTheorems, WellFoundedInduction, TLAPS

Less == {p \in Nat \X Nat : p[1] < p[2]}

\* A set of numbers that is not empty has a least one.
LEMMA LeastLemma ==
    ASSUME NEW S \in SUBSET Nat, S # {}
    PROVE  \E m \in S : \A n \in S : m <= n
<1>1. IsWellFoundedOn(Less, Nat)
  BY NatLessThanWellFounded DEF OpToRel, Less
<1>2. PICK m \in S : \A n \in S : <<n, m>> \notin Less
  BY <1>1, WFMin, Zenon
<1>3. \A n \in S : ~(n < m)
  <2> SUFFICES ASSUME NEW n \in S, n < m PROVE FALSE
    OBVIOUS
  <2>1. <<n, m>> \in Nat \X Nat
    OBVIOUS
  <2>2. <<n, m>> \in Less
    BY <2>1 DEF Less
  <2> QED
    BY <1>2, <2>2
<1>4. m \in Nat /\ \A n \in S : n \in Nat
  OBVIOUS
<1> QED
  BY <1>2, <1>3, <1>4

\* One whose numbers are bounded has a greatest one.
LEMMA GreatestLemma ==
    ASSUME NEW S \in SUBSET Nat, S # {}, NEW b \in Nat, \A n \in S : n <= b
    PROVE  \E m \in S : \A n \in S : n <= m
<1> DEFINE D == {k \in Nat : b - k \in S}
<1>1. \A n \in S : b - n \in Nat /\ b - (b - n) = n
  OBVIOUS
<1>2. \A n \in S : b - n \in D
  BY <1>1
<1>3. D \in SUBSET Nat /\ D # {}
  BY <1>2, Zenon
<1> HIDE DEF D
<1>4. PICK k \in D : \A n \in D : k <= n
  BY <1>3, LeastLemma
<1>5. k \in Nat /\ b - k \in S
  BY <1>4 DEF D
<1>6. \A n \in S : k <= b - n
  BY <1>2, <1>4
<1>7. \A n \in S : n <= b - k
  BY <1>1, <1>5, <1>6
<1> QED
  BY <1>5, <1>7

\* A name under the TLD loses it again.
LEMMA WithoutLemma ==
    ASSUME NEW conf, NEW name \in Names
    PROVE  domainWithoutTLD(conf, FQDN(conf, name)) = name
<1> DEFINE host == Append(name, conf.tld)
<1>1. name \in Seq(Labels \cup {"*"}) /\ name # <<>>
  BY DEF Names
<1>2. Len(name) \in Nat /\ Len(name) > 0 /\ Len(host) = Len(name) + 1 /\ host[Len(name) + 1] = conf.tld
  BY <1>1
<1>3. SubSeq(host, 1, Len(name)) = name
  BY <1>1, <1>2
<1>4. Len(host) - 1 = Len(name) /\ Len(host) > 1 /\ host[Len(host)] = conf.tld
  BY <1>2
<1> HIDE DEF host
<1>5. domainWithoutTLD(conf, host) = SubSeq(host, 1, Len(name))
  BY <1>4 DEF domainWithoutTLD
<1> QED
  BY <1>3, <1>5 DEF FQDN, host

\* Of the wildcards that match a name, one is the longest.
LEMMA LongestLemma ==
    ASSUME NEW conf, NEW name \in Names, \A n \in DOMAIN conf.domains : n \in Names,
           GlobsOf(conf, name) # {}
    PROVE  /\ LongestMatch(conf, name) \in GlobsOf(conf, name)
           /\ \A e \in GlobsOf(conf, name) : Len(e) <= Len(LongestMatch(conf, name))
<1> DEFINE G == GlobsOf(conf, name)  L == {Len(d) : d \in G}
<1>1. \A d \in G : Len(d) \in Nat /\ Len(d) <= Len(name)
  BY DEF GlobsOf, GlobMatches, Names
<1>2. Len(name) \in Nat
  BY DEF Names
<1> HIDE DEF G
<1>3. L \in SUBSET Nat /\ L # {} /\ \A n \in L : n <= Len(name)
  BY <1>1, Zenon DEF G
<1>4. PICK m \in L : \A n \in L : n <= m
  <2> HIDE DEF L
  <2> QED
    BY <1>2, <1>3, GreatestLemma, Zenon
<1>5. \E d \in G : \A e \in G : Len(e) <= Len(d)
  BY <1>4
<1> QED
  BY <1>5 DEF LongestMatch, G

\* Two wildcards of one length that match a name are the same.
LEMMA SameGlobLemma ==
    ASSUME NEW name \in Names, NEW e \in Names, NEW f \in Names,
           GlobMatches(e, name), GlobMatches(f, name), Len(e) = Len(f)
    PROVE  e = f
<1>1. e \in Seq(Labels \cup {"*"}) /\ f \in Seq(Labels \cup {"*"})
  BY DEF Names
<1>2. ASSUME NEW i \in 1 .. Len(e) PROVE e[i] = f[i]
  <2>1. CASE i = 1
    BY <2>1 DEF GlobMatches
  <2>2. CASE i # 1
    <3>1. i \in 2 .. Len(e)
      BY <1>1, <1>2, <2>2
    <3> QED
      BY <3>1 DEF GlobMatches
  <2> QED
    BY <2>1, <2>2
<1> QED
  BY <1>1, <1>2

\* What a name under the TLD leads to: its own directory if it is attached,
\* else that of the longest wildcard that matches it.
LEMMA GetDirLemma ==
    ASSUME NEW conf, NEW name \in Names, \A n \in DOMAIN conf.domains : n \in Names
    PROVE  /\ name \in DOMAIN conf.domains => GetDir(conf, FQDN(conf, name)) = conf.domains[name]
           /\ name \notin DOMAIN conf.domains /\ GlobsOf(conf, name) # {} =>
                GetDir(conf, FQDN(conf, name)) = conf.domains[LongestMatch(conf, name)]
<1> DEFINE host == FQDN(conf, name)
<1>1. domainWithoutTLD(conf, host) = name
  BY WithoutLemma
<1>2. CASE name \in DOMAIN conf.domains
  <2>1. doNormalizeDomain(conf, host) = host
    BY <1>1, <1>2 DEF doNormalizeDomain
  <2> QED
    BY <1>1, <1>2, <2>1 DEF GetDir
<1>3. CASE name \notin DOMAIN conf.domains /\ GlobsOf(conf, name) # {}
  <2> DEFINE f == LongestMatch(conf, name)
  <2>1. f \in DOMAIN conf.domains /\ f \in Names
    BY <1>3, LongestLemma DEF GlobsOf
  <2>2. doNormalizeDomain(conf, host) = FQDN(conf, f)
    BY <1>1, <1>3 DEF doNormalizeDomain
  <2>3. domainWithoutTLD(conf, FQDN(conf, f)) = f
    BY <2>1, WithoutLemma
  <2> QED
    BY <1>3, <2>1, <2>2, <2>3 DEF GetDir
<1> QED
  BY <1>2, <1>3

\* A wildcard matches every host below it.
LEMMA BelowLemma ==
    ASSUME NEW e \in Names, IsWildcard(e), NEW p \in Prefixes
    PROVE  p \o Tail(e) \in Names /\ GlobMatches(e, p \o Tail(e))
<1> DEFINE name == p \o Tail(e)  All == Labels \cup {"*"}
<1>1. e \in Seq(All) /\ p \in Seq(All) /\ p # <<>> /\ e # <<>>
  BY PrefixesAssumption DEF Names
<1>2. Tail(e) \in Seq(All) /\ Len(Tail(e)) = Len(e) - 1 /\ Len(e) \in Nat /\ Len(p) \in Nat
        /\ \A i \in 1 .. Len(e) - 1 : Tail(e)[i] = e[i + 1]
  BY <1>1
<1>3. Len(p) > 0
  BY <1>1
<1>4. name \in Seq(All) /\ Len(name) = Len(p) + Len(e) - 1
  BY <1>1, <1>2
<1>5. name # <<>> /\ Len(name) >= Len(e)
  BY <1>2, <1>3, <1>4 DEF IsWildcard
<1>6. ASSUME NEW i \in 2 .. Len(e) PROVE name[Len(name) - Len(e) + i] = e[i]
  <2>1. i - 1 \in 1 .. Len(Tail(e)) /\ Len(name) - Len(e) + i = Len(p) + (i - 1)
    BY <1>2, <1>4
  <2>2. name[Len(p) + (i - 1)] = Tail(e)[i - 1]
    BY <1>1, <1>2, <2>1
  <2> QED
    BY <1>2, <2>1, <2>2
<1> QED
  BY <1>4, <1>5, <1>6 DEF Names, GlobMatches, IsWildcard

\* Addresses are routed to their directory by every configuration.
LEMMA RoutedLemma ==
    ASSUME IsConfig(mem) PROVE OwnAddresses
<1>1. \A n \in DOMAIN mem.domains : n \in Names /\ mem.domains[n] \in Dirs
  BY DEF IsConfig
<1>2. ASSUME NEW d \in Dirs, NEW h \in GetReachableDomains(mem, d) PROVE GetDir(mem, h) = d
  <2>1. PICK e \in DOMAIN mem.domains : mem.domains[e] = d /\ h = FQDN(mem, e)
    BY <1>2 DEF GetReachableDomains
  <2> QED
    BY <1>1, <2>1, GetDirLemma
<1>3. ASSUME NEW e \in DOMAIN mem.domains, NEW p \in Prefixes, IsWildcard(e),
             NEW name, name = p \o Tail(e),
             NEW dir, dir = GetDir(mem, FQDN(mem, name)), dir # mem.domains[e]
      PROVE  \E f \in DOMAIN mem.domains :
                    /\ dir = mem.domains[f]
                    /\ f = name \/ (GlobMatches(f, name) /\ Len(f) > Len(e))
  <2>1. name \in Names /\ GlobMatches(e, name)
    BY <1>1, <1>3, BelowLemma
  <2>2. CASE name \in DOMAIN mem.domains
    BY <1>1, <1>3, <2>1, <2>2, GetDirLemma, Zenon
  <2>3. CASE name \notin DOMAIN mem.domains
    <3> DEFINE f == LongestMatch(mem, name)
    <3>1. e \in GlobsOf(mem, name)
      <4>1. IsGlob(e)
        BY <1>3 DEF IsGlob, IsWildcard
      <4> QED
        BY <2>1, <4>1 DEF GlobsOf
    <3>2. f \in GlobsOf(mem, name) /\ Len(e) <= Len(f)
      BY <1>1, <2>1, <3>1, LongestLemma
    <3>3. dir = mem.domains[f]
      BY <1>1, <1>3, <2>1, <2>3, <3>1, GetDirLemma
    <3>4. f \in DOMAIN mem.domains /\ GlobMatches(f, name) /\ f # e
      BY <1>3, <3>2, <3>3 DEF GlobsOf
    <3>5. Len(f) # Len(e)
      BY <1>1, <2>1, <3>4, SameGlobLemma
    <3>6. Len(e) \in Nat /\ Len(f) \in Nat
      BY <1>1, <1>3, <3>4 DEF Names
    <3> QED
      BY <3>2, <3>3, <3>4, <3>5, <3>6
  <2> QED
    BY <2>2, <2>3
<1> QED
  BY <1>2, <1>3, Zenon DEF OwnAddresses

\* Commands, the file and the proxy handle configurations only: no step makes
\* anything else of them, a half finished reload included.
ConfInv ==
    /\ DOMAIN cmd = Commands
    /\ \A c \in Commands : IsOp(job[c]) /\ (cmd[c].pc # "start" => job[c].kind # "idle")
    /\ mem = [tld |-> mem.tld, domains |-> mem.domains]
    /\ ConfTypeOK

ReqInv ==
    /\ compiled \in TLDs /\ tls \in BOOLEAN /\ serving \subseteq Dirs
    /\ DOMAIN req = Requests
    /\ \A q \in Requests :
         /\ DOMAIN req[q] = {"pc", "query", "dir", "answer"}
         /\ req[q].pc \in {"new", "dir", "done"} /\ req[q].dir \in Dirs \cup {NoDir}
         /\ req[q].answer \in Answers \cup {"none"}
         /\ req[q].query.host \in Names
    /\ \A n \in cache : n \in Names

\* What a command makes of a configuration is one.
LEMMA IsConfigApplied ==
    ASSUME NEW conf, IsConfig(conf), NEW op, IsOp(op), op.kind # "idle"
    PROVE  IsConfig(Applied(conf, op))
<1>1. CASE op.kind = "attach"
  <2>1. Applied(conf, op) = [tld |-> conf.tld, domains |-> WithDir(conf.domains, op.names, op.dir)]
    BY <1>1, SMTT(30) DEF Applied, AddDirDomains
  <2> QED
    BY <1>1, <2>1 DEF IsConfig, IsOp, WithDir
<1>2. CASE op.kind = "replace"
  <2> DEFINE others == {n \in DOMAIN conf.domains : conf.domains[n] # op.dir}
  <2>1. Applied(conf, op) =
          [tld |-> conf.tld, domains |-> WithDir(Keep(conf.domains, others), op.names, op.dir)]
    BY <1>2 DEF Applied, ReplaceDirDomains
  <2> QED
    BY <1>2, <2>1 DEF IsConfig, IsOp, WithDir, Keep
<1>3. CASE op.kind = "detach"
  <2>1. Applied(conf, op) =
          [tld |-> conf.tld, domains |-> Keep(conf.domains, DOMAIN conf.domains \ op.names)]
    BY <1>3 DEF Applied, RemoveDirDomains
  <2> QED
    BY <1>3, <2>1 DEF IsConfig, Keep
<1>4. CASE op.kind = "tld"
  <2>1. Applied(conf, op) = [tld |-> op.tld, domains |-> conf.domains]
    BY <1>4 DEF Applied
  <2> QED
    BY <1>4, <2>1 DEF IsConfig, IsOp
<1> QED
  BY <1>1, <1>2, <1>3, <1>4, SMTT(30) DEF Kinds, IsOp

\* A command that goes on, with what it has or with another configuration.
LEMMA CmdStep ==
    ASSUME ConfInv, NEW c \in Commands, NEW pc \in CmdPCs, NEW conf, IsConfig(conf), NEW base,
           CmdBecomes(c, pc, conf, base), UNCHANGED job, job[c].kind # "idle"
    PROVE  /\ DOMAIN cmd' = Commands
           /\ \A b \in Commands : IsOp(job'[b]) /\ (cmd'[b].pc # "start" => job'[b].kind # "idle")
           /\ \A b \in Commands : job'[b].kind \in Kinds
           /\ \A b \in Commands : cmd'[b].pc \in CmdPCs /\ IsConfig(cmd'[b].conf)
  BY DEF ConfInv, ConfTypeOK, CmdBecomes

\* The configuration that proxy:start writes first is one.
LEMMA DefaultIsConfig == IsConfig(DefaultConfig)
  BY DefaultAssumption DEF IsConfig, DefaultConfig

\* Truncate and WriteText, by which commands change the file.
LEMMA FileStep ==
    ASSUME ConfInv, NEW c \in Commands, job[c].kind # "idle", NEW pc \in CmdPCs,
           \/ Truncate(c, pc)
           \/ \E conf : IsConfig(conf) /\ WriteText(c, conf, pc)
    PROVE  ConfInv'
<1>1. CmdGoto(c, pc) /\ UNCHANGED <<job, mem, watch, got>> /\ Notify
  BY DEF Truncate, WriteText
<1>2. /\ DOMAIN cmd' = Commands
      /\ \A b \in Commands : IsOp(job'[b]) /\ (cmd'[b].pc # "start" => job'[b].kind # "idle")
      /\ \A b \in Commands : job'[b].kind \in Kinds
      /\ \A b \in Commands : cmd'[b].pc \in CmdPCs /\ IsConfig(cmd'[b].conf)
  BY <1>1, CmdStep DEF CmdGoto, ConfInv, ConfTypeOK
<1>3. file'.text \in {"absent", "empty", "json", "broken"} /\ IsConfig(file'.conf)
  BY DEF Truncate, WriteText, ConfInv, ConfTypeOK
<1>4. chan' \in BOOLEAN /\ heard' \in BOOLEAN
  BY <1>1 DEF Notify
<1> QED
  BY <1>1, <1>2, <1>3, <1>4 DEF ConfInv, ConfTypeOK

\* A step of a command keeps the file a configuration or text that does not
\* parse.
LEMMA CommandStep ==
    ASSUME ConfInv, NEW c \in Commands, Command(c) PROVE ConfInv'
<1>1. cmd[c].pc # "start" => job[c].kind # "idle"
  BY DEF ConfInv
<1>2. CASE Stat(c)
  <2>1. \E pc \in CmdPCs : CmdBecomes(c, pc, cmd[c].conf, cmd[c].base)
    BY <1>2 DEF Stat, CmdGoto, CmdPCs
  <2> QED
    BY <1>2, <2>1, CmdStep, SMTT(30) DEF Stat, ConfInv, ConfTypeOK
<1>3. CASE Create(c)
  BY <1>1, <1>3, FileStep DEF Create, CmdPCs
<1>4. CASE WriteDefault(c)
  BY <1>1, <1>4, FileStep, DefaultIsConfig, SMTT(30) DEF WriteDefault, CmdPCs
<1>5. CASE LoadAndApply(c)
  <2>1. \E pc \in CmdPCs : \E conf, base : IsConfig(conf) /\ CmdBecomes(c, pc, conf, base)
    <3>1. CASE CmdGoto(c, "err")
      BY <3>1 DEF CmdGoto, CmdPCs, ConfInv, ConfTypeOK
    <3>2. CASE CmdBecomes(c, "open", Applied(file.conf, job[c]), file.conf)
      <4>1. IsConfig(Applied(file.conf, job[c]))
        BY <1>1, <1>5, IsConfigApplied DEF LoadAndApply, ConfInv, ConfTypeOK
      <4> QED
        BY <3>2, <4>1 DEF CmdPCs
    <3> QED
      BY <1>5, <3>1, <3>2 DEF LoadAndApply
  <2> QED
    BY <1>1, <1>5, <2>1, CmdStep, SMTT(30) DEF LoadAndApply, ConfInv, ConfTypeOK
<1>6. CASE SaveOpen(c)
  BY <1>1, <1>6, FileStep, SMTT(30) DEF SaveOpen, CmdPCs
<1>7. CASE SaveWrite(c)
  BY <1>1, <1>7, FileStep DEF SaveWrite, CmdPCs, ConfInv, ConfTypeOK
<1> QED
  BY <1>2, <1>3, <1>4, <1>5, <1>6, <1>7 DEF Command

\* What the watcher loads is a configuration.
LEMMA WatchStep ==
    ASSUME ConfInv, Watch PROVE ConfInv'
<1>1. CASE StartWatch
  BY <1>1 DEF StartWatch, ConfInv, ConfTypeOK
<1>2. CASE OnEvent
  BY <1>2, Zenon DEF OnEvent, ConfInv, ConfTypeOK
<1>3. CASE ReloadRead
  BY <1>3 DEF ReloadRead, ConfInv, ConfTypeOK
<1>4. CASE ReloadDomains
  <2>1. mem' = [tld |-> mem.tld, domains |-> got.domains]
    BY <1>4 DEF ReloadDomains, ConfInv
  <2> QED
    BY <1>4, <2>1 DEF ReloadDomains, ConfInv, ConfTypeOK, IsConfig
<1>5. CASE ReloadTLD
  <2>1. mem' = [tld |-> got.tld, domains |-> mem.domains]
    BY <1>5 DEF ReloadTLD, ConfInv
  <2> QED
    BY <1>5, <2>1 DEF ReloadTLD, ConfInv, ConfTypeOK, IsConfig
<1> QED
  BY <1>1, <1>2, <1>3, <1>4, <1>5, SMTT(30) DEF Watch

\* The certificate store gets names: that of the host or of a wildcard.
LEMMA NormalizedLemma ==
    ASSUME NEW conf, IsConfig(conf), NEW host \in Names
    PROVE  doNormalizeDomain(conf, host) \in Names
<1> DEFINE name == domainWithoutTLD(conf, host)
<1>1. \A n \in DOMAIN conf.domains : n \in Names
  BY DEF IsConfig
<1>2. host \in Seq(Labels \cup {"*"}) /\ host # <<>>
  BY DEF Names
<1>3. name \in Names
  <2>1. CASE Len(host) > 1
    <3> DEFINE t == SubSeq(host, 1, Len(host) - 1)
    <3>1. t \in Seq(Labels \cup {"*"}) /\ Len(t) > 0
      BY <1>2, <2>1
    <3> HIDE DEF t
    <3>2. t # <<>>
      BY <3>1
    <3> QED
      BY <3>1, <3>2, Zenon DEF domainWithoutTLD, Names, t
  <2> QED
    BY <2>1 DEF domainWithoutTLD
<1> HIDE DEF name
<1>4. ASSUME NEW n \in Names PROVE FQDN(conf, n) \in Names
  <2>1. conf.tld \in Labels
    BY DomainsAssumption DEF IsConfig
  <2>2. Append(n, conf.tld) \in Seq(Labels \cup {"*"}) /\ Append(n, conf.tld) # <<>>
    BY <2>1 DEF Names
  <2> QED
    BY <2>2 DEF Names, FQDN
<1>5. GlobsOf(conf, name) # {} => LongestMatch(conf, name) \in Names
  BY <1>1, <1>3, LongestLemma DEF GlobsOf
<1> QED
  BY <1>3, <1>4, <1>5 DEF doNormalizeDomain, name

\* A host leads to a directory or to none.
LEMMA DirLemma ==
    ASSUME NEW conf, IsConfig(conf), NEW host
    PROVE  GetDir(conf, host) \in Dirs \cup {NoDir}
  BY DEF GetDir, IsConfig

\* The answer of a handler, and its way to Forward.
LEMMA AnswerLemma ==
    ASSUME ReqInv, NEW q \in Requests, NEW dir \in Dirs \cup {NoDir},
           UNCHANGED <<compiled, tls, serving, cache>>,
           \/ \E answer \in Answers : Answer(q, dir, answer)
           \/ req' = [req EXCEPT ![q] = [@ EXCEPT !.pc = "dir", !.dir = dir]]
    PROVE  ReqInv'
<1>1. /\ DOMAIN req' = Requests /\ \A r \in Requests \ {q} : req'[r] = req[r]
      /\ DOMAIN req'[q] = {"pc", "query", "dir", "answer"}
      /\ req'[q].pc \in {"new", "dir", "done"} /\ req'[q].dir = dir
      /\ req'[q].answer \in Answers \cup {"none"} /\ req'[q].query = req[q].query
  BY ZenonT(60) DEF Answer, ReqInv
<1> QED
  BY <1>1, SMTT(30) DEF ReqInv

\* A request is answered for a directory of the configuration.
LEMMA RequestStep ==
    ASSUME ConfInv, ReqInv, NEW q \in Requests, Lookup(q) \/ Forward(q) \/ getCertificate(q)
    PROVE  ReqInv'
<1>1. CASE Lookup(q)
  <2> DEFINE a == req[q].query  d == GetDir(mem, a.host)
  <2>1. d \in Dirs \cup {NoDir}
    BY DirLemma DEF ConfInv, ConfTypeOK
  <2>2. \E dir \in Dirs \cup {NoDir} :
           \/ \E answer \in Answers : Answer(q, dir, answer)
           \/ req' = [req EXCEPT ![q] = [@ EXCEPT !.pc = "dir", !.dir = dir]]
    <3> HIDE DEF a, d
    <3>1. CASE ~tldMatches(a.host)
      BY <1>1, <3>1, ZenonT(60) DEF Lookup, a, Answers
    <3>2. CASE tldMatches(a.host) /\ (WrongPort(a) \/ d = NoDir)
      BY <1>1, <3>2, ZenonT(60) DEF Lookup, a, d, Answers
    <3>3. CASE tldMatches(a.host) /\ ~(WrongPort(a) \/ d = NoDir)
      BY <1>1, <2>1, <3>3, ZenonT(60) DEF Lookup, a, d
    <3> QED
      BY <3>1, <3>2, <3>3, ZenonT(60)
  <2> QED
    BY <1>1, <2>2, AnswerLemma, Zenon DEF Lookup
<1>2. CASE Forward(q)
  <2>1. req[q].dir \in Dirs \cup {NoDir}
    BY DEF ReqInv
  <2>2. \E answer \in Answers : Answer(q, req[q].dir, answer)
    BY <1>2, SMTT(30) DEF Forward, Answers
  <2> QED
    BY <1>2, <2>1, <2>2, AnswerLemma, Zenon DEF Forward
<1>3. CASE getCertificate(q)
  <2>1. doNormalizeDomain(mem, req[q].query.host) \in Names
    BY NormalizedLemma DEF ConfInv, ConfTypeOK, ReqInv
  <2> QED
    BY <1>3, <2>1 DEF getCertificate, ReqInv
<1> QED
  BY <1>1, <1>2, <1>3

ProxyInv == ConfInv /\ ReqInv

\* The proxy starts with the file of the last one, or none.
LEMMA ProxyInitial == Init => ProxyInv
<1> SUFFICES ASSUME Init PROVE ProxyInv
  OBVIOUS
<1>1. PICK s \in Scenes :
         /\ job = s.job /\ tls = s.tls
         /\ req \in [Requests ->
              {[pc |-> "new", query |-> a, dir |-> NoDir, answer |-> "none"] : a \in s.asked}]
  BY SMTT(30) DEF Init
<1>2. ConfInv
  <2>1. \A c \in Commands : IsOp(job[c])
    BY <1>1, ScenesAssumption, SMTT(30)
  <2>2. mem = [tld |-> mem.tld, domains |-> mem.domains]
    BY SMTT(30) DEF Init, ConfInit, DefaultConfig
  <2> QED
    BY <2>1, <2>2, DefaultIsConfig, Zenon DEF Init, ConfInit, ConfInv, ConfTypeOK, CmdPCs, IsOp
<1>3. ReqInv
  <2>1. compiled \in TLDs /\ serving \subseteq Dirs /\ cache = {}
    BY DefaultAssumption DEF Init, ConfInit, DefaultConfig
  <2>2. tls \in BOOLEAN /\ \A a \in s.asked : a.host \in Names
    BY <1>1, ScenesAssumption
  <2> QED
    BY <1>1, <2>1, <2>2, SMTT(30) DEF ReqInv
<1> QED
  BY <1>2, <1>3 DEF ProxyInv

\* Every step of a command, of the watcher and of a request.
LEMMA ProxyStep ==
    ASSUME ProxyInv, [Next]_vars PROVE ProxyInv'
<1> USE DEF ProxyInv
<1>1. ASSUME NEW c \in Commands, Command(c), UNCHANGED proxyVars PROVE ProxyInv'
  BY <1>1, CommandStep DEF proxyVars, ReqInv
<1>2. ASSUME Watch, UNCHANGED proxyVars PROVE ProxyInv'
  BY <1>2, WatchStep, SMTT(30) DEF proxyVars, ReqInv
<1>3. ASSUME NEW q \in Requests, Lookup(q) \/ Forward(q) \/ getCertificate(q) PROVE ProxyInv'
  <2>1. UNCHANGED confVars
    BY <1>3, SMTT(30) DEF Lookup, Forward, getCertificate
  <2> QED
    BY <1>3, <2>1, RequestStep, SMTT(30) DEF confVars, ConfInv, ConfTypeOK
<1>4. ASSUME NEW d \in Dirs, ServerUp(d) \/ ServerDown(d) PROVE ProxyInv'
  BY <1>4, SMTT(30) DEF ServerUp, ServerDown, confVars, ConfInv, ConfTypeOK, ReqInv
<1>5. CASE UNCHANGED vars
  BY <1>5 DEF vars, confVars, proxyVars, ConfInv, ConfTypeOK, ReqInv
<1> QED
  BY <1>1, <1>2, <1>3, <1>4, <1>5, SMTT(30) DEF Next

\* TypeOK: whichever commands change proxy.json while it is read, half of it
\* included, the proxy has a configuration with known directories.
THEOREM ProxyTypesAlways == Spec => []TypeOK
<1>1. ProxyInv => TypeOK
  BY DEF ProxyInv, ConfInv, ReqInv, TypeOK, ConfTypeOK
<1> QED
  BY <1>1, ProxyInitial, ProxyStep, PTL DEF Spec

\* OwnAddresses: with the configuration that the proxy has at any moment, GetDir
\* leads a domain to the directory it is attached to, and a host below a
\* wildcard to the directory of the longest wildcard above it.
THEOREM OwnAddressesAlways == Spec => []OwnAddresses
<1>1. ProxyInv => OwnAddresses
  BY RoutedLemma DEF ProxyInv, ConfInv, ConfTypeOK
<1> QED
  BY <1>1, ProxyInitial, ProxyStep, PTL DEF Spec

-----------------------------------------------------------------------------
(* The variables of a project in the cloud.                                *)

\* What the platform gives: relationships whose names are lists of words and
\* whose endpoints tell their scheme, host and port.
IsCloud(w) ==
    /\ DOMAIN w.routes \subseteq Nat \ {0}
    /\ \E W : "management" \in W /\ \A n \in DOMAIN w.links : n \in Seq(W)
    /\ \A n \in DOMAIN w.links :
         /\ Len(w.links[n]) \in Nat /\ DOMAIN w.links[n] = 1 .. Len(w.links[n])
         /\ \A i \in DOMAIN w.links[n] : {"scheme", "host", "port"} \subseteq DOMAIN w.links[n][i]

CloudSpec ==
    (\E w : IsCloud(w) /\ CloudInit(w, "management")) /\ [][CloudNext]_cloudVars

Count(s, i) == Cardinality(Rabbits(s, i))

\* The i-th endpoint of n has its management relationship.
Managed(n, i) ==
    LET m == ManagementName(n, cloud.links[n], i) IN
    m \in DOMAIN links /\ links[m] = <<ManagementOf(cloud.links[n][i])>>

\* While names are left, theirs are as they were, and the others have their
\* management relationships.
CloudInv ==
    /\ IsCloud(cloud)
    /\ stage \in {"management", "done"}
    /\ DOMAIN cloud.links \subseteq DOMAIN links /\ left \subseteq DOMAIN cloud.links
    /\ Apart =>
         /\ \A n \in left : links[n] = cloud.links[n]
         /\ \A n \in DOMAIN cloud.links \ left :
               \A i \in Rabbits(cloud.links[n], Len(cloud.links[n])) : Managed(n, i)
    /\ stage = "done" =>
         /\ left = {}
         /\ extra = [remote |-> Merge(RemoteExtra(cloud), Mailer(cloud.os)), dotenv |-> LoadDotEnv(cloud)]

\* Each endpoint of RabbitMQ counts one more than the ones before it.
LEMMA CountLemma ==
    ASSUME NEW s, NEW N \in Nat, NEW i \in Rabbits(s, N), NEW j \in Rabbits(s, N)
    PROVE  Count(s, i) \in Nat \ {0} /\ (Count(s, i) = Count(s, j) => i = j)
<1>1. ASSUME NEW k \in 1 .. N PROVE IsFiniteSet(Rabbits(s, k)) /\ Count(s, k) \in Nat
  <2>1. IsFiniteSet(1 .. k)
    BY FS_Interval
  <2>2. Rabbits(s, k) \subseteq 1 .. k
    BY DEF Rabbits
  <2> QED
    BY <2>1, <2>2, FS_Subset, FS_CardinalityType DEF Count
<1>2. ASSUME NEW a \in Rabbits(s, N), NEW b \in Rabbits(s, N), a < b
      PROVE  Count(s, a) < Count(s, b)
  <2>1. a \in 1 .. N /\ b \in 1 .. N /\ Rabbits(s, a) \subseteq Rabbits(s, b)
        /\ b \in Rabbits(s, b) /\ b \notin Rabbits(s, a)
    BY <1>2 DEF Rabbits
  <2>2. Count(s, a) <= Count(s, b) /\ (Count(s, a) = Count(s, b) => Rabbits(s, a) = Rabbits(s, b))
    BY <1>1, <2>1, FS_Subset, SMTT(30) DEF Count
  <2>3. Count(s, a) \in Nat /\ Count(s, b) \in Nat
    BY <1>1, <2>1
  <2> QED
    BY <2>1, <2>2, <2>3
<1>3. i \in 1 .. N /\ j \in 1 .. N /\ i \in Rabbits(s, i)
  BY DEF Rabbits
<1>4. Count(s, i) # 0
  BY <1>1, <1>3, FS_EmptySet DEF Count
<1>5. Count(s, i) \in Nat /\ Count(s, j) \in Nat
  BY <1>1, <1>3
<1>6. CASE i < j
  BY <1>2, <1>4, <1>5, <1>6
<1>7. CASE j < i
  BY <1>2, <1>4, <1>5, <1>7
<1> QED
  BY <1>3, <1>4, <1>5, <1>6, <1>7, SMTT(30)

\* g is n and k more words.
Spelled(n, k, g) ==
    /\ Len(g) = Len(n) + k
    /\ \A i \in 1 .. Len(n) : g[i] = n[i]
    /\ \A i \in Len(n) + 1 .. Len(n) + k : g[i] = "management"

LEMMA GrownLemma ==
    ASSUME NEW W, "management" \in W, NEW n \in Seq(W), NEW k \in Nat
    PROVE  Grown(n, k) \in Seq(W) /\ Spelled(n, k, Grown(n, k))
<1> DEFINE t == [i \in 1 .. k |-> "management"]
<1>1. t \in Seq(W) /\ Len(t) = k /\ \A i \in 1 .. k : t[i] = "management"
  OBVIOUS
<1> HIDE DEF t
<1>2. Grown(n, k) = n \o t
  BY Zenon DEF Grown, t
<1>3. Len(n) \in Nat /\ Len(n \o t) = Len(n) + k /\ n \o t \in Seq(W)
  BY <1>1
<1>4. ASSUME NEW i \in 1 .. Len(n) PROVE (n \o t)[i] = n[i]
  BY <1>1
<1>5. ASSUME NEW i \in Len(n) + 1 .. Len(n) + k PROVE (n \o t)[i] = "management"
  BY <1>1, <1>3
<1> QED
  BY <1>2, <1>3, <1>4, <1>5, Zenon DEF Spelled

\* A name that grows into another one's is the shorter one, grown.
LEMMA SameGrown ==
    ASSUME NEW W, "management" \in W, NEW n \in Seq(W), NEW m \in Seq(W), NEW k \in Nat, NEW l \in Nat,
           Grown(n, k) = Grown(m, l), Len(n) <= Len(m)
    PROVE  m = Grown(n, Len(m) - Len(n))
<1> DEFINE d == Len(m) - Len(n)
<1>1. d \in Nat /\ Len(n) \in Nat /\ Len(m) = Len(n) + d /\ Len(n) + k = Len(m) + l
  <2>1. Len(Grown(n, k)) = Len(n) + k /\ Len(Grown(m, l)) = Len(m) + l
    BY GrownLemma, Zenon DEF Spelled
  <2> QED
    BY <2>1
<1> HIDE DEF d
<1>2. Grown(n, d) \in Seq(W) /\ Spelled(n, k, Grown(n, k)) /\ Spelled(n, d, Grown(n, d)) /\ Spelled(m, l, Grown(m, l))
  BY <1>1, GrownLemma, Zenon
<1>3. ASSUME NEW i \in 1 .. Len(m) PROVE m[i] = Grown(n, d)[i]
  <2>1. m[i] = Grown(m, l)[i]
    BY <1>2 DEF Spelled
  <2>2. CASE i <= Len(n)
    <3>1. Grown(n, k)[i] = n[i] /\ Grown(n, d)[i] = n[i]
      BY <1>1, <1>2, <2>2 DEF Spelled
    <3> QED
      BY <2>1, <3>1
  <2>3. CASE Len(n) < i
    <3>1. i \in Len(n) + 1 .. Len(n) + k /\ i \in Len(n) + 1 .. Len(n) + d
      BY <1>1, <2>3
    <3>2. Grown(n, k)[i] = "management" /\ Grown(n, d)[i] = "management"
      BY <1>2, <3>1 DEF Spelled
    <3> QED
      BY <2>1, <3>2
  <2> QED
    BY <1>1, <2>2, <2>3
<1>4. m = Grown(n, d)
  BY <1>1, <1>2, <1>3 DEF Spelled
<1> QED
  BY <1>4 DEF d

\* Names that are apart stay apart: none grows into another one,
LEMMA ApartNames ==
    ASSUME IsCloud(cloud), Apart, NEW n \in DOMAIN cloud.links, NEW k \in Nat \ {0}
    PROVE  Grown(n, k) \notin DOMAIN cloud.links
<1> SUFFICES ASSUME NEW m \in DOMAIN cloud.links, m = Grown(n, k) PROVE FALSE
  BY Zenon
<1>1. PICK W : "management" \in W /\ \A x \in DOMAIN cloud.links : x \in Seq(W)
  BY Zenon DEF IsCloud
<1>2. n \in Seq(W) /\ m \in Seq(W) /\ Len(n) \in Nat
  BY <1>1
<1>3. Len(m) = Len(n) + k
  BY <1>1, <1>2, GrownLemma, Zenon DEF Spelled
<1>4. k \in 1 .. Len(m)
  BY <1>2, <1>3
<1> QED
  BY <1>4, Zenon DEF Apart

\* and two that grow into one are the same.
LEMMA ApartLemma ==
    ASSUME IsCloud(cloud), Apart,
           NEW n \in DOMAIN cloud.links, NEW m \in DOMAIN cloud.links, NEW k \in Nat \ {0}, NEW l \in Nat,
           Grown(n, k) = Grown(m, l)
    PROVE  n = m /\ k = l
<1>1. PICK W : "management" \in W /\ \A x \in DOMAIN cloud.links : x \in Seq(W)
  BY Zenon DEF IsCloud
<1>2. n \in Seq(W) /\ m \in Seq(W) /\ Len(n) \in Nat /\ Len(m) \in Nat /\ k \in Nat
  BY <1>1
<1>3. Len(Grown(n, k)) = Len(n) + k /\ Len(Grown(m, l)) = Len(m) + l
  BY <1>1, <1>2, GrownLemma, Zenon DEF Spelled
<1>4. CASE Len(n) = Len(m)
  <2>1. Len(m) <= Len(n) /\ Len(m) <= Len(m) /\ Len(n) - Len(m) = 0 /\ Len(m) - Len(m) = 0
    BY <1>2, <1>4
  <2>2. n = Grown(m, 0) /\ m = Grown(m, 0)
    BY <1>1, <1>2, <2>1, SameGrown, Zenon
  <2> QED
    BY <1>2, <1>3, <1>4, <2>2
<1>5. CASE Len(n) < Len(m)
  <2>1. Len(n) <= Len(m) /\ Len(m) - Len(n) \in Nat \ {0}
    BY <1>2, <1>5
  <2>2. m = Grown(n, Len(m) - Len(n))
    BY <1>1, <1>2, <2>1, SameGrown, Zenon
  <2> QED
    BY <2>1, <2>2, ApartNames, Zenon
<1>6. CASE Len(m) < Len(n)
  <2>1. Len(m) <= Len(n) /\ Len(n) - Len(m) \in Nat \ {0}
    BY <1>2, <1>6
  <2>2. n = Grown(m, Len(n) - Len(m))
    BY <1>1, <1>2, <2>1, SameGrown, Zenon
  <2> QED
    BY <2>1, <2>2, ApartNames, Zenon
<1> QED
  BY <1>2, <1>4, <1>5, <1>6

\* Where routes are found to a pattern, the first of them is one.
LEMMA FirstRouteLemma ==
    ASSUME NEW w, NEW R \in SUBSET (Nat \ {0}), FirstRoute(w, R) = 0, NEW p \in 1 .. 4, NEW r \in R
    PROVE  w.routes[r].to # Patterns[p]
<1> DEFINE hits == {k \in (1 .. 4) \X R : w.routes[k[2]].to = Patterns[k[1]]}
           Before(j, k) == j[1] < k[1] \/ (j[1] = k[1] /\ j[2] <= k[2])
           Least(k) == \A j \in hits : Before(k, j)
<1> SUFFICES ASSUME w.routes[r].to = Patterns[p] PROVE FALSE
  BY Zenon
<1>1. <<p, r>> \in hits
  OBVIOUS
<1>2. PICK a \in 1 .. 4 : /\ \E i \in R : w.routes[i].to = Patterns[a]
                          /\ \A b \in 1 .. 4 : (\E i \in R : w.routes[i].to = Patterns[b]) => a <= b
  <2> DEFINE S == {b \in 1 .. 4 : \E i \in R : w.routes[i].to = Patterns[b]}
  <2>1. p \in S /\ S \subseteq Nat
    OBVIOUS
  <2>2. PICK a \in S : \A b \in S : a <= b
    BY <2>1, LeastLemma, Zenon
  <2> QED
    BY <2>2, Zenon
<1>3. PICK i \in R : /\ w.routes[i].to = Patterns[a]
                     /\ \A j \in R : w.routes[j].to = Patterns[a] => i <= j
  <2> DEFINE S == {j \in R : w.routes[j].to = Patterns[a]}
  <2>1. S # {} /\ S \subseteq Nat
    BY <1>2, Zenon
  <2>2. PICK i \in S : \A j \in S : i <= j
    BY <2>1, LeastLemma, Zenon
  <2> QED
    BY <2>2, Zenon
<1>4. <<a, i>> \in hits
  BY <1>3
<1>5. Least(<<a, i>>)
  <2> SUFFICES ASSUME NEW b \in 1 .. 4, NEW j \in R, w.routes[j].to = Patterns[b]
               PROVE  a < b \/ (a = b /\ i <= j)
    BY ZenonT(60)
  <2>1. a <= b
    BY <1>2, Zenon
  <2>2. a = b => i <= j
    BY <1>3, Zenon
  <2> QED
    BY <2>1, <2>2
<1>6. FirstRoute(w, R) = (CHOOSE k \in hits : Least(k))[2]
  BY <1>1, Zenon DEF FirstRoute
<1> HIDE DEF Least
<1>7. (CHOOSE k \in hits : Least(k)) \in hits
  BY <1>4, <1>5, Zenon
<1>8. (CHOOSE k \in hits : Least(k))[2] \in R
  <2>1. \A k \in hits : k[2] \in R
    OBVIOUS
  <2> QED
    BY <1>7, <2>1, Zenon
<1> QED
  BY <1>6, <1>8

\* The search of the application's route is the second half of the project's.
LEMMA RoutesLemma ==
    ASSUME IsCloud(cloud), FirstRoute(cloud, Exact(cloud, Upstreams(cloud))) = 0,
           \E i \in Upstreams(cloud) : cloud.routes[i].upstream = application(cloud)
    PROVE  extractApplicationDefaultUrl(cloud) = extractProjectDefaultUrl(cloud)
<1> DEFINE R == Upstreams(cloud)
           mine == {i \in R : cloud.routes[i].upstream = application(cloud)}
<1>1. mine = {i \in DOMAIN cloud.routes : /\ cloud.routes[i].kind = "upstream"
                                         /\ cloud.routes[i].upstream = application(cloud)
                                         /\ cloud.routes[i].valid}
  BY Zenon DEF Upstreams
<1>2. mine # {} /\ R # {}
  BY Zenon
<1>3. FirstRoute(cloud, Exact(cloud, mine)) = 0
  <2>1. Exact(cloud, mine) \subseteq Exact(cloud, R) /\ Exact(cloud, R) \in SUBSET (Nat \ {0})
    BY Zenon DEF Exact, Upstreams, IsCloud
  <2>2. ASSUME NEW p \in 1 .. 4, NEW r \in Exact(cloud, mine)
        PROVE  cloud.routes[r].to # Patterns[p]
    BY <2>1, FirstRouteLemma, Zenon
  <2>3. {k \in (1 .. 4) \X Exact(cloud, mine) : cloud.routes[k[2]].to = Patterns[k[1]]} = {}
    BY <2>2
  <2> QED
    BY <2>3, Zenon DEF FirstRoute
<1>4. extractProjectDefaultUrl(cloud) =
        IF FirstRoute(cloud, mine) # 0 THEN FirstRoute(cloud, mine) ELSE FirstDeclared(mine)
  BY <1>2, Zenon DEF extractProjectDefaultUrl
<1>5. extractApplicationDefaultUrl(cloud) =
        IF FirstRoute(cloud, mine) # 0 THEN FirstRoute(cloud, mine) ELSE FirstDeclared(mine)
  BY <1>1, <1>2, <1>3, Zenon DEF extractApplicationDefaultUrl
<1> QED
  BY <1>4, <1>5, Zenon

-----------------------------------------------------------------------------
PairNames == {"APP_ENV", "SYMFONY_ENV", "APP_DEBUG", "SYMFONY_DEBUG"}

LEMMA MergeOther ==
    ASSUME NEW f, NEW g, DOMAIN f \intersect PairNames = {}, DOMAIN g \intersect PairNames = {}
    PROVE  DOMAIN Merge(f, g) \intersect PairNames = {}
<1>1. DOMAIN Merge(f, g) = DOMAIN f \union DOMAIN g
  BY DEF Merge
<1> QED
  BY <1>1, Zenon

\* Nothing else that Extra adds has one of those names.
LEMMA OtherNames ==
    ASSUME NEW w
    PROVE  /\ DOMAIN Mailer(w.os) \intersect PairNames = {}
           /\ DOMAIN Merge(Secret(w.os), Merge(RouteExtra(w), Merge(Worker(w), Sender(w.os))))
                  \intersect PairNames = {}
<1>1. DOMAIN None = {}
  BY SMTT(30) DEF None
<1>2. DOMAIN Mailer(w.os) \intersect PairNames = {}
  BY DEF Mailer, PairNames
<1>3. DOMAIN Secret(w.os) \intersect PairNames = {}
  BY <1>1 DEF Secret, PairNames
<1>4. DOMAIN Worker(w) \intersect PairNames = {}
  BY <1>1, Zenon DEF Worker, PairNames
<1>5. DOMAIN Sender(w.os) \intersect PairNames = {}
  BY <1>1, Zenon DEF Sender, PairNames
<1>6. ASSUME NEW name, name \notin PairNames, NEW i
      PROVE  DOMAIN RouteVars(name, w, i) \intersect PairNames = {}
  BY <1>1, <1>6 DEF RouteVars
<1>7. DOMAIN RouteExtra(w) \intersect PairNames = {}
  <2>1. /\ "SYMFONY_APPLICATION_DEFAULT_ROUTE" \notin PairNames
        /\ "SYMFONY_PROJECT_DEFAULT_ROUTE" \notin PairNames
        /\ "SYMFONY_DEFAULT_ROUTE" \notin PairNames
        /\ "DEFAULT_URI" \notin PairNames
    BY DEF PairNames
  <2> QED
    BY <1>6, <2>1, MergeOther, Zenon DEF RouteExtra
<1> QED
  BY <1>2, <1>3, <1>4, <1>5, <1>7, MergeOther, Zenon

LEMMA PairsLemma ==
    ASSUME NEW w
    PROVE  LET env == Merge(Merge(RemoteExtra(w), Mailer(w.os)), w.os) IN
           env["APP_ENV"] = env["SYMFONY_ENV"] /\ env["APP_DEBUG"] = env["SYMFONY_DEBUG"]
<1> DEFINE a == Pair(w.os, "APP_ENV", "SYMFONY_ENV", "prod")
           b == Pair(w.os, "APP_DEBUG", "SYMFONY_DEBUG", "0")
           rest == Merge(Secret(w.os), Merge(RouteExtra(w), Merge(Worker(w), Sender(w.os))))
           env == Merge(Merge(Merge(a, Merge(b, rest)), Mailer(w.os)), w.os)
<1>1. /\ DOMAIN a \subseteq {"APP_ENV", "SYMFONY_ENV"}
      /\ DOMAIN b \subseteq {"APP_DEBUG", "SYMFONY_DEBUG"}
  BY DEF Pair
<1>2. DOMAIN rest \intersect PairNames = {} /\ DOMAIN Mailer(w.os) \intersect PairNames = {}
  BY OtherNames, ZenonT(60)
<1> HIDE DEF a, b, rest
<1>3. ASSUME NEW k \in {"APP_ENV", "SYMFONY_ENV"}, k \in DOMAIN a \union DOMAIN w.os
      PROVE  env[k] = IF k \in DOMAIN a THEN a[k] ELSE w.os[k]
  <2>1. k \in PairNames /\ k \notin DOMAIN b
    BY <1>1, SMTT(30) DEF PairNames
  <2> QED
    BY <1>2, <1>3, <2>1, Zenon DEF Merge
<1>4. ASSUME NEW k \in {"APP_DEBUG", "SYMFONY_DEBUG"}, k \in DOMAIN b \union DOMAIN w.os
      PROVE  env[k] = IF k \in DOMAIN b THEN b[k] ELSE w.os[k]
  <2>1. k \in PairNames /\ k \notin DOMAIN a
    BY <1>1, SMTT(30) DEF PairNames
  <2> QED
    BY <1>2, <1>4, <2>1 DEF Merge
<1> HIDE DEF env
<1>5. env["APP_ENV"] = env["SYMFONY_ENV"]
  BY <1>3 DEF a, Pair
<1>6. env["APP_DEBUG"] = env["SYMFONY_DEBUG"]
  BY <1>4, SMTT(30) DEF b, Pair
<1> QED
  BY <1>5, <1>6, Zenon DEF env, RemoteExtra, a, b, rest

-----------------------------------------------------------------------------
\* A file gives the variables that are not there yet.
Gives(d, f, k) == f \in DOMAIN d /\ d[f] # Broken /\ k \in DOMAIN d[f]

Extended(known, d, f, k, m) ==
    /\ k \in DOMAIN m <=> k \in DOMAIN known \/ Gives(d, f, k)
    /\ k \in DOMAIN known => m[k] = known[k]
    /\ k \notin DOMAIN known /\ Gives(d, f, k) => m[k] = d[f][k]

LEMMA MergeFile ==
    ASSUME NEW known, NEW d, NEW f, NEW k
    PROVE  Extended(known, d, f, k, mergeDovEnvFile(known, d, f))
  BY DEF Extended, mergeDovEnvFile, Merge, Gives

\* A variable that is found is that of the first file that defines it.
FromFirst(d, env, files, k, value) ==
    \E i \in 1 .. 4 : /\ Defines(d, env, files[i], k) /\ value = d[files[i]][k]
                     /\ \A j \in 1 .. i - 1 : ~Defines(d, env, files[j], k)

LEMMA FoundLemma ==
    ASSUME NEW d, NEW os, BaseVars(d) # Broken,
           NEW k \in DOMAIN lookupDotEnv(d, os), k # "APP_ENV"
    PROVE  LET env == AppEnv(os, BaseVars(d)) IN
           FromFirst(d, env, DotEnvFiles(d, env), k, lookupDotEnv(d, os)[k])
<1> DEFINE base == BaseVars(d)
           env == AppEnv(os, base)
           files == DotEnvFiles(d, env)
           v1 == Merge([APP_ENV |-> env], base)
           v2 == IF env # "test" THEN mergeDovEnvFile(v1, d, ".env.local") ELSE v1
           v3 == mergeDovEnvFile(v2, d, EnvFile(env))
           v4 == mergeDovEnvFile(v3, d, EnvLocalFile(env))
           Has(i) == Defines(d, env, files[i], k)
           Value(i) == d[files[i]][k]
<1>1. lookupDotEnv(d, os) = v4
  BY Zenon DEF lookupDotEnv
<1>2. (k \in DOMAIN v1 <=> Has(1)) /\ (Has(1) => v1[k] = Value(1))
  <2>1. (k \in DOMAIN v1 <=> k \in DOMAIN base) /\ (k \in DOMAIN base => v1[k] = base[k])
    <3> HIDE DEF base, env
    <3> QED
      BY DEF Merge
  <2>2. files[1] = IF ".env" \in DOMAIN d THEN ".env" ELSE ".env.dist"
    BY DEF DotEnvFiles
  <2>3. DOMAIN None = {}
    BY DEF None
  <2> HIDE DEF v1, env, files
  <2> QED
    BY <2>1, <2>2, <2>3, SMTT(30) DEF BaseVars, Defines
<1> HIDE DEF base, v1
<1>3. /\ k \in DOMAIN v2 <=> k \in DOMAIN v1 \/ Has(2)
      /\ k \in DOMAIN v1 => v2[k] = v1[k]
      /\ k \notin DOMAIN v1 /\ Has(2) => v2[k] = Value(2)
  <2>1. files[2] = ".env.local"
    BY DEF DotEnvFiles
  <2> HIDE DEF env, files
  <2>2. Has(2) <=> env # "test" /\ Gives(d, ".env.local", k)
    BY <2>1, Zenon DEF Defines, Gives
  <2>3. CASE env = "test"
    BY <2>2, <2>3, Zenon
  <2>4. CASE env # "test"
    <3>1. Extended(v1, d, ".env.local", k, v2)
      BY <2>4, MergeFile, Zenon
    <3> HIDE DEF v2
    <3> QED
      BY <2>1, <2>2, <2>4, <3>1, Zenon DEF Extended
  <2> QED
    BY <2>3, <2>4, Zenon
<1> HIDE DEF v2
<1>4. /\ k \in DOMAIN v3 <=> k \in DOMAIN v2 \/ Has(3)
      /\ k \in DOMAIN v2 => v3[k] = v2[k]
      /\ k \notin DOMAIN v2 /\ Has(3) => v3[k] = Value(3)
  <2>1. files[3] = EnvFile(env)
    BY DEF DotEnvFiles
  <2> HIDE DEF env, files
  <2>2. EnvFile(env) # ".env.local"
    BY DEF EnvFile
  <2>3. Has(3) <=> Gives(d, EnvFile(env), k)
    BY <2>1, <2>2, Zenon DEF Defines, Gives
  <2>4. Extended(v2, d, EnvFile(env), k, v3)
    BY MergeFile, Zenon
  <2> HIDE DEF v3
  <2> QED
    BY <2>1, <2>3, <2>4, Zenon DEF Extended
<1> HIDE DEF v3
<1>5. /\ k \in DOMAIN v4 <=> k \in DOMAIN v3 \/ Has(4)
      /\ k \in DOMAIN v3 => v4[k] = v3[k]
      /\ k \notin DOMAIN v3 /\ Has(4) => v4[k] = Value(4)
  <2>1. files[4] = EnvLocalFile(env)
    BY DEF DotEnvFiles
  <2> HIDE DEF env, files
  <2>2. EnvLocalFile(env) # ".env.local"
    BY DEF EnvLocalFile
  <2>3. Has(4) <=> Gives(d, EnvLocalFile(env), k)
    BY <2>1, <2>2, Zenon DEF Defines, Gives
  <2>4. Extended(v3, d, EnvLocalFile(env), k, v4)
    BY MergeFile, Zenon
  <2> HIDE DEF v4
  <2> QED
    BY <2>1, <2>3, <2>4, Zenon DEF Extended
<1> HIDE DEF v4
<1>6. PICK i \in 1 .. 4 : Has(i) /\ v4[k] = Value(i) /\ \A j \in 1 .. i - 1 : ~Has(j)
  <2> HIDE DEF Has, Value
  <2>1. k \in DOMAIN v4
    BY <1>1, SMTT(30)
  <2>2. CASE Has(1)
    BY <1>2, <1>3, <1>4, <1>5, <2>2, SMTT(30)
  <2>3. CASE ~Has(1) /\ Has(2)
    BY <1>2, <1>3, <1>4, <1>5, <2>3, SMTT(30)
  <2>4. CASE ~Has(1) /\ ~Has(2) /\ Has(3)
    BY <1>2, <1>3, <1>4, <1>5, <2>4, SMTT(30)
  <2>5. CASE ~Has(1) /\ ~Has(2) /\ ~Has(3)
    BY <1>2, <1>3, <1>4, <1>5, <2>1, <2>5, SMTT(30)
  <2> QED
    BY <2>2, <2>3, <2>4, <2>5, Zenon
<1> QED
  BY <1>1, <1>6, Zenon DEF FromFirst, base

LEMMA DotEnvLemma ==
    ASSUME stage = "done", extra.dotenv = LoadDotEnv(cloud)
    PROVE  DotEnvPrecedence
<1> DEFINE d == DotEnv(cloud)
           found == lookupDotEnv(d, cloud.os)
           given == Merge(cloud.services, found)
           env == AppEnv(cloud.os, BaseVars(d))
<1>1. extra.dotenv.vars = given
  BY DEF LoadDotEnv
<1>2. ASSUME BaseVars(d) # Broken, NEW k \in DOMAIN given \ {"APP_ENV"}
      PROVE  IF k \in DOMAIN cloud.services THEN given[k] = cloud.services[k]
             ELSE FromFirst(d, env, DotEnvFiles(d, env), k, given[k])
  <2> HIDE DEF found
  <2>1. CASE k \in DOMAIN cloud.services
    BY <2>1 DEF Merge
  <2>2. CASE k \notin DOMAIN cloud.services
    <3>1. k \in DOMAIN found /\ given[k] = found[k]
      BY <2>2 DEF Merge
    <3>2. FromFirst(d, env, DotEnvFiles(d, env), k, found[k])
      BY <1>2, <3>1, FoundLemma, Zenon DEF found
    <3> QED
      BY <2>2, <3>1, <3>2, Zenon
  <2> QED
    BY <2>1, <2>2, ZenonT(60)
<1> QED
  BY <1>1, <1>2, Zenon DEF DotEnvPrecedence, FromFirst

-----------------------------------------------------------------------------
\* The relationships once those of name, which are s, have been gone through.
Ranged(name, s) ==
    LET all == Rabbits(s, Len(s))
        new == {ManagementName(name, s, i) : i \in all}
        Nth(m) == CHOOSE i \in all : ManagementName(name, s, i) = m
    IN  [m \in DOMAIN links \union new |-> IF m \in new THEN <<ManagementOf(s[Nth(m)])>> ELSE links[m]]

\* A step of Remote.Relationships gives the name its management
\* relationships, and leaves those of the other names as they are.
LEMMA ManagementLemma ==
    ASSUME CloudInv, Apart, NEW name \in left, Management(name)
    PROVE  /\ \A n \in left' : links'[n] = cloud.links[n]
           /\ \A n \in DOMAIN cloud.links \ left' :
                 \A i \in Rabbits(cloud.links[n], Len(cloud.links[n])) : Managed(n, i)'
<1> DEFINE s == cloud.links[name]
           all == Rabbits(s, Len(s))
           new == {ManagementName(name, s, i) : i \in all}
           Nth(m) == CHOOSE i \in all : ManagementName(name, s, i) = m
<1>1. IsCloud(cloud) /\ name \in DOMAIN cloud.links /\ links[name] = s /\ cloud' = cloud /\ left' = left \ {name}
  BY Zenon DEF CloudInv, Management
<1>2. links' = [m \in DOMAIN links \union new |->
                   IF m \in new THEN <<ManagementOf(s[Nth(m)])>> ELSE links[m]]
  <2>1. links' = Ranged(name, links[name])
    BY Zenon DEF Management, Ranged
  <2>2. links' = Ranged(name, s)
    BY <1>1, <2>1, Zenon
  <2> QED
    BY <2>2, Zenon DEF Ranged
<1>3. ASSUME NEW n \in DOMAIN cloud.links, NEW i \in Rabbits(cloud.links[n], Len(cloud.links[n]))
      PROVE  Count(cloud.links[n], i) \in Nat \ {0}
             /\ ManagementName(n, cloud.links[n], i) = Grown(n, Count(cloud.links[n], i))
  <2>1. Len(cloud.links[n]) \in Nat
    BY <1>1, Zenon DEF IsCloud
  <2> QED
    BY <2>1, CountLemma, Zenon DEF ManagementName, Count
<1>4. ASSUME NEW n \in DOMAIN cloud.links PROVE n \notin new
  <2> SUFFICES ASSUME NEW j \in all, n = ManagementName(name, s, j) PROVE FALSE
    BY Zenon
  <2> DEFINE b == Count(s, j)
  <2>1. b \in Nat \ {0} /\ n = Grown(name, b)
    BY <1>1, <1>3, Zenon
  <2> HIDE DEF b
  <2> QED
    BY <1>1, <2>1, ApartNames, Zenon
<1>5. ASSUME NEW n \in DOMAIN cloud.links, n # name,
             NEW i \in Rabbits(cloud.links[n], Len(cloud.links[n]))
      PROVE  ManagementName(n, cloud.links[n], i) \notin new
  <2> SUFFICES ASSUME NEW j \in all, ManagementName(n, cloud.links[n], i) = ManagementName(name, s, j)
               PROVE  FALSE
    BY Zenon
  <2> DEFINE a == Count(cloud.links[n], i)
             b == Count(s, j)
  <2>1. a \in Nat \ {0} /\ b \in Nat /\ Grown(n, a) = Grown(name, b)
    BY <1>1, <1>3, Zenon
  <2> HIDE DEF a, b
  <2> QED
    BY <1>1, <1>5, <2>1, ApartLemma, Zenon
<1>6. ASSUME NEW i \in all PROVE Nth(ManagementName(name, s, i)) = i
  <2>1. ASSUME NEW j \in all, ManagementName(name, s, j) = ManagementName(name, s, i) PROVE j = i
    <3> DEFINE a == Count(s, i)
               b == Count(s, j)
    <3>1. a \in Nat \ {0} /\ b \in Nat /\ Grown(name, a) = Grown(name, b)
      BY <1>1, <1>3, <2>1, Zenon
    <3>2. a = b
      <4> HIDE DEF a, b
      <4> QED
        BY <1>1, <3>1, ApartLemma, ZenonT(60)
    <3>3. Len(s) \in Nat
      BY <1>1, Zenon DEF IsCloud
    <3> QED
      BY <3>2, <3>3, CountLemma, Zenon
  <2> QED
    BY <2>1, Zenon
<1> HIDE DEF Nth, new, all
<1>7. ASSUME NEW n \in left' PROVE links'[n] = cloud.links[n]
  <2>1. n \in left /\ n \in DOMAIN cloud.links /\ n \in DOMAIN links /\ links[n] = cloud.links[n]
    BY <1>1, Zenon DEF CloudInv
  <2> QED
    BY <1>2, <1>4, <2>1
<1>8. ASSUME NEW n \in DOMAIN cloud.links \ left', NEW i \in Rabbits(cloud.links[n], Len(cloud.links[n]))
      PROVE  Managed(n, i)'
  <2> DEFINE m == ManagementName(n, cloud.links[n], i)
  <2>1. m \in DOMAIN links' /\ links'[m] = <<ManagementOf(cloud.links[n][i])>>
    <3>1. CASE n = name
      <4>1. i \in all /\ m \in new /\ Nth(m) = i
        BY <1>6, <3>1, Zenon DEF all, new
      <4> HIDE DEF m
      <4> QED
        BY <1>2, <3>1, <4>1
    <3>2. CASE n # name
      <4>1. n \notin left
        BY <1>1, <3>2, Zenon
      <4>2. m \in DOMAIN links /\ links[m] = <<ManagementOf(cloud.links[n][i])>>
        BY <4>1, Zenon DEF CloudInv, Managed
      <4>3. m \notin new
        BY <1>5, <3>2, Zenon
      <4> HIDE DEF m
      <4> QED
        BY <1>2, <4>2, <4>3
    <3> QED
      BY <3>1, <3>2, Zenon
  <2> QED
    BY <1>1, <2>1, Zenon DEF Managed
<1> QED
  BY <1>7, <1>8, Zenon

LEMMA CloudStep ==
    CloudInv /\ [CloudNext]_cloudVars => CloudInv'
<1> SUFFICES ASSUME CloudInv, [CloudNext]_cloudVars PROVE CloudInv'
  BY Zenon
<1>1. ASSUME NEW name \in left, Management(name) PROVE CloudInv'
  <2>1. cloud' = cloud /\ stage' = "management" /\ left' \subseteq left /\ DOMAIN links \subseteq DOMAIN links'
    BY <1>1 DEF Management
  <2>2. Apart' = Apart
    BY <2>1, Zenon DEF Apart
  <2>3. CASE Apart
    <3>1. /\ \A n \in left' : links'[n] = cloud'.links[n]
          /\ \A n \in DOMAIN cloud'.links \ left' :
                \A i \in Rabbits(cloud'.links[n], Len(cloud'.links[n])) : Managed(n, i)'
      BY <1>1, <2>1, <2>3, ManagementLemma, Zenon
    <3>2. stage' # "done"
      BY <2>1
    <3> QED
      BY <2>1, <3>1, <3>2, Zenon DEF CloudInv
  <2>4. CASE ~Apart
    <3>1. stage' # "done"
      BY <2>1
    <3> QED
      BY <2>1, <2>2, <2>4, <3>1, Zenon DEF CloudInv
  <2> QED
    BY <2>3, <2>4, Zenon
<1>2. CASE Compute
  <2>1. Apart' = Apart /\ \A n, i : Managed(n, i)' = Managed(n, i)
    BY <1>2, Zenon DEF Compute, Apart, Managed
  <2> QED
    BY <1>2, <2>1, Zenon DEF CloudInv, Compute
<1>3. CASE UNCHANGED cloudVars
  <2>1. Apart' = Apart /\ \A n, i : Managed(n, i)' = Managed(n, i)
    BY <1>3, Zenon DEF cloudVars, Apart, Managed
  <2> QED
    BY <1>3, <2>1, Zenon DEF CloudInv, cloudVars
<1> QED
  BY <1>1, <1>2, <1>3, Zenon DEF CloudNext

\* Whatever relationships, routes, variables and .env files a project in the
\* cloud has, and in whatever order Remote.Relationships ranges over the map:
\* the two searches of the default route agree, APP_ENV and SYMFONY_ENV do
\* too, every RabbitMQ endpoint has its management relationship, and every
\* variable of the .env files comes from the first file that defines it.
THEOREM CloudVariablesSoundAlways == CloudSpec => []CloudVariablesSound
<1>1. (\E w : IsCloud(w) /\ CloudInit(w, "management")) => CloudInv
  <2> SUFFICES ASSUME NEW w, IsCloud(w), CloudInit(w, "management") PROVE CloudInv
    BY Zenon
  <2>1. stage = "management" /\ stage # "done" /\ cloud = w /\ links = w.links /\ left = DOMAIN w.links
    BY DEF CloudInit
  <2> QED
    BY <2>1, Zenon DEF CloudInv
<1>2. CloudInv => CloudVariablesSound
  <2> SUFFICES ASSUME CloudInv PROVE CloudVariablesSound
    BY Zenon
  <2>1. RoutesAgree
    BY RoutesLemma, Zenon DEF RoutesAgree, CloudInv
  <2>2. ASSUME stage = "done"
        PROVE  extra.remote = Merge(RemoteExtra(cloud), Mailer(cloud.os)) /\ extra.dotenv = LoadDotEnv(cloud)
    BY <2>2 DEF CloudInv
  <2>3. PairsAgree
    BY <2>2, PairsLemma, Zenon DEF PairsAgree
  <2>4. DotEnvPrecedence
    <3>1. CASE stage = "done"
      BY <2>2, <3>1, DotEnvLemma, Zenon
    <3>2. CASE stage # "done"
      BY <3>2, Zenon DEF DotEnvPrecedence
    <3> QED
      BY <3>1, <3>2, Zenon
  <2>5. EveryManagement
    <3> SUFFICES ASSUME stage = "done", Apart, NEW n \in DOMAIN cloud.links, NEW i \in DOMAIN cloud.links[n],
                        cloud.links[n][i].scheme = "amqp"
                 PROVE  \E m \in DOMAIN links : \E j \in DOMAIN links[m] :
                            /\ links[m][j].port = "15672" /\ links[m][j].scheme = "http"
                            /\ links[m][j].host = cloud.links[n][i].host
      BY Zenon DEF EveryManagement
    <3> DEFINE e == cloud.links[n][i]
               m == ManagementName(n, cloud.links[n], i)
    <3>1. i \in Rabbits(cloud.links[n], Len(cloud.links[n])) /\ {"scheme", "host", "port"} \subseteq DOMAIN e
      BY Zenon DEF CloudInv, IsCloud, Rabbits
    <3>2. m \in DOMAIN links /\ links[m] = <<ManagementOf(e)>>
      BY <3>1, Zenon DEF CloudInv, Managed
    <3> HIDE DEF m, e
    <3>3. ManagementOf(e).port = "15672" /\ ManagementOf(e).scheme = "http" /\ ManagementOf(e).host = e.host
      BY <3>1 DEF ManagementOf
    <3>4. 1 \in DOMAIN links[m] /\ links[m][1] = ManagementOf(e)
      BY <3>2
    <3> QED
      BY <3>2, <3>3, <3>4, Zenon DEF e
  <2> QED
    BY <2>1, <2>3, <2>4, <2>5, Zenon DEF CloudVariablesSound
<1> QED
  BY <1>1, <1>2, CloudStep, PTL DEF CloudSpec

=============================================================================
