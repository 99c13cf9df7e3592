------------------------------ MODULE Domains ------------------------------
(***************************************************************************)
(* The local domain names of the proxy (local/proxy/config.go).  A name is *)
(* the sequence of its labels, "*" included, and is attached to a project  *)
(* directory; every attached name is reachable under the TLD of the        *)
(* configuration, a record [tld, domains].                                 *)
(***************************************************************************)
EXTENDS Sequences, Integers, FiniteSets

CONSTANTS Labels,  \* labels of names, "*" excepted
          TLDs,    \* single labels
          Tails,   \* the pairs <<label, tld>> where the text of label ends with tld
          Dirs,    \* project directories
          NoDir    \* the empty string that a map gives for a missing key

ASSUME DomainsAssumption ==
    /\ "*" \notin Labels \cup TLDs
    /\ TLDs \subseteq Labels
    /\ NoDir \notin Dirs

Names == Seq(Labels \cup {"*"}) \ {<<>>}

IsConfig(conf) ==
    /\ conf.tld \in TLDs
    /\ \A n \in DOMAIN conf.domains : n \in Names /\ conf.domains[n] \in Dirs

\* The test on a name that is attached or detached has no dot before the
\* TLD: the whole label is compared, or only its end.
EndsWithTLD(name, tld) ==
    LET last == name[Len(name)] IN last = tld \/ <<last, tld>> \in Tails

FQDN(conf, name) == Append(name, conf.tld)

domainWithoutTLD(conf, host) ==
    IF Len(host) > 1 /\ host[Len(host)] = conf.tld
    THEN SubSeq(host, 1, Len(host) - 1)
    ELSE host

IsGlob(name) == \E i \in 1..Len(name) : name[i] = "*"

(***************************************************************************)
(* Removing every "*." and keeping the dots gives a suffix to look for:    *)
(* ".a.b" for "*.a.b", which is not a whole name, and a text with two dots *)
(* in a row, the end of no host, when "*" is anywhere but in front.        *)
(***************************************************************************)
GlobMatches(glob, name) ==
    /\ Len(glob) > 1 /\ glob[1] = "*"
    /\ \A i \in 2..Len(glob) : glob[i] # "*"
    /\ Len(name) >= Len(glob)
    /\ \A i \in 2..Len(glob) : name[Len(name) - Len(glob) + i] = glob[i]

GlobsOf(conf, name) == {d \in DOMAIN conf.domains : IsGlob(d) /\ GlobMatches(d, name)}

AnyMatch(conf, name) == CHOOSE d \in GlobsOf(conf, name) : TRUE

\* The longest text among suffixes of one host is the one with most labels.
LongestMatch(conf, name) ==
    CHOOSE d \in GlobsOf(conf, name) : \A e \in GlobsOf(conf, name) : Len(e) <= Len(d)

doNormalizeDomain_AnyMatch(conf, host) ==
    LET name == domainWithoutTLD(conf, host)
    IN  FQDN(conf, IF name \notin DOMAIN conf.domains /\ GlobsOf(conf, name) # {}
                   THEN AnyMatch(conf, name) ELSE name)

doNormalizeDomain(conf, host) ==
    LET name == domainWithoutTLD(conf, host)
    IN  FQDN(conf, IF name \notin DOMAIN conf.domains /\ GlobsOf(conf, name) # {}
                   THEN LongestMatch(conf, name) ELSE name)

GetDir(conf, host) ==
    LET key == domainWithoutTLD(conf, doNormalizeDomain(conf, host))
    IN  IF key \in DOMAIN conf.domains THEN conf.domains[key] ELSE NoDir

GetDomains(conf, dir) ==
    {FQDN(conf, d) : d \in {e \in DOMAIN conf.domains : conf.domains[e] = dir}}

GetReachableDomains(conf, dir) ==
    {FQDN(conf, d) : d \in {e \in DOMAIN conf.domains : ~IsGlob(e) /\ conf.domains[e] = dir}}
=============================================================================
