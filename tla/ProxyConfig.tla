---------------------------- MODULE ProxyConfig ----------------------------
(***************************************************************************)
(* The proxy configuration file proxy.json (local/proxy/config.go).  It is *)
(* read and rewritten without a lock by every proxy:domain:attach,         *)
(* proxy:domain:detach, proxy:tld and server:start, each in a process of   *)
(* its own, and read by the proxy server, which watches it.                *)
(*                                                                         *)
(* os.WriteFile opens (and truncates) the file and then writes it: another *)
(* process may read it empty in between, and two writers that both found   *)
(* it truncated leave the end of the longer text behind the shorter one.   *)
(***************************************************************************)
EXTENDS Domains

CONSTANTS Commands,   \* processes that change the configuration
          DefaultTLD

ASSUME DefaultAssumption == DefaultTLD \in TLDs

VARIABLES file,   \* [text, conf]: what proxy.json holds
          job,    \* Commands -> the operation it was asked for
          cmd,    \* Commands -> [pc, conf, base]; base is what Load read
          mem,    \* the Config of the proxy server
          watch,  \* where the goroutine of Watch is; off before it watches
          chan,   \* whether watcherChan, of capacity 1, is full
          got,    \* what reload read last
          heard   \* whether the last write came when the file was watched

confVars == <<file, job, cmd, mem, watch, chan, got, heard>>

DefaultConfig == [tld |-> DefaultTLD, domains |-> [n \in {} |-> NoDir]]

\* Operations name what they are applied to: dir, names or tld.
Kinds == {"attach", "replace", "detach", "tld", "idle"}

IsOp(op) ==
    /\ op.kind \in Kinds
    /\ op.kind \in {"attach", "replace", "detach"} => \A n \in op.names : n \in Names
    /\ op.kind \in {"attach", "replace"} => op.dir \in Dirs
    /\ op.kind = "tld" => op.tld \in TLDs

CmdPCs == {"start", "create", "default", "read", "open", "write", "ok", "err"}

ConfTypeOK ==
    /\ file.text \in {"absent", "empty", "json", "broken"} /\ IsConfig(file.conf)
    /\ \A c \in Commands : job[c].kind \in Kinds
    /\ \A c \in Commands : cmd[c].pc \in CmdPCs /\ IsConfig(cmd[c].conf)
    /\ IsConfig(mem) /\ IsConfig(got)
    /\ watch \in {"off", "wait", "read", "domains", "tld"}
    /\ chan \in BOOLEAN /\ heard \in BOOLEAN

\* The proxy server has loaded the default file; the file may be gone since.
ConfInit ==
    /\ file \in [text : {"absent", "json"}, conf : {DefaultConfig}]
    /\ cmd = [c \in Commands |-> [pc |-> "start", conf |-> DefaultConfig, base |-> DefaultConfig]]
    /\ mem = DefaultConfig /\ got = DefaultConfig
    /\ watch = "off" /\ chan = FALSE /\ heard = FALSE

(***************************************************************************)
(* The operations on a loaded configuration.  The first name that ends     *)
(* with the TLD makes them return before Save.                             *)
(***************************************************************************)
Refused(conf, op) ==
    op.kind \in {"attach", "replace", "detach"} /\ \E n \in op.names : EndsWithTLD(n, conf.tld)

Keep(domains, S) == [n \in S |-> domains[n]]

WithDir(domains, names, dir) ==
    [n \in DOMAIN domains \cup names |-> IF n \in names THEN dir ELSE domains[n]]

AddDirDomains_Moves(domains, op) ==
    WithDir(Keep(domains, {n \in DOMAIN domains : domains[n] # op.dir}), op.names, op.dir)

AddDirDomains_NoDir(domains, op) == WithDir(domains, op.names, NoDir)

AddDirDomains(domains, op) == WithDir(domains, op.names, op.dir)

ReplaceDirDomains(domains, op) ==
    WithDir(Keep(domains, {n \in DOMAIN domains : domains[n] # op.dir}), op.names, op.dir)

RemoveDirDomains(domains, op) == Keep(domains, DOMAIN domains \ op.names)

Applied(conf, op) ==
    CASE op.kind = "attach"  -> [tld |-> conf.tld, domains |-> AddDirDomains(conf.domains, op)]
      [] op.kind = "replace" -> [tld |-> conf.tld, domains |-> ReplaceDirDomains(conf.domains, op)]
      [] op.kind = "detach"  -> [tld |-> conf.tld, domains |-> RemoveDirDomains(conf.domains, op)]
      [] op.kind = "tld"     -> [tld |-> op.tld, domains |-> conf.domains]
-----------------------------------------------------------------------------
Notify_OnlyIdle ==
    /\ heard' = (watch # "off")
    /\ chan' = (chan \/ watch = "wait")

\* A write to the file that the proxy watches fills the channel or is dropped.
Notify ==
    /\ heard' = (watch # "off")
    /\ chan' = (chan \/ watch # "off")

CmdBecomes(c, pc, conf, base) ==
    cmd' = [cmd EXCEPT ![c] = [pc |-> pc, conf |-> conf, base |-> base]]
CmdGoto(c, pc) == CmdBecomes(c, pc, cmd[c].conf, cmd[c].base)

Truncate(c, next) ==
    /\ file' = [text |-> "empty", conf |-> file.conf]
    /\ Notify
    /\ CmdGoto(c, next)
    /\ UNCHANGED <<job, mem, watch, got>>

\* The new text replaces the one found when it is at least as long.
WriteText(c, conf, next) ==
    /\ \/ file' = [text |-> "json", conf |-> conf]
       \/ /\ file.text # "empty" /\ file.conf # conf
          /\ file' = [text |-> "broken", conf |-> file.conf]
    /\ Notify
    /\ CmdGoto(c, next)
    /\ UNCHANGED <<job, mem, watch, got>>

\* Load: a missing file is created with the default configuration first.
Stat(c) ==
    /\ cmd[c].pc = "start" /\ job[c].kind # "idle"
    /\ CmdGoto(c, IF file.text = "absent" THEN "create" ELSE "read")
    /\ UNCHANGED <<file, job, mem, watch, chan, got, heard>>

Create(c) == cmd[c].pc = "create" /\ Truncate(c, "default")

WriteDefault(c) == cmd[c].pc = "default" /\ WriteText(c, DefaultConfig, "read")

\* The rest of Load, and the operation on what it read.
LoadAndApply(c) ==
    /\ cmd[c].pc = "read"
    /\ IF file.text # "json" \/ Refused(file.conf, job[c])
       THEN CmdGoto(c, "err")
       ELSE CmdBecomes(c, "open", Applied(file.conf, job[c]), file.conf)
    /\ UNCHANGED <<file, job, mem, watch, chan, got, heard>>

\* Save
SaveOpen(c) == cmd[c].pc = "open" /\ Truncate(c, "write")

SaveWrite(c) == cmd[c].pc = "write" /\ WriteText(c, cmd[c].conf, "ok")

Command(c) ==
    \/ Stat(c) \/ Create(c) \/ WriteDefault(c)
    \/ LoadAndApply(c) \/ SaveOpen(c) \/ SaveWrite(c)
-----------------------------------------------------------------------------
\* The goroutine of Watch in the proxy server.
StartWatch ==
    /\ watch = "off" /\ watch' = "wait"
    /\ UNCHANGED <<file, job, cmd, mem, chan, got, heard>>

OnEvent ==
    /\ watch = "wait" /\ chan
    /\ chan' = FALSE /\ watch' = "read"
    /\ UNCHANGED <<file, job, cmd, mem, got, heard>>

ReloadRead ==
    /\ watch = "read"
    /\ IF file.text = "json"
       THEN watch' = "domains" /\ got' = file.conf
       ELSE watch' = "wait" /\ UNCHANGED got
    /\ UNCHANGED <<file, job, cmd, mem, chan, heard>>

ReloadDomains ==
    /\ watch = "domains" /\ watch' = "tld"
    /\ mem' = [mem EXCEPT !.domains = got.domains]
    /\ UNCHANGED <<file, job, cmd, chan, got, heard>>

ReloadTLD ==
    /\ watch = "tld" /\ watch' = "wait"
    /\ mem' = [mem EXCEPT !.tld = got.tld]
    /\ UNCHANGED <<file, job, cmd, chan, got, heard>>

Watch == StartWatch \/ OnEvent \/ ReloadRead \/ ReloadDomains \/ ReloadTLD
-----------------------------------------------------------------------------
(***************************************************************************)
(* A command that saves when no other command wrote since it loaded the    *)
(* file changes what it was asked to and nothing else: the names of its    *)
(* arguments, the other names of its directory (server:start), or the TLD. *)
(* When commands overlap, the last one undoes what the others saved.       *)
(***************************************************************************)
ChangesOnly(op, before, after) ==
    /\ op.kind # "tld" => after.tld = before.tld
    /\ \A n \in DOMAIN before.domains \cup DOMAIN after.domains :
         \/ n \in DOMAIN before.domains /\ n \in DOMAIN after.domains
            /\ before.domains[n] = after.domains[n]
         \/ op.kind \in {"attach", "replace", "detach"} /\ n \in op.names
         \/ op.kind = "replace" /\ n \in DOMAIN before.domains /\ before.domains[n] = op.dir
    /\ op.kind \in {"attach", "replace"} =>
         \A n \in op.names : n \in DOMAIN after.domains /\ after.domains[n] = op.dir

SaveIsExact ==
    [][\A c \in Commands : SaveWrite(c) /\ cmd[c].base = file.conf /\ file'.text = "json"
         => ChangesOnly(job[c], file.conf, file'.conf)]_confVars

(***************************************************************************)
(* The channel of Watch holds one event and reload takes it before it      *)
(* reads: however many commands write while it works, the proxy ends up    *)
(* with what the file holds, provided the file can be parsed and its last  *)
(* write did not fall between Load and Watch.                              *)
(***************************************************************************)
Converges == <>[](file.text = "json" /\ heard => mem = file.conf)
=============================================================================
