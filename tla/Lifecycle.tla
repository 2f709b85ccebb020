------------------------------ MODULE Lifecycle ------------------------------
(***************************************************************************)
(* How the pfSense package brings the saved configuration to the running   *)
(* service: f2bguard_resync_config and f2bguard_generate_rules of          *)
(* f2bguard.inc, and the script rc.d/f2bguard they call.                   *)
(*                                                                         *)
(* A web page saves and resynchronizes; pfSense reloads the filter after   *)
(* an alias changed, and the filter calls the package back.  Both run the  *)
(* same code on the same files and processes, at the same time: they hold  *)
(* no lock but the filter's, inside a reload.  todo[p] is the sequence of  *)
(* steps process p still has to do; a step may put others before the rest, *)
(* and a failure drops steps as far as the code that looks at the result.  *)
(*                                                                         *)
(* External, and taken as the package uses it: one filter reload runs at a *)
(* time; `service f2bguard restart` starts nothing when the enable flag is *)
(* NO, while `service f2bguard stop` stops; pfSense resynchronizes its     *)
(* packages at boot.  An enabled configuration selects an interface.       *)
(***************************************************************************)
EXTENDS Naturals, Sequences

CONSTANTS
    Page,           \* PHP processes that save the configuration
    Filter,         \* the process of a filter reload pfSense began
    Clients,        \* usable values of the configured client list
    Alias,          \* usable contents of the whitelist alias
    MaxSaves,       \* bound on the configurations saved, and on reboots
    MaxAliasChanges,\* bound on the changes of the alias
    Faults,         \* what may go wrong, see LifecycleFaults
    Bad,            \* an alias or client list that does not validate
    None            \* no value: a missing file, a free lock, no server

\* files: writing the snapshot or a certificate fails; config: writing
\* config.json or the enable flag fails; filter: a reload fails; start: the
\* helper or the server does not start; stop: one of them outlives the ten
\* seconds the script gives it to stop; reboot: the firewall reboots.
LifecycleFaults == {"files", "config", "filter", "start", "stop", "reboot"}

ASSUME LifecycleAssumption ==
    /\ Filter \notin Page
    /\ None \notin Page \cup {Filter}
    /\ Clients # {}
    /\ MaxSaves \in Nat
    /\ MaxAliasChanges \in Nat
    /\ Faults \subseteq LifecycleFaults
    /\ {Bad, None} \cap (Clients \cup Alias) = {}

VARIABLES
    config,     \* the package's part of pfSense's configuration
    alias,      \* the content of the whitelist alias
    json,       \* the clients of an enabled config.json, or None
    flag,       \* f2bguard_enable in rc.conf.d
    snapshot,   \* whitelist.txt
    helper,     \* "down" or "up"
    server,     \* "down", "starting" (config.json not read yet) or "up"
    serving,    \* the clients the server was started with, or None
    todo,       \* todo[p]: the steps process p still has to do
    read,       \* read[p]: the configuration and alias p has read and still uses
    failed,     \* failed[p]: the last step of p that can fail did
    lock,       \* who is inside a filter reload, or None
    pending,    \* pfSense has been asked for a filter reload
    spoiled,    \* history: a write of config.json or of the flag, or a stop of
                \* a process, has failed
    saves, changes

files == <<json, flag, snapshot>>
processes == <<helper, server, serving>>
world == <<config, alias, pending, saves, changes>>
lifecycleVars == <<files, processes, world, todo, read, failed, lock, spoiled>>

Process == Page \cup {Filter}

\* What f2bguard_get_alias_addresses finds: the addresses, or that an entry is
\* not a literal one.
AliasContent == Alias \cup {Bad}

\* What f2bguard_validate_runtime_clients finds: the clients, or an error.
ClientList == Clients \cup {Bad}

\* certs: the Certificate Manager has the certificate, key and CA it refers to.
Config == [enabled : BOOLEAN, clients : ClientList, certs : BOOLEAN]

Step == {"resync", "whitelist", "pems", "json", "disable", "flagYes", "flagNo",
         "restart", "stopServer", "stopHelper", "start", "startHelper",
         "startServer", "waitServer", "check", "flagNoAnyway", "reload",
         "callback", "refresh", "unlock", "applied", "disabled"}

LifecycleTypeOK ==
    /\ config \in Config
    /\ alias \in AliasContent
    /\ json \in Clients \cup {None}
    /\ flag \in {"YES", "NO"}
    /\ snapshot \in Alias
    /\ helper \in {"down", "up"}
    /\ server \in {"down", "starting", "up"}
    /\ serving \in Clients \cup {None}
    /\ todo \in [Process -> Seq(Step)]
    /\ read \in [Process -> [config : Config, alias : AliasContent] \cup {None}]
    /\ failed \in [Process -> BOOLEAN]
    /\ lock \in Process \cup {None}
    /\ pending \in BOOLEAN
    /\ spoiled \in BOOLEAN
    /\ saves \in 0 .. MaxSaves
    /\ changes \in 0 .. MaxAliasChanges

\* The package is installed, with a valid alias, and disabled by default.
LifecycleInit ==
    /\ config = [enabled |-> FALSE, clients |-> CHOOSE c \in Clients : TRUE, certs |-> TRUE]
    /\ alias \in Alias
    /\ json = None
    /\ flag = "NO"
    /\ snapshot = alias
    /\ helper = "down"
    /\ server = "down"
    /\ serving = None
    /\ todo = [p \in Process |-> <<>>]
    /\ read = [p \in Process |-> None]
    /\ failed = [p \in Process |-> FALSE]
    /\ lock = None
    /\ pending = FALSE
    /\ spoiled = FALSE
    /\ saves = 0
    /\ changes = 0

-----------------------------------------------------------------------------
(***************************************************************************)
(* The procedures, as the steps they consist of.                           *)
(***************************************************************************)
Stopping == <<"stopServer", "stopHelper">>

\* f2bguard_apply_service_state, without its end.
Applying(on, reload) ==
    (IF on THEN <<"flagYes", "restart", "check">>
           ELSE <<"flagNo">> \o Stopping \o <<"check">>)
    \o (IF reload THEN <<"reload", "check">> ELSE <<>>)

\* Mutant: the service is stopped before config.json is disabled.
Disabling_StopFirst(reload) == Applying(FALSE, reload) \o <<"disable", "disabled">>

\* f2bguard_disable_runtime; its result is false in any case.
Disabling(reload) == <<"disable">> \o Applying(FALSE, reload) \o <<"disabled">>

\* f2bguard_start, as far as its checks before the reload.
Starting == <<"reload", "startHelper", "startServer", "waitServer">>

\* What the code still does after a failure: everything from the next step
\* that looks at it.
DropTo(marks, steps) ==
    LET Marked(i) == steps[i] \in marks
        Later == {i \in DOMAIN steps : Marked(i)}
    IN  IF Later = {} THEN <<>>
        ELSE SubSeq(steps, CHOOSE i \in Later : \A j \in Later : i <= j, Len(steps))

Looking == {"check"}
Ending == {"applied", "disabled"}

-----------------------------------------------------------------------------
\* Process p does its next step.
At(p, step) == todo[p] # <<>> /\ Head(todo[p]) = step

Continue(p, steps) ==
    /\ todo' = [todo EXCEPT ![p] = steps \o Tail(@)]
    /\ UNCHANGED <<world, read, failed, lock>>

\* The step fails, and whoever called it sees so.
Fail(p, marks) ==
    /\ todo' = [todo EXCEPT ![p] = DropTo(marks, Tail(@))]
    /\ failed' = [failed EXCEPT ![p] = TRUE]
    /\ UNCHANGED <<world, read, lock>>

-----------------------------------------------------------------------------
(***************************************************************************)
(* pfSense: configurations are saved, aliases edited, the filter reloaded. *)
(***************************************************************************)
Save(p, c) ==
    /\ todo[p] = <<>>
    /\ saves < MaxSaves
    /\ saves' = saves + 1
    /\ config' = c
    /\ todo' = [todo EXCEPT ![p] = <<"resync">>]
    /\ UNCHANGED <<files, processes, alias, pending, changes, read, failed, lock, spoiled>>

AliasEdited(a) ==
    /\ changes < MaxAliasChanges
    /\ a # alias
    /\ changes' = changes + 1
    /\ alias' = a
    /\ pending' = TRUE
    /\ UNCHANGED <<files, processes, config, saves, todo, read, failed, lock, spoiled>>

FilterReloadBegins ==
    /\ pending
    /\ todo[Filter] = <<>>
    /\ pending' = FALSE
    /\ todo' = [todo EXCEPT ![Filter] = <<"reload">>]
    /\ UNCHANGED <<files, processes, config, alias, saves, changes, read, failed, lock, spoiled>>

\* Whatever ran is gone; pfSense resynchronizes the package, then its filter.
Reboot(p) ==
    /\ "reboot" \in Faults
    /\ saves < MaxSaves
    /\ saves' = saves + 1
    /\ helper' = "down" /\ server' = "down" /\ serving' = None
    /\ todo' = [q \in Process |-> IF q = p THEN <<"resync">> ELSE <<>>]
    /\ read' = [q \in Process |-> None]
    /\ failed' = [q \in Process |-> FALSE]
    /\ lock' = None
    /\ pending' = TRUE
    /\ UNCHANGED <<files, config, alias, changes, spoiled>>

-----------------------------------------------------------------------------
(***************************************************************************)
(* f2bguard_resync_config and what it calls.                               *)
(***************************************************************************)
Reads(p) == read' = [read EXCEPT ![p] = [config |-> config, alias |-> alias]]

\* p goes on with these steps, and no longer uses what it read.
Proceed(p, steps) ==
    /\ todo' = [todo EXCEPT ![p] = steps]
    /\ read' = [read EXCEPT ![p] = None]
    /\ UNCHANGED <<world, failed, lock>>

\* Mutant: the client list is not validated again.
Resync_Unvalidated(p) ==
    LET Valid == alias # Bad IN
    /\ At(p, "resync")
    /\ \/ ~Valid /\ Proceed(p, Disabling(TRUE))
       \/ /\ Valid
          /\ Reads(p)
          /\ todo' = [todo EXCEPT ![p] = <<"whitelist", "pems", "json">>
                                 \o Applying(config.enabled, TRUE) \o <<"applied">>]
          /\ UNCHANGED <<world, failed, lock>>
    /\ UNCHANGED <<files, processes, spoiled>>

Resync(p) ==
    LET Valid == config.clients # Bad /\ alias # Bad IN
    /\ At(p, "resync")
    /\ \/ ~Valid /\ Proceed(p, Disabling(TRUE))
       \/ /\ Valid
          /\ Reads(p)
          /\ todo' = [todo EXCEPT ![p] = <<"whitelist", "pems", "json">>
                                 \o Applying(config.enabled, TRUE) \o <<"applied">>]
          /\ UNCHANGED <<world, failed, lock>>
    /\ UNCHANGED <<files, processes, spoiled>>

\* What a file holds after f2bguard_atomic_write has failed: the write may
\* have replaced it, since the mode and owner are set once more afterwards.
FailedWrite(old, new) == {old, new}

WriteWhitelist(p) ==
    /\ At(p, "whitelist")
    /\ \/ snapshot' = read[p].alias /\ Continue(p, <<>>)
       \/ "files" \in Faults /\ snapshot' \in FailedWrite(snapshot, read[p].alias)
          /\ Proceed(p, Disabling(TRUE))
    /\ UNCHANGED <<json, flag, processes, spoiled>>

MaterialAvailable(c) == c.enabled => c.certs

\* The certificate material is missing, or cannot be written.
WritePems(p) ==
    /\ At(p, "pems")
    /\ \/ MaterialAvailable(read[p].config) /\ Continue(p, <<>>)
       \/ /\ "files" \in Faults \/ ~MaterialAvailable(read[p].config)
          /\ Proceed(p, Disabling(TRUE))
    /\ UNCHANGED <<files, processes, spoiled>>

\* What config.json says of a configuration: its clients, if it is enabled.
RuntimeConfig(c) == IF c.enabled THEN c.clients ELSE None

\* When config.json cannot be written, the service is left as it was.
WriteJson(p) ==
    LET new == RuntimeConfig(read[p].config) IN
    /\ At(p, "json")
    /\ \/ json' = new /\ spoiled' = spoiled /\ Proceed(p, Tail(todo[p]))
       \/ "config" \in Faults /\ json' \in FailedWrite(json, new) /\ spoiled' = TRUE /\ Proceed(p, <<>>)
    /\ UNCHANGED <<flag, snapshot, processes>>

\* f2bguard_disable_runtime goes on whether or not it wrote config.json.
WriteDisabled(p) ==
    /\ At(p, "disable")
    /\ \/ json' = None /\ spoiled' = spoiled
       \/ "config" \in Faults /\ json' \in FailedWrite(json, None) /\ spoiled' = TRUE
    /\ Continue(p, <<>>)
    /\ UNCHANGED <<flag, snapshot, processes>>

\* Without its flag the service is neither started nor stopped.
WriteFlag(p, value) ==
    /\ At(p, IF value = "YES" THEN "flagYes" ELSE "flagNo")
    /\ \/ flag' = value /\ spoiled' = spoiled /\ Continue(p, <<>>)
       \/ "config" \in Faults /\ flag' \in FailedWrite(flag, value) /\ spoiled' = TRUE /\ Fail(p, Ending)
    /\ UNCHANGED <<json, snapshot, processes>>

\* A service command or the reload is over; on failure the service is
\* disabled and stopped, and this time no result is looked at.
Check(p) ==
    /\ At(p, "check")
    /\ todo' = [todo EXCEPT ![p] =
                   IF failed[p]
                   THEN <<"flagNoAnyway">> \o Stopping \o DropTo(Ending, Tail(@))
                   ELSE Tail(@)]
    /\ UNCHANGED <<files, processes, world, read, failed, lock, spoiled>>

WriteFlagAnyway(p) ==
    /\ At(p, "flagNoAnyway")
    /\ \/ flag' = "NO" /\ spoiled' = spoiled
       \/ "config" \in Faults /\ flag' \in FailedWrite(flag, "NO") /\ spoiled' = TRUE
    /\ Continue(p, <<>>)
    /\ UNCHANGED <<json, snapshot, processes>>

\* Mutant: a resynchronization that failed is tried again.
Applied_Retries(p) ==
    /\ At(p, "applied") \/ At(p, "disabled")
    /\ todo' = [todo EXCEPT ![p] =
                   (IF failed[p] /\ At(p, "applied") THEN <<"disable", "resync">> ELSE <<>>) \o Tail(@)]
    /\ failed' = [failed EXCEPT ![p] = FALSE]
    /\ UNCHANGED <<files, processes, world, read, lock, spoiled>>

\* A resynchronization that could not apply the state disables config.json.
Applied(p) ==
    /\ At(p, "applied") \/ At(p, "disabled")
    /\ todo' = [todo EXCEPT ![p] =
                   (IF failed[p] /\ At(p, "applied") THEN <<"disable">> ELSE <<>>) \o Tail(@)]
    /\ failed' = [failed EXCEPT ![p] = FALSE]
    /\ UNCHANGED <<files, processes, world, read, lock, spoiled>>

-----------------------------------------------------------------------------
(***************************************************************************)
(* rc.d/f2bguard, and the processes it starts.                             *)
(***************************************************************************)
Restart(p) ==
    /\ At(p, "restart")
    /\ \/ flag = "YES" /\ Continue(p, Stopping \o <<"start">>)
       \/ flag = "NO" /\ (Continue(p, <<>>) \/ Fail(p, Looking))
    /\ UNCHANGED <<files, processes, spoiled>>

\* A process outlives its stop: the script ends, and stops no other.  Whoever
\* called it sees so, but for the last stop of a failed attempt, of which no
\* result is looked at.  A restart may go on with its start: rc.subr decides.
StopFails(p) ==
    LET rest == DropTo({"start"} \cup Looking \cup Ending, Tail(todo[p])) IN
    /\ "stop" \in Faults
    /\ spoiled' = TRUE
    /\ \/ Fail(p, Looking \cup Ending)
       \/ /\ rest # <<>> /\ Head(rest) = "start"
          /\ todo' = [todo EXCEPT ![p] = rest]
          /\ UNCHANGED <<world, read, failed, lock>>

StopServer(p) ==
    /\ At(p, "stopServer")
    /\ \/ server' = "down" /\ serving' = None /\ spoiled' = spoiled /\ Continue(p, <<>>)
       \/ server # "down" /\ UNCHANGED <<server, serving>> /\ StopFails(p)
    /\ UNCHANGED <<files, helper>>

StopHelper(p) ==
    /\ At(p, "stopHelper")
    /\ \/ helper' = "down" /\ spoiled' = spoiled /\ Continue(p, <<>>)
       \/ helper # "down" /\ helper' = helper /\ StopFails(p)
    /\ UNCHANGED <<files, server, serving>>

\* A disabled configuration is no error.  The script also refuses to start
\* without a snapshot; config.json is enabled only after one was written.
Start(p) ==
    /\ At(p, "start")
    /\ \/ json = None /\ Continue(p, <<>>)
       \/ json # None /\ Continue(p, Starting)
    /\ UNCHANGED <<files, processes, spoiled>>

StartHelper(p) ==
    /\ At(p, "startHelper")
    /\ \/ helper' = "up" /\ Continue(p, <<>>)
       \/ "start" \in Faults /\ helper = "down" /\ helper' = helper /\ Fail(p, Looking)
    /\ UNCHANGED <<files, server, serving, spoiled>>

StartServer(p) ==
    /\ At(p, "startServer")
    /\ server' = IF server = "down" THEN "starting" ELSE server
    /\ Continue(p, <<>>)
    /\ UNCHANGED <<files, helper, serving, spoiled>>

\* The server looks at config.json, and ends when it is disabled.
ServerReadsConfig ==
    /\ server = "starting"
    /\ \/ json # None /\ server' = "up" /\ serving' = json
       \/ (json = None \/ "start" \in Faults) /\ server' = "down" /\ serving' = serving
    /\ UNCHANGED <<files, helper, world, todo, read, failed, lock, spoiled>>

\* A server that lives for a second has started; the partial start of one
\* that does not is undone, as far as the helper lets itself be stopped.
WaitServer(p) ==
    /\ At(p, "waitServer")
    /\ \/ server # "down" /\ helper' = helper /\ spoiled' = spoiled /\ Continue(p, <<>>)
       \/ /\ server = "down"
          /\ \/ helper' = "down" /\ spoiled' = spoiled
             \/ "stop" \in Faults /\ helper' = helper /\ spoiled' = TRUE
          /\ Fail(p, Looking)
    /\ UNCHANGED <<files, server, serving>>

-----------------------------------------------------------------------------
(***************************************************************************)
(* A filter reload and the callback f2bguard_generate_rules inside it.     *)
(***************************************************************************)
Reload(p) ==
    /\ At(p, "reload")
    /\ lock = None
    /\ lock' = p
    /\ todo' = [todo EXCEPT ![p] = <<"callback", "unlock">> \o Tail(@)]
    /\ UNCHANGED <<files, processes, world, read, failed, spoiled>>

GenerateRules(p) ==
    /\ At(p, "callback")
    /\ Reads(p)
    /\ todo' = [todo EXCEPT ![p] =
                   (IF config.enabled THEN <<"refresh">> ELSE <<>>) \o Tail(@)]
    /\ UNCHANGED <<files, processes, world, failed, lock, spoiled>>

\* Mutant: the callback disables the runtime as a page does, with a reload.
RefreshWhitelist_Reloads(p) ==
    /\ At(p, "refresh")
    /\ \/ /\ read[p].alias # Bad
          /\ snapshot' = read[p].alias
          /\ Proceed(p, Tail(todo[p]))
       \/ /\ \/ read[p].alias = Bad /\ snapshot' = snapshot
             \/ /\ "files" \in Faults /\ read[p].alias # Bad
                /\ snapshot' \in FailedWrite(snapshot, read[p].alias)
          /\ Proceed(p, Disabling(TRUE) \o Tail(todo[p]))
    /\ UNCHANGED <<json, flag, processes, spoiled>>

\* f2bguard_refresh_whitelist: "This must not request another filter reload".
RefreshWhitelist(p) ==
    /\ At(p, "refresh")
    /\ \/ /\ read[p].alias # Bad
          /\ snapshot' = read[p].alias
          /\ Proceed(p, Tail(todo[p]))
       \/ /\ \/ read[p].alias = Bad /\ snapshot' = snapshot
             \/ /\ "files" \in Faults /\ read[p].alias # Bad
                /\ snapshot' \in FailedWrite(snapshot, read[p].alias)
          /\ Proceed(p, Disabling(FALSE) \o Tail(todo[p]))
    /\ UNCHANGED <<json, flag, processes, spoiled>>

ReloadEnds(p) ==
    /\ At(p, "unlock")
    /\ lock' = None
    /\ \/ todo' = [todo EXCEPT ![p] = Tail(@)] /\ failed' = failed
       \/ "filter" \in Faults /\ p \in Page
          /\ todo' = [todo EXCEPT ![p] = DropTo(Looking, Tail(@))]
          /\ failed' = [failed EXCEPT ![p] = TRUE]
    /\ UNCHANGED <<files, processes, world, read, spoiled>>

-----------------------------------------------------------------------------
\* Process p does its next step, whatever it is.
Does(p) ==
    \/ Resync(p) \/ WriteWhitelist(p) \/ WritePems(p) \/ WriteJson(p)
    \/ WriteDisabled(p) \/ Check(p) \/ WriteFlagAnyway(p) \/ Applied(p)
    \/ \E value \in {"YES", "NO"} : WriteFlag(p, value)
    \/ Restart(p) \/ StopServer(p) \/ StopHelper(p)
    \/ Start(p) \/ StartHelper(p) \/ StartServer(p) \/ WaitServer(p)
    \/ Reload(p) \/ GenerateRules(p) \/ RefreshWhitelist(p) \/ ReloadEnds(p)

LifecycleNext ==
    \/ \E p \in Page : Reboot(p) \/ \E c \in Config : Save(p, c)
    \/ \E a \in AliasContent : AliasEdited(a)
    \/ FilterReloadBegins
    \/ ServerReadsConfig
    \/ \E p \in Process : Does(p)

LifecycleSpec == LifecycleInit /\ [][LifecycleNext]_lifecycleVars

\* The processes run, pfSense carries out a reload it was asked for, and whoever
\* waits for the filter lock gets it in the end.
LifecycleFairness ==
    /\ \A p \in Process : WF_lifecycleVars(Does(p)) /\ SF_lifecycleVars(Reload(p))
    /\ WF_lifecycleVars(FilterReloadBegins)
    /\ WF_lifecycleVars(ServerReadsConfig)

FairLifecycleSpec == LifecycleSpec /\ LifecycleFairness

-----------------------------------------------------------------------------
\* Nothing is under way.
Quiet ==
    /\ \A p \in Process : todo[p] = <<>>
    /\ ~pending
    /\ server # "starting"

\* Fail closed: when everything is applied, a server that runs was started
\* with the saved, valid configuration and enforces the alias as it is, with
\* its helper beside it - whatever page and filter callback did in between, and
\* whatever failed but three things the code does not recover from: a write of
\* config.json, a write of the flag, and a process that outlives its stop.
ServesWhatIsSaved ==
    Quiet /\ ~spoiled /\ server = "up"
        => /\ config.enabled /\ config.certs
           /\ serving = config.clients
           /\ alias = snapshot
           /\ helper = "up"

\* "This must not request another filter reload (which would recurse)"
\* (f2bguard.inc): no process comes to wait for the filter lock it holds,
\* through whatever failures the package's code runs inside a reload.
NobodyWaitsForItself ==
    \A p \in Process : At(p, "reload") => lock # p

\* Every save, boot and callback runs to its end: a failure that disables the
\* runtime does not lead to the next attempt to disable it, and page and
\* callback do not wait for each other.
EveryProcedureEnds == []<>Quiet
=============================================================================
