------------------------------- MODULE AppConfig -------------------------------
(***************************************************************************)
(* The configuration of the running programs.  The desktop application and *)
(* the command line keep a copy each in memory (InnerState.config) and     *)
(* share one file, module JsonFile.  LoadConfig and SaveConfig             *)
(* (app/service/api.rs) do the file first and the memory after it, under   *)
(* different locks or none, and the desktop runs each command in a future  *)
(* of its own.  Every start-up reads the file for the server to use        *)
(* (rca-app/src/lib.rs), and every notification for its webhooks           *)
(* (notify/webhook.rs).                                                    *)
(*                                                                         *)
(* A configuration is two settings: the server, which both programs can    *)
(* set, and another, which neither shows nor asks for.  The session's file *)
(* takes no part; it is JsonFile as it stands.                             *)
(***************************************************************************)
EXTENDS JsonFile

CONSTANTS
    Tenants,        \* servers
    Others,         \* values of the other setting
    Broken          \* a document that does not parse

Configs == [tenant : Tenants, other : Others]

ASSUME ConfigAssumption ==
    /\ Documents = Configs \cup {Broken}
    /\ Broken \notin Configs
    /\ Default \in Configs

VARIABLES
    program,        \* program[p]: the program p is a future of
    stage,          \* stage[a]: how far the start-up of a has come
    memory,         \* memory[a]: InnerState.config
    command,        \* command[p]: what p does; "store": the file is done with
    config,         \* config[p]: what p will put into the memory
    alone,          \* nothing has crossed the command of p so far (history)
    settled         \* a's last command ran alone and no one else has written
                    \* the file since (history)

app == <<program, stage, memory, command, config, alone, settled>>
appVars == <<vars, app>>

Programs == {"desktop", "cli"}
Stages == {"off", "building", "loading", "ready"}

AppInit ==
    /\ Init
    /\ program \in [Procs -> Programs]
    /\ kind = "session" => \A p \in Procs : program[p] = "desktop"
    /\ stage = [a \in Programs |-> "off"]
    /\ memory = [a \in Programs |-> Default]
    /\ command = [p \in Procs |-> "none"]
    /\ config = [p \in Procs |-> NoDocument]
    /\ alone = [p \in Procs |-> FALSE]
    /\ settled = [a \in Programs |-> FALSE]

Busy(a) == \E p \in Procs : program[p] = a /\ command[p] # "none"

\* The desktop runs commands side by side once it has started.
MayBegin(p, stages) ==
    /\ command[p] = "none"
    /\ stage[program[p]] \in stages
    /\ Busy(program[p]) => program[p] = "desktop" /\ stage["desktop"] = "ready"

\* p has written to the file or may still do so, or holds what it has read.
InTheWay(p) == command[p] # "none" /\ ~(command[p] = "read" /\ op[p] = "read")

Begins(p, c) ==
    /\ command' = [command EXCEPT ![p] = c]
    /\ alone' = [q \in Procs |->
          IF q = p THEN \A r \in Procs \ {p} : ~InTheWay(r)
          ELSE alone[q] /\ c = "read" /\ target # NoInode]

Ends(p, c) ==
    /\ command' = [command EXCEPT ![p] = c]
    /\ alone' = [alone EXCEPT ![p] = @ /\ c = "store"]

\* What comes after a step of the start-up, however it went.
StageAfter(p) ==
    [stage EXCEPT ![program[p]] =
        IF @ = "building" THEN "loading" ELSE "ready"]

-----------------------------------------------------------------------------
(* Programs.                                                               *)

Starts(a) ==
    /\ stage[a] = "off"
    /\ stage' = [stage EXCEPT ![a] = "building"]
    /\ UNCHANGED <<vars, program, memory, command, config, alone, settled>>

\* The window is closed, the command line is done, or the process is killed.
Exits(a) ==
    /\ stage[a] # "off"
    /\ stage' = [stage EXCEPT ![a] = "off"]
    /\ LET P == {p \in Procs : program[p] = a} IN
       /\ Crash(P)
       /\ command' = [p \in Procs |-> IF p \in P THEN "none" ELSE command[p]]
       /\ config' = [p \in Procs |-> IF p \in P THEN NoDocument ELSE config[p]]
       /\ alone' = [p \in Procs |-> p \notin P /\ alone[p]]
    /\ memory' = [memory EXCEPT ![a] = Default]
    /\ settled' = [settled EXCEPT ![a] = FALSE]
    /\ UNCHANGED program

\* `config edit`, or an editor of the user's choice.
Edits(d) ==
    /\ Edit(d)
    /\ alone' = [p \in Procs |-> FALSE]
    /\ settled' = [a \in Programs |-> FALSE]
    /\ UNCHANGED <<program, stage, memory, command, config>>

-----------------------------------------------------------------------------
(* Reading the file.                                                       *)

\* build_core_app, for the server; ConfigWebhookNotifier, for each notification.
Reads(p) ==
    /\ \/ MayBegin(p, {"building"})
       \/ program[p] = "desktop" /\ MayBegin(p, {"ready"})
    /\ LoadOpens(p) \/ LoadFindsNone(p)
    /\ Begins(p, "read")
    /\ UNCHANGED <<program, stage, memory, config, settled>>

\* LoadConfig: at the start-up, and after `config edit`.
LoadsConfig(p) ==
    /\ \/ MayBegin(p, {"loading"})
       \/ program[p] = "cli" /\ MayBegin(p, {"ready"})
    /\ LoadOpens(p) \/ LoadFindsNone(p)
    /\ Begins(p, "load")
    /\ UNCHANGED <<program, stage, memory, config, settled>>

\* load returns what it has read, if it parses; start-ups go on without it.
Loaded(p) ==
    /\ LoadReads(p)
    /\ IF command[p] = "load" /\ data[fd[p]] \in Configs
       THEN /\ Ends(p, "store")
            /\ config' = [config EXCEPT ![p] = data[fd[p]]]
            /\ UNCHANGED stage
       ELSE /\ Ends(p, "none")
            /\ stage' = StageAfter(p)
            /\ UNCHANGED config
    /\ UNCHANGED <<program, memory, settled>>

-----------------------------------------------------------------------------
(* Writing the file.                                                       *)

\* Mutant: the service takes the configuration over before it is saved.
SavesConfig_MemoryFirst(p) ==
    /\ program[p] = "desktop" /\ MayBegin(p, {"ready"})
    /\ \E t \in Tenants : LET c == [tenant |-> t, other |-> Default.other] IN
          /\ BeginSave(p, c)
          /\ memory' = [memory EXCEPT !["desktop"] = c]
    /\ Begins(p, "save")
    /\ UNCHANGED <<program, stage, config, settled>>

\* The settings page: build_config_dto_from_ui_values makes the configuration
\* of what the page shows; the settings it does not show are reset.
SavesConfig(p) ==
    /\ program[p] = "desktop" /\ MayBegin(p, {"ready"})
    /\ \E t \in Tenants : BeginSave(p, [tenant |-> t, other |-> Default.other])
    /\ Begins(p, "save")
    /\ UNCHANGED <<program, stage, memory, config, settled>>

\* Mutant: like the settings page, the command line saves the settings it has.
SetsTenant_ResetsRest(p) ==
    /\ program[p] = "cli" /\ MayBegin(p, {"ready"})
    /\ \E t \in Tenants : BeginSave(p, [Default EXCEPT !.tenant = t])
    /\ Begins(p, "save")
    /\ UNCHANGED <<program, stage, memory, config, settled>>

\* `config set-tenant`: GetConfig, then SaveConfig.
SetsTenant(p) ==
    /\ program[p] = "cli" /\ MayBegin(p, {"ready"})
    /\ \E t \in Tenants : BeginSave(p, [memory["cli"] EXCEPT !.tenant = t])
    /\ Begins(p, "save")
    /\ UNCHANGED <<program, stage, memory, config, settled>>

Writes(p) ==
    /\ OpenTmp(p) \/ WriteTmp(p)
    /\ UNCHANGED app

\* save returns; so does a load that has created the file.
Saved(p) ==
    /\ RenameTmp(p)
    /\ settled' = [a \in Programs |-> a = program[p] /\ settled[a]]
    /\ IF command[p] \in {"load", "save"}
       THEN /\ Ends(p, "store")
            /\ config' = [config EXCEPT ![p] = doc[p]]
            /\ UNCHANGED stage
       ELSE /\ Ends(p, "none")
            /\ stage' = StageAfter(p)
            /\ UNCHANGED config
    /\ UNCHANGED <<program, memory>>

\* save returns an error, and so does the command; a start-up goes on.
SavesNothing(p) ==
    /\ RenameFails(p) \/ SaveFails(p)
    /\ Ends(p, "none")
    /\ stage' = StageAfter(p)
    /\ UNCHANGED <<program, memory, config, settled>>

\* Both commands end with the memory, under the lock of InnerState.
Stores(p) ==
    /\ command[p] = "store"
    /\ memory' = [memory EXCEPT ![program[p]] = config[p]]
    /\ settled' = [settled EXCEPT ![program[p]] = alone[p]]
    /\ Ends(p, "none")
    /\ config' = [config EXCEPT ![p] = NoDocument]
    /\ stage' = StageAfter(p)
    /\ UNCHANGED <<vars, program>>

-----------------------------------------------------------------------------

ConfigNext ==
    \/ \E a \in Programs : Starts(a) \/ Exits(a)
    \/ \E d \in Documents : Edits(d)
    \/ \E p \in Procs : \/ Reads(p) \/ LoadsConfig(p) \/ Loaded(p)
                        \/ SavesConfig(p) \/ SetsTenant(p)
                        \/ Writes(p) \/ Saved(p) \/ SavesNothing(p) \/ Stores(p)

\* The session's file is used by the service itself; two documents are enough.
SessionNext ==
    /\ Next
    /\ \A p \in Procs : doc'[p] \in {Default, Broken, NoDocument}
    /\ UNCHANGED app

AppNext ==
    \/ kind = "config" /\ ConfigNext
    \/ kind = "session" /\ SessionNext

AppSpec == AppInit /\ [][AppNext]_appVars

-----------------------------------------------------------------------------
(* Properties.                                                             *)

AppTypeOK ==
    /\ TypeOK
    /\ program \in [Procs -> Programs]
    /\ stage \in [Programs -> Stages]
    /\ memory \in [Programs -> Configs]
    /\ command \in [Procs -> {"none", "read", "load", "save", "store"}]
    /\ config \in [Procs -> Configs \cup {NoDocument}]
    /\ alone \in [Procs -> BOOLEAN]
    /\ settled \in [Programs -> BOOLEAN]

\* Between commands, what a program has in memory is what the file holds: saves
\* that fail leave both, loads and saves that succeed set both, also when earlier
\* ones have crossed.  Only commands that cross, the other program and the user
\* part them, until the next command that runs alone.
MemoryIsFile ==
    \A a \in Programs :
        settled[a] /\ ~(\E p \in Procs : program[p] = a /\ InTheWay(p))
            => target # NoInode /\ data[target] = memory[a]

\* `config set-tenant` changes the server and nothing else in the file, if the
\* command line has read the file and nobody has written it since.
SetTenantKeepsRest ==
    \A p \in Procs :
        program[p] = "cli" /\ command[p] = "save" /\ alone[p] /\ settled["cli"]
            => target # NoInode /\ doc[p].other = data[target].other
=============================================================================
