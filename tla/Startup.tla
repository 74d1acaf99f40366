------------------------------ MODULE Startup -------------------------------
(***************************************************************************)
(* The entry point: configuration, adapters, the statutory calendar seeded *)
(* through the scheduler adapters, the health port and the run modes.      *)
(* Several containers of one release start side by side, over the schedule *)
(* an earlier release left.                                                *)
(*                                                                         *)
(* Abstractions.  A job in the schedule is absent, as an earlier release   *)
(* defined it ("old") or as this one does ("new").  The scheduling service *)
(* and the platform that restarts containers are external.                 *)
(***************************************************************************)
EXTENDS Naturals, Sequences, FiniteSets

CONSTANTS Containers,
          Calendar,       \* the jobs of JAPAN_STATUTORY_JOBS, in order
          Modes,          \* the values of RUN_MODE in the instance
          MaxFaults       \* bound: failing calls and crashes

\* JAPAN_STATUTORY_JOBS is a list of at least one job, and main knows four modes.
ASSUME CalendarAssumption == Calendar \in Seq({Calendar[i] : i \in DOMAIN Calendar})
                             /\ Calendar # <<>>
ASSUME ModesAssumption == Modes \subseteq {"check", "api", "worker", "server"}

Jobs == {Calendar[i] : i \in DOMAIN Calendar}
ValidTargets == {"LOCAL", "GCP", "AWS"}

VARIABLES target,         \* CLOUD_TARGET, as the environment has it
          japan,          \* DEFAULT_JURISDICTION is JP
          configured,     \* every adapter finds its environment variables
          mode,           \* per container, RUN_MODE
          at,             \* per container, where main is
          todo,           \* per container, the jobs still to create
          schedule,       \* per store, job -> "none", "old" or "new"
          socket,         \* per container, who is bound to $PORT
          faults

startupVars == <<target, japan, configured, mode, at, todo, schedule, socket, faults>>

\* LOCAL keeps the schedule in the process, a cloud in one place.
Store(c) == IF target = "LOCAL" THEN c ELSE "cloud"

StartupInit ==
    /\ target \in ValidTargets \cup {"AZURE"}
    /\ japan \in BOOLEAN
    /\ configured \in BOOLEAN
    /\ mode \in [Containers -> Modes]
    /\ at = [c \in Containers |-> "down"]
    /\ todo = [c \in Containers |-> <<>>]
    /\ \E old \in SUBSET Jobs :
          schedule = [s \in Containers \cup {"cloud"} |->
                        [j \in Jobs |-> IF s = "cloud" /\ j \in old THEN "old" ELSE "none"]]
    /\ socket = [c \in Containers |-> "free"]
    /\ faults = 0

Exit(c) ==
    /\ at' = [at EXCEPT ![c] = "exited"]
    /\ todo' = [todo EXCEPT ![c] = <<>>]
    /\ socket' = [socket EXCEPT ![c] = "free"]

\* startup, up to the adapters: an invalid target or a missing variable ends the process.
Configure(c) ==
    /\ at[c] = "down"
    /\ IF target \in ValidTargets /\ configured
       THEN /\ at' = [at EXCEPT ![c] = IF japan THEN "seeding" ELSE "started"]
            /\ todo' = [todo EXCEPT ![c] = IF japan THEN Calendar ELSE <<>>]
            /\ UNCHANGED socket
       ELSE Exit(c)
    /\ UNCHANGED <<target, japan, configured, mode, schedule, faults>>

\* The job at the head is registered; after the last one startup is over.
Register(c) ==
    /\ schedule' = [schedule EXCEPT ![Store(c)][Head(todo[c])] = "new"]
    /\ todo' = [todo EXCEPT ![c] = Tail(@)]
    /\ at' = [at EXCEPT ![c] = IF Tail(todo[c]) = <<>> THEN "started" ELSE "seeding"]

\* Faulty: a job that exists is taken for registered.
CreateKeepsExisting(c) ==
    /\ at[c] = "seeding"
    /\ IF schedule[Store(c)][Head(todo[c])] = "none" THEN Register(c)
       ELSE /\ todo' = [todo EXCEPT ![c] = Tail(@)]
            /\ at' = [at EXCEPT ![c] = IF Tail(todo[c]) = <<>> THEN "started" ELSE "seeding"]
            /\ UNCHANGED schedule
    /\ UNCHANGED <<target, japan, configured, mode, socket, faults>>

\* create_job, first call.  LOCAL overwrites; a cloud answers a conflict for a job it has.
Create(c) ==
    /\ at[c] = "seeding"
    /\ IF target = "LOCAL" \/ schedule[Store(c)][Head(todo[c])] = "none"
       THEN Register(c)
       ELSE /\ at' = [at EXCEPT ![c] = "updating"]
            /\ UNCHANGED <<schedule, todo>>
    /\ UNCHANGED <<target, japan, configured, mode, socket, faults>>

\* create_job, the update after a conflict.
Update(c) ==
    /\ at[c] = "updating"
    /\ Register(c)
    /\ UNCHANGED <<target, japan, configured, mode, socket, faults>>

\* Faulty: a job is replaced by deleting it and creating it again.
CallFailsReplacing(c) ==
    /\ target # "LOCAL" /\ at[c] \in {"seeding", "updating"}
    /\ faults < MaxFaults
    /\ schedule' = IF at[c] = "updating"
                   THEN [schedule EXCEPT !["cloud"][Head(todo[c])] = "none"] ELSE schedule
    /\ Exit(c)
    /\ faults' = faults + 1
    /\ UNCHANGED <<target, japan, configured, mode>>

\* A call to the scheduling service fails, with or without its effect: startup raises.
CallFails(c) ==
    /\ target # "LOCAL" /\ at[c] \in {"seeding", "updating"}
    /\ faults < MaxFaults
    /\ \/ UNCHANGED schedule
       \/ /\ at[c] = "updating" \/ schedule["cloud"][Head(todo[c])] = "none"
          /\ schedule' = [schedule EXCEPT !["cloud"][Head(todo[c])] = "new"]
    /\ Exit(c)
    /\ faults' = faults + 1
    /\ UNCHANGED <<target, japan, configured, mode>>

\* After startup: a check run is over; every other mode answers on $PORT.
Listen(c) ==
    /\ at[c] = "started"
    /\ IF mode[c] = "check"
       THEN at' = [at EXCEPT ![c] = "checked"] /\ UNCHANGED socket
       ELSE /\ at' = [at EXCEPT ![c] = IF mode[c] = "api" THEN "shutdown" ELSE mode[c]]
            /\ socket' = [socket EXCEPT ![c] = "health"]
    /\ UNCHANGED <<target, japan, configured, mode, todo, schedule, faults>>

\* RUN_MODE=api: server.shutdown() ends serve_forever; the socket is closed by
\* server_close(), which nobody calls.
Shutdown(c) ==
    /\ at[c] = "shutdown"
    /\ at' = [at EXCEPT ![c] = "handover"]
    /\ UNCHANGED <<target, japan, configured, mode, todo, schedule, socket, faults>>

\* uvicorn binds $PORT; when the address is in use it exits.
UvicornBind(c) ==
    /\ at[c] = "handover"
    /\ IF socket[c] = "free"
       THEN /\ socket' = [socket EXCEPT ![c] = "api"]
            /\ at' = [at EXCEPT ![c] = "api"]
            /\ UNCHANGED todo
       ELSE Exit(c)
    /\ UNCHANGED <<target, japan, configured, mode, schedule, faults>>

\* The container is killed.  LOCAL's schedule is gone with it.
Crash(c) ==
    /\ at[c] \notin {"down", "exited", "checked"}
    /\ faults < MaxFaults
    /\ Exit(c)
    /\ schedule' = IF target = "LOCAL"
                   THEN [schedule EXCEPT ![c] = [j \in Jobs |-> "none"]] ELSE schedule
    /\ faults' = faults + 1
    /\ UNCHANGED <<target, japan, configured, mode>>

\* The platform starts a container that exited again; each restart is one of the faults'.
Restart(c) ==
    /\ at[c] = "exited"
    /\ at' = [at EXCEPT ![c] = "down"]
    /\ schedule' = IF target = "LOCAL"
                   THEN [schedule EXCEPT ![c] = [j \in Jobs |-> "none"]] ELSE schedule
    /\ UNCHANGED <<target, japan, configured, mode, todo, socket, faults>>

StartupNext == \E c \in Containers :
            \/ Configure(c) \/ Create(c) \/ Update(c) \/ CallFails(c)
            \/ Listen(c) \/ Shutdown(c) \/ UvicornBind(c)
            \/ Crash(c) \/ Restart(c)

StartupSpec == StartupInit /\ [][StartupNext]_startupVars

----------------------------------------------------------------------------
Up == {"started", "checked", "shutdown", "handover", "api", "worker", "server"}

\* A container that has started in Japan finds the whole calendar registered as its
\* release defines it, over whatever an earlier release, a sibling that seeds at the same
\* time or a start that failed half way left (main.py:76).
StartedMeansCalendar ==
    \A c \in Containers : (japan /\ at[c] \in Up) =>
        \A j \in Jobs : schedule[Store(c)][j] = "new"

\* A container never leaves the calendar with fewer jobs than it found: a failing start
\* removes nothing (config/japan_statutory_calendar.py:63).
CalendarOnlyGrows ==
    [][target # "LOCAL" =>
         \A j \in Jobs : schedule["cloud"][j] # "none" => schedule'["cloud"][j] # "none"]_startupVars
=============================================================================
