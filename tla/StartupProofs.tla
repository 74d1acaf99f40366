--------------------------- MODULE StartupProofs ----------------------------
(***************************************************************************)
(* The statutory calendar at start, for any number of containers, any      *)
(* calendar and any number of failing calls and crashes.                   *)
(*                                                                         *)
(* That a started container has its calendar is not inductive: while it    *)
(* seeds, a job is either registered or still to do (SeedInv), and no      *)
(* sibling takes a registered job back.                                    *)
(***************************************************************************)
EXTENDS Startup, TLAPS

Phases == {"down", "exited", "seeding", "updating"} \cup Up
Seeding == {"seeding", "updating"}

StartupTypes ==
    /\ schedule \in [Containers \cup {"cloud"} -> [Jobs -> {"none", "old", "new"}]]
    /\ at \in [Containers -> Phases]
    /\ todo \in [Containers -> Seq(Jobs)]

ModeInv == mode \in [Containers -> Modes]

ToDo(c, j) == \E i \in 1..Len(todo[c]) : todo[c][i] = j

SeedInv ==
    \A c \in Containers : at[c] \in Seeding =>
        /\ todo[c] # <<>>
        /\ \A j \in Jobs : schedule[Store(c)][j] = "new" \/ ToDo(c, j)

StartupInv == StartupTypes /\ SeedInv /\ StartedMeansCalendar

LEMMA InitStartup == StartupInit => StartupInv
  <1> SUFFICES ASSUME StartupInit PROVE StartupInv
    OBVIOUS
  <1>1. StartupTypes
    BY DEF StartupInit, StartupTypes, Phases
  <1>2. SeedInv /\ StartedMeansCalendar
    BY DEF StartupInit, SeedInv, StartedMeansCalendar, Seeding, Up
  <1> QED BY <1>1, <1>2 DEF StartupInv

\* The store of a container is one of the stores.
LEMMA StoreIsOne ==
    ASSUME NEW c \in Containers
    PROVE  Store(c) \in Containers \cup {"cloud"}
  BY DEF Store

\* The target of a release does not change, nor does the store of a container.
LEMMA StoreStays ==
    ASSUME target' = target, NEW d \in Containers
    PROVE  Store(d)' = Store(d)
  BY DEF Store

\* A step of c that registers nothing and takes nothing back keeps the invariant if c
\* itself ends where nothing is asked of it, or where nothing new is asked of it.
LEMMA QuietStep ==
    ASSUME StartupInv, NEW c \in Containers, NEW to \in Phases, NEW rest \in Seq(Jobs),
           target' = target, japan' = japan, schedule' = schedule,
           at' = [at EXCEPT ![c] = to], todo' = [todo EXCEPT ![c] = rest],
           to \in Seeding => at[c] \in Seeding /\ rest = todo[c],
           to \in Up => at[c] \in Up \/ ~japan
    PROVE  StartupInv'
  <1>1. StartupTypes'
    BY DEF StartupInv, StartupTypes
  <1>2. \A d \in Containers : /\ at'[d] = IF d = c THEN to ELSE at[d]
                             /\ todo'[d] = IF d = c THEN rest ELSE todo[d]
    BY DEF StartupInv, StartupTypes
  <1>3. SeedInv'
    <2> SUFFICES ASSUME NEW d \in Containers, at'[d] \in Seeding
                 PROVE  /\ todo'[d] # <<>>
                        /\ \A j \in Jobs : schedule'[Store(d)][j] = "new" \/ ToDo(d, j)'
      BY StoreStays DEF SeedInv
    <2>1. at[d] \in Seeding /\ todo'[d] = todo[d]
      BY <1>2
    <2>2. \A j \in Jobs : ToDo(d, j)' <=> ToDo(d, j)
      BY <2>1 DEF ToDo
    <2> QED BY <2>1, <2>2 DEF StartupInv, SeedInv
  <1>4. StartedMeansCalendar'
    <2> SUFFICES ASSUME NEW d \in Containers, japan, at'[d] \in Up, NEW j \in Jobs
                 PROVE  schedule'[Store(d)][j] = "new"
      BY StoreStays DEF StartedMeansCalendar
    <2>1. at[d] \in Up
      BY <1>2
    <2> QED BY <2>1 DEF StartupInv, StartedMeansCalendar
  <1> QED BY <1>1, <1>3, <1>4 DEF StartupInv

\* A process that ends asks nothing of the calendar; LOCAL's schedule is only its own.
LEMMA EndStep ==
    ASSUME StartupInv, NEW c \in Containers, NEW to \in {"down", "exited"},
           NEW rest \in Seq(Jobs), target' = target, japan' = japan,
           at' = [at EXCEPT ![c] = to], todo' = [todo EXCEPT ![c] = rest],
           schedule' = IF target = "LOCAL"
                       THEN [schedule EXCEPT ![c] = [j \in Jobs |-> "none"]] ELSE schedule
    PROVE  StartupInv'
  <1>1. StartupTypes'
    BY DEF StartupInv, StartupTypes, Phases
  <1>2. \A d \in Containers : /\ at'[d] = IF d = c THEN to ELSE at[d]
                             /\ todo'[d] = IF d = c THEN rest ELSE todo[d]
    BY DEF StartupInv, StartupTypes
  <1>3. ASSUME NEW d \in Containers, d # c
        PROVE  schedule'[Store(d)] = schedule[Store(d)]
    <2>1. CASE target = "LOCAL"
      BY <1>3, <2>1 DEF StartupInv, StartupTypes, Store
    <2>2. CASE target # "LOCAL"
      BY <2>2
    <2> QED BY <2>1, <2>2
  <1>4. to \notin Seeding /\ to \notin Up
    BY DEF Seeding, Up
  <1>5. SeedInv'
    <2> SUFFICES ASSUME NEW d \in Containers, at'[d] \in Seeding
                 PROVE  /\ todo'[d] # <<>>
                        /\ \A j \in Jobs : schedule'[Store(d)][j] = "new" \/ ToDo(d, j)'
      BY StoreStays DEF SeedInv
    <2>1. d # c /\ at[d] \in Seeding /\ todo'[d] = todo[d]
      BY <1>2, <1>4
    <2>2. \A j \in Jobs : ToDo(d, j)' <=> ToDo(d, j)
      BY <2>1 DEF ToDo
    <2> QED BY <1>3, <2>1, <2>2 DEF StartupInv, SeedInv
  <1>6. StartedMeansCalendar'
    <2> SUFFICES ASSUME NEW d \in Containers, japan, at'[d] \in Up, NEW j \in Jobs
                 PROVE  schedule'[Store(d)][j] = "new"
      BY StoreStays DEF StartedMeansCalendar
    <2>1. d # c /\ at[d] \in Up
      BY <1>2, <1>4
    <2> QED BY <1>3, <2>1 DEF StartupInv, StartedMeansCalendar
  <1> QED BY <1>1, <1>5, <1>6 DEF StartupInv

\* What registering does to the store of c.
LEMMA RegisterWrites ==
    ASSUME StartupInv, NEW c \in Containers, at[c] \in Seeding, NEW s \in Containers \cup {"cloud"},
           NEW j \in Jobs, schedule' = [schedule EXCEPT ![Store(c)][Head(todo[c])] = "new"]
    PROVE  schedule'[s][j] = IF s = Store(c) /\ j = Head(todo[c]) THEN "new"
                             ELSE schedule[s][j]
  BY StoreIsOne DEF StartupInv, StartupTypes

\* The job at the head is registered: what was to do is registered or still to do, in
\* this container and, in a cloud, for its siblings.
LEMMA RegisterKeeps ==
    ASSUME StartupInv, NEW c \in Containers, at[c] \in Seeding, Register(c),
           target' = target, japan' = japan
    PROVE  StartupInv'
  <1>1. todo[c] \in Seq(Jobs) /\ todo[c] # <<>>
    BY DEF StartupInv, StartupTypes, SeedInv
  <1>2. /\ Head(todo[c]) \in Jobs /\ Tail(todo[c]) \in Seq(Jobs)
        /\ \A i \in 1..Len(todo[c]) :
              i = 1 \/ (i - 1 \in 1..Len(Tail(todo[c])) /\ Tail(todo[c])[i - 1] = todo[c][i])
    BY <1>1
  <1>3. StartupTypes'
    <2>1. schedule' \in [Containers \cup {"cloud"} -> [Jobs -> {"none", "old", "new"}]]
      BY <1>2, StoreIsOne DEF StartupInv, StartupTypes, Register
    <2>2. at' \in [Containers -> Phases] /\ todo' \in [Containers -> Seq(Jobs)]
      BY <1>2 DEF StartupInv, StartupTypes, Register, Phases, Up
    <2> QED BY <2>1, <2>2 DEF StartupTypes
  <1>4. \A s \in Containers \cup {"cloud"}, j \in Jobs :
            schedule'[s][j] = IF s = Store(c) /\ j = Head(todo[c]) THEN "new"
                              ELSE schedule[s][j]
    BY RegisterWrites DEF Register
  <1>5. \A d \in Containers : d # c => at'[d] = at[d] /\ todo'[d] = todo[d]
    BY DEF StartupInv, StartupTypes, Register
  <1>6. \A d \in Containers : Store(d)' = Store(d) /\ Store(d) \in Containers \cup {"cloud"}
    BY StoreIsOne DEF Store
  <1>7. /\ todo'[c] = Tail(todo[c])
        /\ at'[c] = IF Tail(todo[c]) = <<>> THEN "started" ELSE "seeding"
    BY DEF StartupInv, StartupTypes, Register
  <1>8. ASSUME NEW j \in Jobs
        PROVE  schedule'[Store(c)][j] = "new" \/ ToDo(c, j)'
    <2>1. CASE schedule[Store(c)][j] = "new"
      BY <2>1, <1>4, <1>6
    <2>2. CASE ToDo(c, j)
      <3>1. PICK i \in 1..Len(todo[c]) : todo[c][i] = j
        BY <2>2 DEF ToDo
      <3>2. CASE i = 1
        BY <3>1, <3>2, <1>1, <1>4, <1>6
      <3>3. CASE i # 1
        BY <3>1, <3>3, <1>2, <1>7 DEF ToDo
      <3> QED BY <3>2, <3>3
    <2> QED BY <2>1, <2>2 DEF StartupInv, SeedInv
  <1>9. SeedInv'
    <2> SUFFICES ASSUME NEW d \in Containers, at'[d] \in Seeding
                 PROVE  /\ todo'[d] # <<>>
                        /\ \A j \in Jobs : schedule'[Store(d)][j] = "new" \/ ToDo(d, j)'
      BY <1>6 DEF SeedInv
    <2>1. CASE d = c
      BY <2>1, <1>7, <1>8 DEF Seeding
    <2>2. CASE d # c
      BY <2>2, <1>4, <1>5, <1>6 DEF StartupInv, SeedInv, ToDo
    <2> QED BY <2>1, <2>2
  <1>10. StartedMeansCalendar'
    <2> SUFFICES ASSUME NEW d \in Containers, japan, at'[d] \in Up, NEW j \in Jobs
                 PROVE  schedule'[Store(d)][j] = "new"
      BY <1>6 DEF StartedMeansCalendar
    <2>1. CASE d = c
      <3>1. Tail(todo[c]) = <<>>
        BY <2>1, <1>7 DEF Up
      <3>2. ~ToDo(c, j)'
        <4>1. todo'[c] = <<>>
          BY <3>1, <1>7
        <4>2. Len(<<>>) = 0
          OBVIOUS
        <4>3. 1..Len(todo'[c]) = {}
          BY <4>1, <4>2
        <4> QED BY <4>3 DEF ToDo
      <3> QED BY <2>1, <3>2, <1>8
    <2>2. CASE d # c
      BY <2>2, <1>4, <1>5, <1>6 DEF StartupInv, StartedMeansCalendar
    <2> QED BY <2>1, <2>2
  <1> QED BY <1>3, <1>9, <1>10 DEF StartupInv

\* A call that fails may have written all the same, and the process ends.
LEMMA WriteAndEnd ==
    ASSUME StartupInv, NEW c \in Containers, target # "LOCAL", target' = target,
           japan' = japan, NEW k \in Jobs,
           schedule' = [schedule EXCEPT !["cloud"][k] = "new"],
           at' = [at EXCEPT ![c] = "exited"], todo' = [todo EXCEPT ![c] = <<>>]
    PROVE  StartupInv'
  <1>1. StartupTypes'
    BY DEF StartupInv, StartupTypes, Phases
  <1>2. \A d \in Containers : /\ at'[d] = IF d = c THEN "exited" ELSE at[d]
                             /\ todo'[d] = IF d = c THEN <<>> ELSE todo[d]
    BY DEF StartupInv, StartupTypes
  <1>3. \A d \in Containers, j \in Jobs :
            schedule[Store(d)][j] = "new" => schedule'[Store(d)][j] = "new"
    BY DEF StartupInv, StartupTypes, Store
  <1>4. SeedInv'
    <2> SUFFICES ASSUME NEW d \in Containers, at'[d] \in Seeding
                 PROVE  /\ todo'[d] # <<>>
                        /\ \A j \in Jobs : schedule'[Store(d)][j] = "new" \/ ToDo(d, j)'
      BY StoreStays DEF SeedInv
    <2>1. at[d] \in Seeding /\ todo'[d] = todo[d]
      BY <1>2 DEF Seeding
    <2>2. \A j \in Jobs : ToDo(d, j)' <=> ToDo(d, j)
      BY <2>1 DEF ToDo
    <2> QED BY <1>3, <2>1, <2>2 DEF StartupInv, SeedInv
  <1>5. StartedMeansCalendar'
    <2> SUFFICES ASSUME NEW d \in Containers, japan, at'[d] \in Up, NEW j \in Jobs
                 PROVE  schedule'[Store(d)][j] = "new"
      BY StoreStays DEF StartedMeansCalendar
    <2>1. at[d] \in Up
      BY <1>2 DEF Up
    <2> QED BY <1>3, <2>1 DEF StartupInv, StartedMeansCalendar
  <1> QED BY <1>1, <1>4, <1>5 DEF StartupInv

\* A container that begins to seed has the whole calendar to do.
LEMMA ConfigureKeeps ==
    ASSUME StartupInv, NEW c \in Containers, Configure(c)
    PROVE  StartupInv'
  <1>1. CASE ~(target \in ValidTargets /\ configured)
    <2>1. /\ at' = [at EXCEPT ![c] = "exited"] /\ todo' = [todo EXCEPT ![c] = <<>>]
          /\ target' = target /\ japan' = japan /\ schedule' = schedule
      BY <1>1 DEF Configure, Exit
    <2>2. <<>> \in Seq(Jobs) /\ "exited" \in Phases /\ "exited" \notin Seeding \cup Up
      BY DEF Phases, Seeding, Up
    <2> QED BY ONLY StartupInv, c \in Containers, <2>1, <2>2, QuietStep
  <1>2. CASE target \in ValidTargets /\ configured /\ ~japan
    <2>1. /\ at' = [at EXCEPT ![c] = "started"] /\ todo' = [todo EXCEPT ![c] = <<>>]
          /\ target' = target /\ japan' = japan /\ schedule' = schedule
      BY <1>2 DEF Configure
    <2>2. <<>> \in Seq(Jobs) /\ "started" \in Phases /\ "started" \notin Seeding
      BY DEF Phases, Seeding, Up
    <2> QED BY ONLY StartupInv, c \in Containers, <1>2, <2>1, <2>2, QuietStep
  <1>3. CASE target \in ValidTargets /\ configured /\ japan
    <2>1. /\ at' = [at EXCEPT ![c] = "seeding"] /\ todo' = [todo EXCEPT ![c] = Calendar]
          /\ target' = target /\ japan' = japan /\ schedule' = schedule
      BY <1>3 DEF Configure
    <2>2. StartupTypes'
      BY <2>1, CalendarAssumption DEF StartupInv, StartupTypes, Jobs, Phases
    <2>3. \A d \in Containers : /\ at'[d] = IF d = c THEN "seeding" ELSE at[d]
                               /\ todo'[d] = IF d = c THEN Calendar ELSE todo[d]
      BY <2>1 DEF StartupInv, StartupTypes
    <2>4. \A j \in Jobs : ToDo(c, j)'
      <3>1. \A j \in Jobs : \E i \in 1..Len(Calendar) : Calendar[i] = j
        BY CalendarAssumption DEF Jobs
      <3> QED BY <2>3, <3>1 DEF ToDo
    <2>5. SeedInv'
      <3> SUFFICES ASSUME NEW d \in Containers, at'[d] \in Seeding
                   PROVE  /\ todo'[d] # <<>>
                          /\ \A j \in Jobs : schedule'[Store(d)][j] = "new" \/ ToDo(d, j)'
        BY <2>1, StoreStays DEF SeedInv
      <3>1. CASE d = c
        BY <3>1, <2>3, <2>4, CalendarAssumption
      <3>2. CASE d # c
        <4>1. at[d] \in Seeding /\ todo'[d] = todo[d]
          BY <3>2, <2>3
        <4>2. \A j \in Jobs : ToDo(d, j)' <=> ToDo(d, j)
          BY <4>1 DEF ToDo
        <4> QED BY <2>1, <4>1, <4>2 DEF StartupInv, SeedInv
      <3> QED BY <3>1, <3>2
    <2>6. StartedMeansCalendar'
      <3> SUFFICES ASSUME NEW d \in Containers, japan, at'[d] \in Up, NEW j \in Jobs
                   PROVE  schedule'[Store(d)][j] = "new"
        BY <2>1, StoreStays DEF StartedMeansCalendar
      <3>1. at[d] \in Up
        BY <2>3 DEF Up
      <3> QED BY <2>1, <3>1 DEF StartupInv, StartedMeansCalendar
    <2> QED BY <2>2, <2>5, <2>6 DEF StartupInv
  <1> QED BY <1>1, <1>2, <1>3

LEMMA CreateKeeps ==
    ASSUME StartupInv, NEW c \in Containers, Create(c)
    PROVE  StartupInv'
  <1>1. target' = target /\ japan' = japan /\ at[c] \in Seeding
    BY DEF Create, Seeding
  <1>2. CASE Register(c)
    BY <1>1, <1>2, RegisterKeeps
  <1>3. CASE at' = [at EXCEPT ![c] = "updating"] /\ UNCHANGED <<schedule, todo>>
    <2>1. todo' = [todo EXCEPT ![c] = todo[c]] /\ todo[c] \in Seq(Jobs)
      BY <1>3 DEF StartupInv, StartupTypes
    <2>2. "updating" \in Phases /\ "updating" \notin Up
      BY DEF Phases, Up
    <2> QED BY ONLY StartupInv, c \in Containers, <1>1, <1>3, <2>1, <2>2, QuietStep
  <1> QED BY <1>2, <1>3 DEF Create

LEMMA UpdateKeeps ==
    ASSUME StartupInv, NEW c \in Containers, Update(c)
    PROVE  StartupInv'
  BY RegisterKeeps DEF Update, Seeding

LEMMA CallFailsKeeps ==
    ASSUME StartupInv, NEW c \in Containers, CallFails(c)
    PROVE  StartupInv'
  <1>1. /\ target # "LOCAL" /\ target' = target /\ japan' = japan /\ at[c] \in Seeding
        /\ at' = [at EXCEPT ![c] = "exited"] /\ todo' = [todo EXCEPT ![c] = <<>>]
    BY DEF CallFails, Exit, Seeding
  <1>2. CASE schedule' = schedule
    <2>1. <<>> \in Seq(Jobs) /\ "exited" \in Phases /\ "exited" \notin Seeding \cup Up
      BY DEF Phases, Seeding, Up
    <2> QED BY ONLY StartupInv, c \in Containers, <1>1, <1>2, <2>1, QuietStep
  <1>3. CASE schedule' = [schedule EXCEPT !["cloud"][Head(todo[c])] = "new"]
    <2>1. Head(todo[c]) \in Jobs
      BY <1>1 DEF StartupInv, StartupTypes, SeedInv
    <2> QED BY ONLY StartupInv, c \in Containers, <1>1, <1>3, <2>1, WriteAndEnd
  <1> QED BY <1>2, <1>3 DEF CallFails

\* After startup a container asks for nothing more.
LEMMA ListenKeeps ==
    ASSUME StartupInv, NEW c \in Containers, mode[c] \in {"check", "api", "worker", "server"},
           Listen(c) \/ Shutdown(c)
    PROVE  StartupInv'
  <1>1. PICK to \in Up : at' = [at EXCEPT ![c] = to]
    BY DEF Listen, Shutdown, Up
  <1>2. /\ at[c] \in Up /\ target' = target /\ japan' = japan /\ schedule' = schedule
        /\ todo' = todo
    BY DEF Listen, Shutdown, Up
  <1>3. todo' = [todo EXCEPT ![c] = todo[c]] /\ todo[c] \in Seq(Jobs)
    BY <1>2 DEF StartupInv, StartupTypes
  <1>4. to \in Phases /\ to \notin Seeding
    BY DEF Phases, Up, Seeding
  <1> QED BY ONLY StartupInv, c \in Containers, to \in Up, <1>1, <1>2, <1>3, <1>4, QuietStep

LEMMA UvicornBindKeeps ==
    ASSUME StartupInv, NEW c \in Containers, UvicornBind(c)
    PROVE  StartupInv'
  <1>1. at[c] \in Up /\ target' = target /\ japan' = japan /\ schedule' = schedule
    BY DEF UvicornBind, Up
  <1>2. CASE at' = [at EXCEPT ![c] = "api"] /\ todo' = todo
    <2>1. todo' = [todo EXCEPT ![c] = todo[c]] /\ todo[c] \in Seq(Jobs)
      BY <1>2 DEF StartupInv, StartupTypes
    <2>2. "api" \in Phases /\ "api" \notin Seeding
      BY DEF Phases, Up, Seeding
    <2> QED BY ONLY StartupInv, c \in Containers, <1>1, <1>2, <2>1, <2>2, QuietStep
  <1>3. CASE Exit(c)
    <2>1. at' = [at EXCEPT ![c] = "exited"] /\ todo' = [todo EXCEPT ![c] = <<>>]
      BY <1>3 DEF Exit
    <2>2. <<>> \in Seq(Jobs) /\ "exited" \in Phases /\ "exited" \notin Seeding \cup Up
      BY DEF Phases, Seeding, Up
    <2> QED BY ONLY StartupInv, c \in Containers, <1>1, <2>1, <2>2, QuietStep
  <1> QED BY <1>2, <1>3 DEF UvicornBind

LEMMA EndKeeps ==
    ASSUME StartupInv, NEW c \in Containers, Crash(c) \/ Restart(c)
    PROVE  StartupInv'
  <1>1. PICK to \in {"down", "exited"}, rest \in Seq(Jobs) :
            at' = [at EXCEPT ![c] = to] /\ todo' = [todo EXCEPT ![c] = rest]
    <2>1. CASE Crash(c)
      <3>1. <<>> \in Seq(Jobs)
        OBVIOUS
      <3> QED BY <2>1, <3>1 DEF Crash, Exit
    <2>2. CASE Restart(c)
      <3>1. todo' = [todo EXCEPT ![c] = todo[c]] /\ todo[c] \in Seq(Jobs)
        BY <2>2 DEF Restart, StartupInv, StartupTypes
      <3> QED BY <2>2, <3>1 DEF Restart
    <2> QED BY <2>1, <2>2
  <1>2. /\ target' = target /\ japan' = japan
        /\ schedule' = IF target = "LOCAL"
                       THEN [schedule EXCEPT ![c] = [j \in Jobs |-> "none"]] ELSE schedule
    BY DEF Crash, Restart
  <1> QED BY ONLY StartupInv, c \in Containers, to \in {"down", "exited"}, rest \in Seq(Jobs),
             <1>1, <1>2, EndStep

LEMMA StartupInductive ==
    ASSUME StartupInv, ModeInv, [StartupNext]_startupVars
    PROVE  StartupInv' /\ ModeInv'
  <1>1. ModeInv'
    BY DEF ModeInv, StartupNext, startupVars, Configure, Create, Update, CallFails, Listen, Shutdown,
           UvicornBind, Crash, Restart
  <1>2. CASE UNCHANGED startupVars
    <2>1. \A c \in Containers, j \in Jobs : ToDo(c, j)' <=> ToDo(c, j)
      BY <1>2 DEF startupVars, ToDo
    <2>2. StartupTypes'
      BY <1>2 DEF startupVars, StartupInv, StartupTypes
    <2>3. SeedInv' /\ StartedMeansCalendar'
      BY <1>2, <2>1, StoreStays DEF startupVars, StartupInv, SeedInv, StartedMeansCalendar
    <2> QED BY <1>1, <2>2, <2>3 DEF StartupInv
  <1>3. ASSUME NEW c \in Containers, Listen(c) \/ Shutdown(c) PROVE StartupInv'
    BY <1>3, ListenKeeps, ModesAssumption DEF ModeInv
  <1> QED
    BY <1>1, <1>2, <1>3, ConfigureKeeps, CreateKeeps, UpdateKeeps, CallFailsKeeps,
       UvicornBindKeeps, EndKeeps DEF StartupNext

\* A container that has started in Japan finds its whole calendar registered, for any
\* number of containers that seed one schedule side by side, fail and start again
\* (main.py:76).
THEOREM StartSeedsTheCalendar == StartupSpec => []StartedMeansCalendar
  <1>1. StartupInit => StartupInv /\ ModeInv
    BY InitStartup DEF StartupInit, ModeInv
  <1>2. StartupInv /\ ModeInv /\ [StartupNext]_startupVars => StartupInv' /\ ModeInv'
    BY StartupInductive
  <1>3. StartupInv => StartedMeansCalendar
    BY DEF StartupInv
  <1> QED BY <1>1, <1>2, <1>3, PTL DEF StartupSpec

\* No start, complete or failing, takes a job out of a cloud's calendar
\* (config/japan_statutory_calendar.py:63).
THEOREM SeedingRemovesNothing == StartupSpec => CalendarOnlyGrows
  <1> DEFINE Grows == target # "LOCAL" =>
                \A j \in Jobs : schedule["cloud"][j] # "none" => schedule'["cloud"][j] # "none"
  <1>1. StartupInit => StartupInv /\ ModeInv
    BY InitStartup DEF StartupInit, ModeInv
  <1>2. StartupInv /\ ModeInv /\ [StartupNext]_startupVars => StartupInv' /\ ModeInv'
    BY StartupInductive
  <1>3. ASSUME StartupInv, [StartupNext]_startupVars PROVE [Grows]_startupVars
    <2> SUFFICES ASSUME NEW c \in Containers, target # "LOCAL", NEW j \in Jobs,
                        schedule["cloud"][j] # "none",
                        \/ Configure(c) \/ Create(c) \/ Update(c) \/ CallFails(c)
                        \/ Listen(c) \/ Shutdown(c) \/ UvicornBind(c)
                        \/ Crash(c) \/ Restart(c)
                 PROVE  schedule'["cloud"][j] # "none"
      BY <1>3 DEF StartupNext
    <2>1. CASE schedule' = schedule
      BY <2>1
    <2>2. CASE \E k \in Jobs : schedule' = [schedule EXCEPT !["cloud"][k] = "new"]
      BY <1>3, <2>2 DEF StartupInv, StartupTypes
    <2>3. at[c] \in Seeding => Head(todo[c]) \in Jobs
      BY <1>3 DEF StartupInv, StartupTypes, SeedInv
    <2>4. CASE Create(c) \/ Update(c)
      <3>1. at[c] \in Seeding /\ Store(c) = "cloud"
        BY <2>4 DEF Create, Update, Seeding, Store
      <3> QED BY <2>1, <2>2, <2>3, <2>4, <3>1 DEF Create, Update, Register
    <2>5. CASE CallFails(c)
      BY <2>1, <2>2, <2>3, <2>5 DEF CallFails, Seeding
    <2>6. CASE Configure(c) \/ Listen(c) \/ Shutdown(c) \/ UvicornBind(c)
      BY <2>1, <2>6 DEF Configure, Listen, Shutdown, UvicornBind
    <2>7. CASE Crash(c) \/ Restart(c)
      BY <2>1, <2>7 DEF Crash, Restart
    <2> QED BY <2>4, <2>5, <2>6, <2>7
  <1>4. StartupInv /\ [StartupNext]_startupVars => [Grows]_startupVars
    BY <1>3
  <1> QED BY <1>1, <1>2, <1>4, PTL DEF StartupSpec, CalendarOnlyGrows
=============================================================================
