----------------------------- MODULE BootProofs -----------------------------
(***************************************************************************)
(* Proofs about the commands of an application, for any number of          *)
(* processes and databases, any versions, environments, .env files and     *)
(* configurations: four invariants, the others on top of the first, and    *)
(* what a load of a configuration reports.                                 *)
(***************************************************************************)
EXTENDS Boot, FoldLemmas, FiniteSetTheorems

Fields == {"cmd", "pc", "env", "load", "dsn", "todo", "failed", "code", "picked", "said", "via", "steady", "undone"}
Starts == {"serve", "dev"}
Cmds == {"serve", "dev", "doctor", "up", "status", "down"}

\* proc and db are records of the fields that Idle and Init give them.
Formed == /\ DOMAIN proc = Procs /\ \A p \in Procs : DOMAIN proc[p] = Fields
          /\ DOMAIN db = Databases /\ \A d \in Databases : DOMAIN db[d] = {"up", "applied"}

\* Which commands come to which place, and who answers there.
PlacedAt(p) ==
    LET cmd == proc[p].cmd
        pc == proc[p].pc
    IN /\ pc \in {"idle", "done", "load", "open", "wire", "checks", "migrate", "serving", "up", "status",
                  "directory", "apply", "reverse"}
       /\ cmd \in Cmds \cup {"none"} /\ (cmd = "none" <=> pc = "idle")
       /\ pc \in {"load", "open", "wire"} => cmd # "down"
       /\ pc = "open" \/ (pc = "wire" /\ Asks(cmd)) => app.dsn
       /\ pc = "checks" => cmd \in Starts \cup {"doctor"} /\ app.wire = "ok"
       /\ pc \in {"migrate", "serving"} => cmd \in Starts
       /\ pc = "migrate" => app.dsn
       /\ pc \in {"up", "status"} => cmd = pc
       /\ pc \in {"directory", "apply"} => cmd \in {"up", "status", "down"}
       /\ pc = "reverse" => cmd = "down"
       /\ pc \notin {"apply", "reverse", "done"} => proc[p].via = "app"
       /\ pc = "apply" => proc[p].via = "directory"
       /\ proc[p].steady => cmd \in {"serve", "doctor"}
       /\ cmd \in {"serve", "doctor"} => proc[p].env = shell

\* What Load left behind it.
AddressOf(load) == IF app.dsn THEN ValueOf(load, Url) ELSE ""
LoadedAt(p) ==
    proc[p].pc \in {"open", "wire", "checks", "migrate", "serving", "up", "status"} =>
        /\ proc[p].load = LoadFrom(app.type, proc[p].env)
        /\ proc[p].dsn = AddressOf(proc[p].load)
        /\ proc[p].cmd \in Starts => proc[p].load.faults = <<>>

\* The checks that are left are those of the command; ProvenAt are those that ran and held.
ChecksOf(p) == Range(IF proc[p].cmd \in Starts THEN BootChecks(proc[p].load) ELSE DoctorChecks(proc[p].dsn))
ProvenAt(p) == ChecksOf(p) \ (Range(proc[p].todo) \cup proc[p].failed)
Checks == {"secret", "database", "migrations", "broker"}
CheckingAt(p) ==
    proc[p].pc = "checks" => proc[p].todo \in Seq(Checks) /\ Range(proc[p].todo) \subseteq ChecksOf(p)

\* A database holds every one of the files.
Holding(files, dsn) == files = {} \/ (dsn \in Databases /\ files \subseteq db[dsn].applied)

\* The migrations of a start that has proved them, or that serves, and of a command that answered 0.
ProvedAt(p) ==
    (proc[p].cmd \in Starts /\ app.dsn /\ ~proc[p].undone) =>
        /\ (proc[p].pc = "checks" /\ "migrations" \in ProvenAt(p)) => Holding(Sets, proc[p].dsn)
        /\ proc[p].pc = "serving" => Holding(Sets, proc[p].dsn)
AnsweredAt(p) ==
    (proc[p].pc = "done" /\ proc[p].code = 0 /\ ~proc[p].undone) =>
        /\ Asks(proc[p].cmd) /\ proc[p].via = "app" => Holding(Sets, proc[p].dsn)
        /\ proc[p].cmd = "up" /\ proc[p].via = "directory" => Holding(dir.up, proc[p].dsn)

OwnInv(p) == PlacedAt(p) /\ LoadedAt(p) /\ CheckingAt(p) /\ ProvedAt(p) /\ AnsweredAt(p)
MigrateInv == Formed /\ \A p \in Procs : OwnInv(p)

\* What the doctor proves of the world that a start by hand meets.
Holds(c, load) ==
    CASE c = "secret" -> SecretHolds(load)
      [] c = "database" -> Up(AddressOf(load))
      [] c = "migrations" -> Holding(Sets, AddressOf(load))
      [] c = "broker" -> broker
Good ==
    LET load == LoadFrom(app.type, shell)
    IN /\ app.wire = "ok" /\ load.faults = <<>> /\ SecretHolds(load) /\ broker
       /\ app.dsn => Up(AddressOf(load)) /\ Holding(Sets, AddressOf(load))
ForeseenAt(p) ==
    proc[p].steady =>
        /\ proc[p].cmd = "serve" => Good /\ proc[p].failed \subseteq {"handler"}
        /\ proc[p].cmd = "doctor" /\ proc[p].pc = "checks" => \A c \in ProvenAt(p) : Holds(c, proc[p].load)
Foresight == (calm => Good) /\ \A p \in Procs : ForeseenAt(p)

\* One address: the one that the shell gives, or else .env, or else the default; and each command read the shell,
\* or both.
TheAddress == IF Told # <<>> THEN Told ELSE <<CHOOSE d \in Defaults : TRUE>>
Surrounded == \E s \in Surroundings : app = s.app /\ shell = s.shell /\ envfile = s.envfile
ReadAt(p) == proc[p].cmd # "none" => proc[p].env \in {shell, Environment(envfile, shell)}
AddressedAt(p) == proc[p].dsn # "" => <<proc[p].dsn>> = TheAddress
Addressed ==
    /\ Surrounded /\ \A p \in Procs : ReadAt(p)
    /\ DefaultsAgree => (\A p \in Procs : AddressedAt(p)) /\ \A a \in touched : a # "" /\ <<a>> = TheAddress

-----------------------------------------------------------------------------
Others(p) == \A q \in Procs \ {p} : proc'[q] = proc[q]
Keeps(p, X) == \A x \in Fields \ X : proc'[p][x] = proc[p][x]

\* A step To(p, r) gives p the members of r, and leaves the rest of p and the other processes.
LEMMA ToDoes ==
  ASSUME Formed, UNCHANGED db, NEW p \in Procs, NEW r, DOMAIN r \subseteq Fields, To(p, r)
  PROVE  /\ Formed' /\ Others(p)
         /\ \A x \in Fields : proc'[p][x] = IF x \in DOMAIN r THEN r[x] ELSE proc[p][x]
BY DEF Formed, To, With, Others

\* The same of a step that moves p to another place.
LEMMA PcDoes ==
  ASSUME Formed, UNCHANGED db, NEW p \in Procs, NEW next, To(p, [pc |-> next])
  PROVE  Formed' /\ Others(p) /\ Keeps(p, {"pc"}) /\ proc'[p].pc = next
BY ToDoes DEF Keeps, Fields

\* The same of a step that ends p with a code.
LEMMA EndsDoes ==
  ASSUME Formed, UNCHANGED db, NEW p \in Procs, NEW next, NEW code, To(p, [pc |-> next, code |-> code])
  PROVE  Formed' /\ Others(p) /\ Keeps(p, {"pc", "code"}) /\ proc'[p].pc = next /\ proc'[p].code = code
BY ToDoes DEF Keeps, Fields

\* The same of a step at which a stage of p fails.
LEMMA FailsDoes ==
  ASSUME Formed, UNCHANGED db, NEW p \in Procs, NEW stage, Fails(p, stage)
  PROVE  /\ Formed' /\ Others(p) /\ Keeps(p, {"pc", "code", "failed"})
         /\ proc'[p].pc = "done" /\ proc'[p].code = 1 /\ proc'[p].failed = proc[p].failed \cup {stage}
BY ToDoes DEF Keeps, Fields, Fails

\* What Load leaves behind it: a refused start, a place to open or to wire at, or an answer with no address.
LEMMA LoadDoes ==
  ASSUME Formed, NEW p \in Procs, Load(p)
  PROVE  LET load == LoadFrom(app.type, proc[p].env)
             dsn == AddressOf(load)
         IN /\ Formed' /\ Others(p) /\ Keeps(p, {"pc", "load", "dsn", "code", "failed", "said"})
            /\ proc'[p].load = load /\ proc'[p].dsn = dsn
            /\ \/ /\ proc[p].cmd \in Starts /\ load.faults # <<>>
                  /\ proc'[p].pc = "done" /\ proc'[p].code = 1 /\ proc'[p].failed = {"config"}
               \/ /\ proc[p].cmd \in Starts => load.faults = <<>>
                  /\ proc'[p].failed = proc[p].failed
                  /\ \/ proc[p].cmd \in Starts /\ app.dsn /\ proc'[p].pc = "open" /\ proc'[p].code = proc[p].code
                     \/ proc[p].cmd \in {"up", "status"} /\ proc'[p].pc = "done" /\ proc'[p].code = 1
                     \/ /\ ~(Asks(proc[p].cmd) /\ dsn = "")
                        /\ proc'[p].pc = "wire" /\ proc'[p].code = proc[p].code
<1> DEFINE load == LoadFrom(app.type, proc[p].env)
           dsn == AddressOf(load)
           got(r) == With(r, [load |-> load, dsn |-> dsn])
<1> HIDE DEF load, dsn
<1>1. ASSUME NEW r, DOMAIN r \subseteq {"pc", "code", "failed", "said"}, To(p, got(r))
      PROVE  /\ Formed' /\ Others(p)
             /\ \A x \in Fields \ {"load", "dsn"} : proc'[p][x] = IF x \in DOMAIN r THEN r[x] ELSE proc[p][x]
             /\ proc'[p].load = load /\ proc'[p].dsn = dsn
  <2> DEFINE g == got(r)
  <2>1. /\ DOMAIN g = DOMAIN r \cup {"load", "dsn"}
        /\ \A x \in DOMAIN g : g[x] = IF x \in DOMAIN r THEN r[x] ELSE [load |-> load, dsn |-> dsn][x]
    BY DEF With
  <2>2. DOMAIN g \subseteq Fields /\ To(p, g)
    BY <1>1, <2>1 DEF Fields
  <2>3. g["load"] = load /\ g["dsn"] = dsn
    BY <1>1, <2>1
  <2> HIDE DEF g
  <2>4. Formed' /\ Others(p) /\ \A x \in Fields : proc'[p][x] = IF x \in DOMAIN g THEN g[x] ELSE proc[p][x]
    BY <2>2, ToDoes DEF Others, World, Load
  <2>5. \A x \in Fields \ {"load", "dsn"} : proc'[p][x] = IF x \in DOMAIN r THEN r[x] ELSE proc[p][x]
    BY <2>4, <2>1
  <2> QED
    BY <2>1, <2>3, <2>4, <2>5 DEF Fields
<1>2. CASE proc[p].cmd \in Starts /\ load.faults # <<>>
  <2> DEFINE r == [pc |-> "done", code |-> 1, failed |-> {"config"}]
  <2>1. To(p, got(r))
    BY <1>2, Zenon DEF Load, Starts, load, dsn, AddressOf
  <2>2. DOMAIN r = {"pc", "code", "failed"}
    OBVIOUS
  <2> QED
    BY <1>1, <1>2, <2>1, <2>2 DEF Keeps, Fields, load, dsn
<1>3. CASE proc[p].cmd \in Starts /\ load.faults = <<>> /\ app.dsn
  <2> DEFINE r == [pc |-> "open"]
  <2>1. To(p, got(r))
    BY <1>3, Zenon DEF Load, Starts, load, dsn, AddressOf
  <2>2. DOMAIN r = {"pc"} /\ r["pc"] = "open"
    OBVIOUS
  <2> HIDE DEF r
  <2>3. /\ Formed' /\ Others(p) /\ Keeps(p, {"pc", "load", "dsn", "code", "failed", "said"})
        /\ proc'[p].load = load /\ proc'[p].dsn = dsn /\ proc'[p].failed = proc[p].failed
        /\ proc'[p].pc = "open" /\ proc'[p].code = proc[p].code
    BY <1>1, <2>1, <2>2 DEF Keeps, Fields
  <2> QED
    BY <1>3, <2>3 DEF load, dsn
<1>4. CASE proc[p].cmd \notin Starts /\ Asks(proc[p].cmd) /\ dsn = ""
  <2> DEFINE r == [pc |-> "done", code |-> 1, said |-> 1]
  <2>1. To(p, got(r))
    BY <1>4, Zenon DEF Load, Starts, load, dsn, AddressOf
  <2>2. DOMAIN r = {"pc", "code", "said"}
    OBVIOUS
  <2> QED
    BY <1>1, <1>4, <2>1, <2>2 DEF Keeps, Fields, Asks, load, dsn
<1>5. CASE /\ ~(Asks(proc[p].cmd) /\ dsn = "")
           /\ proc[p].cmd \in Starts => load.faults = <<>>
           /\ proc[p].cmd \in Starts => ~app.dsn
  <2> DEFINE r == [pc |-> "wire"]
  <2>1. To(p, got(r))
    BY <1>5, Zenon DEF Load, Starts, load, dsn, AddressOf
  <2>2. DOMAIN r = {"pc"} /\ r["pc"] = "wire"
    OBVIOUS
  <2> HIDE DEF r
  <2>3. /\ Formed' /\ Others(p) /\ Keeps(p, {"pc", "load", "dsn", "code", "failed", "said"})
        /\ proc'[p].load = load /\ proc'[p].dsn = dsn /\ proc'[p].failed = proc[p].failed
        /\ proc'[p].pc = "wire" /\ proc'[p].code = proc[p].code
    BY <1>1, <2>1, <2>2 DEF Keeps, Fields
  <2> QED
    BY <1>5, <2>3 DEF load, dsn
<1> QED
  BY <1>2, <1>3, <1>4, <1>5 DEF Asks, Starts

\* What Open leaves behind it.
LEMMA OpenDoes ==
  ASSUME Formed, NEW p \in Procs, Open(p)
  PROVE  /\ Formed' /\ Others(p) /\ Keeps(p, {"pc", "code", "failed"})
         /\ \/ /\ proc'[p].pc = IF Asks(proc[p].cmd) THEN proc[p].cmd ELSE "wire"
               /\ Keeps(p, {"pc"})
            \/ /\ ~Up(proc[p].dsn) /\ proc'[p].pc = "done" /\ proc'[p].code = 1
               /\ proc'[p].failed = proc[p].failed \cup {"database"}
BY DEF Formed, Open, To, With, Others, Keeps, Fields, World, Fails

\* What Wire leaves behind it.
LEMMA WireDoes ==
  ASSUME Formed, NEW p \in Procs, Wire(p)
  PROVE  LET cmd == proc[p].cmd
         IN /\ Formed' /\ Others(p) /\ Keeps(p, {"pc", "code", "failed", "said", "todo"})
            /\ \/ /\ proc'[p].pc = "done" /\ proc'[p].code = 1
                  /\ \/ proc'[p].failed = proc[p].failed \cup {"wiring"} /\ app.wire # "ok"
                     \/ proc'[p].failed = proc[p].failed \cup {"handler"} /\ app.wire = "ok" /\ cmd \in Starts
                     \/ proc'[p].failed = proc[p].failed /\ app.wire = "ok" /\ Asks(cmd) /\ Sets = {}
               \/ /\ proc'[p].failed = proc[p].failed /\ proc'[p].code = proc[p].code /\ app.wire = "ok"
                  /\ \/ Asks(cmd) /\ proc'[p].pc = "open"
                     \/ /\ ~Asks(cmd) /\ proc'[p].pc = "checks"
                        /\ proc'[p].todo = IF cmd \in Starts THEN BootChecks(proc[p].load) ELSE DoctorChecks(proc[p].dsn)
<1> USE DEF Formed, To, With, Others, Keeps, Fields, World, Starts, Wire
<1>1. CASE app.wire # "ok"
  BY <1>1 DEF Fails
<1>2. CASE app.wire = "ok" /\ proc[p].cmd \in Starts /\ ~app.handler
  BY <1>2 DEF Fails
<1>3. CASE app.wire = "ok" /\ Asks(proc[p].cmd) /\ Sets = {}
  BY <1>3 DEF Relay, GoRun, NoModuleMigrations, Asks
<1>4. CASE app.wire = "ok" /\ Asks(proc[p].cmd) /\ Sets # {}
  BY <1>4 DEF Asks
<1>5. CASE app.wire = "ok" /\ ~Asks(proc[p].cmd) /\ ~(proc[p].cmd \in Starts /\ ~app.handler)
  <2> DEFINE todo == IF proc[p].cmd \in Starts THEN BootChecks(proc[p].load) ELSE DoctorChecks(proc[p].dsn)
  <2>1. To(p, [pc |-> "checks", todo |-> todo])
    BY <1>5
  <2> HIDE DEF todo
  <2>2. UNCHANGED db
    OBVIOUS
  <2>3. /\ Formed' /\ Others(p) /\ Keeps(p, {"pc", "todo"})
        /\ proc'[p].pc = "checks" /\ proc'[p].todo = todo
    BY <2>1, <2>2
  <2> QED
    BY <1>5, <2>3 DEF todo
<1> QED
  BY <1>1, <1>2, <1>3, <1>4, <1>5

\* One check runs: it leaves the list, and it joins the failures if it does not hold.
LEMMA RunCheckDoes ==
  ASSUME Formed, NEW p \in Procs, RunCheck(p)
  PROVE  /\ Formed' /\ Others(p) /\ Keeps(p, {"todo", "failed"})
         /\ proc'[p].todo = Tail(proc[p].todo)
         /\ \E done \in Applied(proc[p].dsn) :
              LET c == Head(proc[p].todo)
                  holds == CASE c = "secret" -> SecretHolds(proc[p].load)
                             [] c = "database" -> Up(proc[p].dsn)
                             [] c = "migrations" -> Pending(Sets, done) = {}
                             [] c = "broker" -> broker
              IN /\ proc'[p].failed = proc[p].failed \cup IF holds THEN {} ELSE {c}
                 /\ touched' = touched \cup IF c = "database" /\ holds THEN {proc[p].dsn} ELSE {}
<1> DEFINE c == Head(proc[p].todo)
           holds(done) == CASE c = "secret" -> SecretHolds(proc[p].load)
                             [] c = "database" -> Up(proc[p].dsn)
                             [] c = "migrations" -> Pending(Sets, done) = {}
                             [] c = "broker" -> broker
           r(done) == [todo |-> Tail(proc[p].todo), failed |-> proc[p].failed \cup IF holds(done) THEN {} ELSE {c}]
<1>1. PICK done \in Applied(proc[p].dsn) :
          To(p, r(done)) /\ touched' = touched \cup IF c = "database" /\ holds(done) THEN {proc[p].dsn} ELSE {}
  BY Zenon DEF RunCheck
<1> HIDE DEF holds
<1>2. /\ Formed' /\ Others(p) /\ Keeps(p, {"todo", "failed"}) /\ proc'[p].todo = Tail(proc[p].todo)
      /\ proc'[p].failed = proc[p].failed \cup IF holds(done) THEN {} ELSE {c}
  BY <1>1 DEF Formed, To, With, Others, Keeps, Fields, World, RunCheck
<1> QED
  BY <1>1, <1>2, Zenon DEF holds

\* What Judge leaves behind it, for the doctor and for a start.
LEMMA JudgeDoes ==
  ASSUME Formed, NEW p \in Procs, Judge(p)
  PROVE  /\ Formed' /\ Others(p) /\ Keeps(p, {"pc", "code"})
         /\ \/ /\ proc[p].cmd = "doctor" /\ proc'[p].pc = "done"
               /\ calm' = (calm \/ (/\ proc[p].failed = {} /\ proc[p].load.faults = <<>>
                                    /\ (~app.dsn \/ proc[p].dsn # "") /\ proc[p].steady))
            \/ /\ proc[p].cmd # "doctor" /\ calm' = calm
               /\ \/ proc[p].failed # {} /\ proc'[p].pc = "done" /\ proc'[p].code = 1
                  \/ /\ proc[p].failed = {} /\ proc'[p].code = proc[p].code
                     /\ LET on == app.dsn /\ Sets # {} /\ ValueOf(proc[p].load, OnBoot) = "true"
                        IN proc'[p].pc = IF on THEN "migrate" ELSE "serving"
<1>0. UNCHANGED db
  BY DEF Judge, World
<1>1. CASE proc[p].cmd = "doctor"
  <2> DEFINE ok == proc[p].failed = {} /\ proc[p].load.faults = <<>>
             code == IF ok THEN 0 ELSE 1
             r == [pc |-> "done", code |-> code]
  <2>1. To(p, r) /\ calm' = (calm \/ (ok /\ (~app.dsn \/ proc[p].dsn # "") /\ proc[p].steady))
    BY <1>1, Zenon DEF Judge, Ends
  <2> HIDE DEF code, ok
  <2>2. Formed' /\ Others(p) /\ Keeps(p, {"pc", "code"}) /\ proc'[p].pc = "done"
    BY <1>0, <2>1, EndsDoes
  <2> QED
    BY <1>1, <2>1, <2>2, Zenon DEF ok
<1>2. CASE proc[p].cmd # "doctor" /\ proc[p].failed # {}
  <2>1. To(p, [pc |-> "done", code |-> 1]) /\ calm' = calm
    BY <1>2, Zenon DEF Judge, Ends
  <2>2. Formed' /\ Others(p) /\ Keeps(p, {"pc", "code"}) /\ proc'[p].pc = "done" /\ proc'[p].code = 1
    BY <1>0, <2>1, EndsDoes
  <2> QED
    BY <1>2, <2>1, <2>2, Zenon
<1>3. CASE proc[p].cmd # "doctor" /\ proc[p].failed = {}
  <2> DEFINE on == app.dsn /\ Sets # {} /\ ValueOf(proc[p].load, OnBoot) = "true"
             next == IF on THEN "migrate" ELSE "serving"
  <2>1. To(p, [pc |-> next]) /\ calm' = calm
    BY <1>3, Zenon DEF Judge
  <2> HIDE DEF next
  <2>2. Formed' /\ Others(p) /\ Keeps(p, {"pc"}) /\ proc'[p].pc = next
    BY <1>0, <2>1, PcDoes
  <2>3. Keeps(p, {"pc", "code"}) /\ proc'[p].code = proc[p].code
    BY <2>2 DEF Keeps, Fields
  <2> QED
    BY <1>3, <2>1, <2>2, <2>3, Zenon DEF next
<1> QED
  BY <1>1, <1>2, <1>3

\* A command begins with nothing read and no failure, in the shell or under .env.
LEMMA BeginDoes ==
  ASSUME Formed, NEW p \in Procs, NEW cmd \in Cmds, Begin(p, cmd)
  PROVE  /\ Formed' /\ Others(p)
         /\ proc'[p].cmd = cmd /\ proc'[p].dsn = "" /\ proc'[p].failed = {} /\ proc'[p].via = "app"
         /\ proc'[p].steady => cmd = "doctor" \/ (cmd = "serve" /\ calm)
         /\ cmd \in {"serve", "doctor", "down"} => proc'[p].env = shell
         /\ proc'[p].env \in {shell, Environment(envfile, shell)}
         /\ \/ proc'[p].pc = "directory" /\ cmd \in {"down", "up", "status"}
            \/ proc'[p].pc = "done" /\ proc'[p].code = 1
            \/ proc'[p].pc = "load" /\ cmd # "down"
<1> DEFINE env == IF cmd \in {"dev", "up", "status"} THEN Environment(envfile, shell) ELSE shell
           refuses == cmd = "dev" /\ ~HasEnv(env, Secret)
           steady == cmd = "doctor" \/ (cmd = "serve" /\ calm)
           begun(pc) == [Idle EXCEPT !.cmd = cmd, !.pc = pc, !.env = env, !.code = IF pc = "done" THEN 1 ELSE 0,
                                     !.steady = steady]
           next == IF cmd = "down" THEN "directory"
                   ELSE IF Asks(cmd) /\ ~app.gomod THEN "directory"
                   ELSE IF cmd \in {"dev", "up", "status"} /\ EnvFault(envfile) THEN "done"
                   ELSE IF refuses \/ (cmd \in {"dev", "doctor"} /\ ~app.gomod) THEN "done"
                   ELSE IF Asks(cmd) /\ app.older THEN "directory"
                   ELSE "load"
<1>1. proc' = [proc EXCEPT ![p] = begun(next)] /\ UNCHANGED db
  BY Zenon DEF Begin, World
<1>2. \/ next = "directory" /\ cmd \in {"down", "up", "status"}
      \/ next = "done"
      \/ next = "load" /\ cmd # "down"
  BY DEF Asks
<1>3. env \in {shell, Environment(envfile, shell)} /\ (cmd \in {"serve", "doctor", "down"} => env = shell)
  BY DEF Cmds
<1>4. steady => cmd = "doctor" \/ (cmd = "serve" /\ calm)
  OBVIOUS
<1> HIDE DEF env, steady, next
<1>5. /\ begun(next).cmd = cmd /\ begun(next).pc = next /\ begun(next).env = env
      /\ begun(next).code = (IF next = "done" THEN 1 ELSE 0) /\ begun(next).dsn = "" /\ begun(next).failed = {}
      /\ begun(next).via = "app" /\ begun(next).steady = steady /\ DOMAIN begun(next) = Fields
  BY DEF Idle, Fields
<1>6. proc'[p] = begun(next) /\ Formed' /\ Others(p)
  BY <1>1, <1>5 DEF Formed, Others
<1> QED
  BY <1>2, <1>3, <1>4, <1>5, <1>6

\* A status that answers 0 saw nothing pending.
LEMMA StatusDoes ==
  ASSUME Formed, NEW p \in Procs, Status(p)
  PROVE  /\ Formed' /\ Others(p) /\ Keeps(p, {"pc", "code", "said"}) /\ proc'[p].pc = "done"
         /\ proc'[p].code = 0 => \E done \in Applied(proc[p].dsn) : Pending(Sets, done) = {}
<1>0. PICK done \in Applied(proc[p].dsn) : Relay(p, IF Pending(Sets, done) = {} THEN 0 ELSE 1)
  BY Zenon DEF Status
<1>1. UNCHANGED db
  BY DEF Status, World
<1>2. CASE Pending(Sets, done) = {}
  <2>1. To(p, [said |-> 0, pc |-> "done", code |-> 0])
    BY <1>0, <1>2 DEF Relay, GoRun, NoModuleMigrations
  <2> QED
    BY <1>1, <1>2, <2>1, ToDoes DEF Keeps, Fields
<1>3. CASE Pending(Sets, done) # {}
  <2>1. To(p, [said |-> 1, pc |-> "done", code |-> 1])
    BY <1>0, <1>3 DEF Relay, GoRun, NoModuleMigrations
  <2> QED
    BY <1>1, <2>1, ToDoes DEF Keeps, Fields
<1> QED
  BY <1>2, <1>3

\* The directory is read with the address of the shell.
LEMMA DirectoryDoes ==
  ASSUME Formed, NEW p \in Procs, Directory(p)
  PROVE  /\ Formed' /\ Others(p) /\ Keeps(p, {"via", "pc", "code", "dsn"}) /\ proc'[p].via = "directory"
         /\ \/ proc'[p].pc = "done" /\ proc'[p].code = 1 /\ proc'[p].dsn = proc[p].dsn
            \/ /\ proc'[p].pc = "apply" /\ proc'[p].dsn # ""
               /\ Lookup(shell, Url) # <<>> /\ proc'[p].dsn = Lookup(shell, Url)[1]
<1> DEFINE url == Lookup(shell, Url)
           dsn == IF url = <<>> THEN "" ELSE url[1]
<1>0. \/ To(p, [via |-> "directory", pc |-> "done", code |-> 1])
      \/ dsn # "" /\ To(p, [via |-> "directory", pc |-> "apply", dsn |-> dsn])
  BY Zenon DEF Directory
<1>1. UNCHANGED db
  BY DEF Directory, World
<1>2. CASE To(p, [via |-> "directory", pc |-> "done", code |-> 1])
  <2> DEFINE r == [via |-> "directory", pc |-> "done", code |-> 1]
  <2>1. DOMAIN r = {"via", "pc", "code"} /\ r["via"] = "directory" /\ r["pc"] = "done" /\ r["code"] = 1
    OBVIOUS
  <2> HIDE DEF r
  <2>2. To(p, r)
    BY <1>2 DEF r
  <2> QED
    BY <1>1, <2>1, <2>2, ToDoes DEF Keeps, Fields
<1>3. CASE dsn # "" /\ To(p, [via |-> "directory", pc |-> "apply", dsn |-> dsn])
  <2>1. url # <<>> /\ dsn = url[1] /\ dsn # ""
    BY <1>3
  <2> HIDE DEF dsn
  <2> DEFINE r == [via |-> "directory", pc |-> "apply", dsn |-> dsn]
  <2>2. DOMAIN r = {"via", "pc", "dsn"} /\ r["via"] = "directory" /\ r["pc"] = "apply" /\ r["dsn"] = dsn
    OBVIOUS
  <2> HIDE DEF r
  <2>3. To(p, r)
    BY <1>3 DEF r
  <2>4. /\ Formed' /\ Others(p) /\ Keeps(p, {"via", "pc", "dsn"}) /\ proc'[p].via = "directory"
        /\ proc'[p].pc = "apply" /\ proc'[p].dsn = dsn
    BY <1>1, <2>2, <2>3, ToDoes DEF Keeps, Fields
  <2> QED
    BY <2>1, <2>4 DEF Keeps, Fields
<1> QED
  BY <1>0, <1>2, <1>3

\* A step Ends(p, code).
LEMMA EndsCode ==
  ASSUME Formed, UNCHANGED db, NEW p \in Procs, NEW code, Ends(p, code)
  PROVE  Formed' /\ Others(p) /\ Keeps(p, {"pc", "code"}) /\ proc'[p].pc = "done" /\ proc'[p].code = code
BY EndsDoes DEF Ends

\* What the choice of a version to reverse leaves behind it.
LEMMA PickDownDoes ==
  ASSUME Formed, NEW p \in Procs, PickDown(p)
  PROVE  /\ Formed' /\ Others(p) /\ Keeps(p, {"pc", "code", "picked"}) /\ proc'[p].pc \in {"done", "reverse"}
<1>1. UNCHANGED db
  BY DEF PickDown, World
<1>2. ASSUME NEW code, Ends(p, code)
      PROVE  Formed' /\ Others(p) /\ Keeps(p, {"pc", "code", "picked"}) /\ proc'[p].pc \in {"done", "reverse"}
  <2>1. Formed' /\ Others(p) /\ Keeps(p, {"pc", "code"}) /\ proc'[p].pc = "done"
    BY <1>1, <1>2, EndsCode
  <2> QED
    BY <2>1 DEF Keeps
<1>3. ASSUME NEW v, To(p, [pc |-> "reverse", picked |-> v])
      PROVE  Formed' /\ Others(p) /\ Keeps(p, {"pc", "code", "picked"}) /\ proc'[p].pc \in {"done", "reverse"}
  BY <1>1, <1>3, ToDoes DEF Keeps, Fields
<1>4. \/ Ends(p, 0) \/ Ends(p, 1) \/ \E v : To(p, [pc |-> "reverse", picked |-> v])
  BY Zenon DEF PickDown
<1> QED
  BY <1>2, <1>3, <1>4

\* What a change of a database or of the broker does to the processes.
Unsteady == \A q \in Procs : /\ ~proc'[q].steady /\ DOMAIN proc'[q] = Fields
                                /\ \A x \in Fields \ {"steady"} : proc'[q][x] = proc[q][x]

\* A change of the world leaves every process where it is, and no doctor speaks for it any more.
LEMMA ChangedDoes ==
  ASSUME Formed, NEW p \in Procs, Changed(<<>>, p)
  PROVE  DOMAIN proc' = Procs /\ Unsteady /\ ~calm'
<1>1. With(<<>>, proc[p]) = [x \in DOMAIN proc[p] |-> proc[p][x]]
  BY DEF With
<1> QED
  BY <1>1 DEF Formed, Changed, Unsteady, Fields

-----------------------------------------------------------------------------
\* The checks of a start and of the doctor, as sets.
LEMMA BootChecksAre ==
  ASSUME NEW load
  PROVE  /\ BootChecks(load) \in Seq(Checks)
         /\ Range(BootChecks(load)) = {"secret", "broker"} \cup (IF app.dsn THEN {"database"} ELSE {})
                \cup (IF app.dsn /\ ValueOf(load, OnBoot) # "true" /\ Sets # {} THEN {"migrations"} ELSE {})
<1> DEFINE pending == app.dsn /\ ValueOf(load, OnBoot) # "true" /\ Sets # {}
           b == IF app.dsn THEN <<"database">> ELSE <<>>
           c == IF pending THEN <<"migrations">> ELSE <<>>
<1>1. \A x \in Checks : <<x>> \in Seq(Checks) /\ Range(<<x>>) = {x} /\ <<>> \in Seq(Checks) /\ Range(<<>>) = {}
  BY RangeOfOne
<1>2. "secret" \in Checks /\ "database" \in Checks /\ "migrations" \in Checks /\ "broker" \in Checks
  BY DEF Checks
<1>3. b \in Seq(Checks) /\ Range(b) = IF app.dsn THEN {"database"} ELSE {}
  BY <1>1, <1>2
<1>4. c \in Seq(Checks) /\ Range(c) = IF pending THEN {"migrations"} ELSE {}
  <2> HIDE DEF pending
  <2> QED
    BY <1>1, <1>2
<1>5. BootChecks(load) = <<"secret">> \o b \o c \o <<"broker">>
  BY DEF BootChecks
<1> HIDE DEF b, c, pending
<1>6. /\ BootChecks(load) \in Seq(Checks)
      /\ Range(BootChecks(load)) = Range(<<"secret">>) \cup Range(b) \cup Range(c) \cup Range(<<"broker">>)
  <2> DEFINE a == <<"secret">>
             d == <<"broker">>
  <2>1. a \in Seq(Checks) /\ d \in Seq(Checks) /\ b \in Seq(Checks) /\ c \in Seq(Checks)
    BY <1>1, <1>2, <1>3, <1>4
  <2> HIDE DEF a, d
  <2>2. /\ a \o b \o c \o d \in Seq(Checks)
        /\ Range(a \o b \o c \o d) = Range(a) \cup Range(b) \cup Range(c) \cup Range(d)
    BY <2>1, RangeOfFour
  <2> QED
    BY <1>5, <2>2, Zenon DEF a, d
<1>7. Range(BootChecks(load)) = {"secret", "broker"} \cup (IF app.dsn THEN {"database"} ELSE {})
                                  \cup (IF pending THEN {"migrations"} ELSE {})
  BY <1>1, <1>2, <1>3, <1>4, <1>6
<1> QED
  BY <1>6, <1>7 DEF pending

\* The same of the doctor.
LEMMA DoctorChecksAre ==
  ASSUME NEW dsn
  PROVE  /\ DoctorChecks(dsn) \in Seq(Checks)
         /\ Range(DoctorChecks(dsn)) = {"secret", "broker"} \cup (IF dsn # "" THEN {"database"} ELSE {})
                \cup (IF dsn # "" /\ Sets # {} THEN {"migrations"} ELSE {})
<1> DEFINE pending == dsn # "" /\ Sets # {}
           b == IF dsn # "" THEN <<"database">> ELSE <<>>
           c == IF pending THEN <<"migrations">> ELSE <<>>
<1>1. \A x \in Checks : <<x>> \in Seq(Checks) /\ Range(<<x>>) = {x} /\ <<>> \in Seq(Checks) /\ Range(<<>>) = {}
  BY RangeOfOne
<1>2. "secret" \in Checks /\ "database" \in Checks /\ "migrations" \in Checks /\ "broker" \in Checks
  BY DEF Checks
<1>3. b \in Seq(Checks) /\ Range(b) = IF dsn # "" THEN {"database"} ELSE {}
  BY <1>1, <1>2
<1>4. c \in Seq(Checks) /\ Range(c) = IF pending THEN {"migrations"} ELSE {}
  <2> HIDE DEF pending
  <2> QED
    BY <1>1, <1>2
<1>5. DoctorChecks(dsn) = <<"secret">> \o b \o c \o <<"broker">>
  BY DEF DoctorChecks
<1> HIDE DEF b, c, pending
<1>6. /\ DoctorChecks(dsn) \in Seq(Checks)
      /\ Range(DoctorChecks(dsn)) = Range(<<"secret">>) \cup Range(b) \cup Range(c) \cup Range(<<"broker">>)
  <2> DEFINE a == <<"secret">>
             d == <<"broker">>
  <2>1. a \in Seq(Checks) /\ d \in Seq(Checks) /\ b \in Seq(Checks) /\ c \in Seq(Checks)
    BY <1>1, <1>2, <1>3, <1>4
  <2> HIDE DEF a, d
  <2>2. /\ a \o b \o c \o d \in Seq(Checks)
        /\ Range(a \o b \o c \o d) = Range(a) \cup Range(b) \cup Range(c) \cup Range(d)
    BY <2>1, RangeOfFour
  <2> QED
    BY <1>5, <2>2, Zenon DEF a, d
<1>7. Range(DoctorChecks(dsn)) = {"secret", "broker"} \cup (IF dsn # "" THEN {"database"} ELSE {})
                                   \cup (IF pending THEN {"migrations"} ELSE {})
  BY <1>1, <1>2, <1>3, <1>4, <1>6
<1> QED
  BY <1>6, <1>7 DEF pending

-----------------------------------------------------------------------------
\* Nothing that q relies on changes under it: its own record up to steady, the application and what its database holds.
Grows == DOMAIN db' = DOMAIN db /\ \A d \in Databases : db[d].applied \subseteq db'[d].applied
Spared(q) == /\ \A x \in Fields \ {"steady", "undone"} : proc'[q][x] = proc[q][x]
             /\ proc'[q].steady => proc[q].steady
             /\ proc'[q].undone \/ (Grows /\ proc'[q].undone = proc[q].undone)

\* What a database holds it holds after a step that takes nothing away.
LEMMA HoldingGrows ==
  ASSUME Fixed, Grows, NEW files, NEW dsn, Holding(files, dsn) PROVE Holding(files, dsn)'
BY DEF Holding, Grows

\* The members of a record that is spared.
LEMMA SparedSame ==
  ASSUME NEW q \in Procs, Spared(q)
  PROVE  /\ proc'[q].cmd = proc[q].cmd /\ proc'[q].pc = proc[q].pc /\ proc'[q].env = proc[q].env
         /\ proc'[q].load = proc[q].load /\ proc'[q].dsn = proc[q].dsn /\ proc'[q].todo = proc[q].todo
         /\ proc'[q].failed = proc[q].failed /\ proc'[q].code = proc[q].code /\ proc'[q].via = proc[q].via
BY DEF Spared, Fields

\* The invariant of a process holds after a step that spares it.
LEMMA SparedKeeps ==
  ASSUME Fixed, NEW q \in Procs, Spared(q), OwnInv(q)
  PROVE  OwnInv(q)'
<1> USE SparedSame
<1>1. PlacedAt(q)'
  BY DEF OwnInv, PlacedAt, Fixed, Spared
<1>2. LoadedAt(q)'
  BY DEF OwnInv, LoadedAt, Fixed, AddressOf
<1>3. ChecksOf(q)' = ChecksOf(q) /\ ProvenAt(q)' = ProvenAt(q)
  BY DEF ChecksOf, ProvenAt, Fixed, BootChecks, DoctorChecks, Sets
<1>4. CheckingAt(q)'
  BY <1>3 DEF OwnInv, CheckingAt
<1>5. ASSUME ~proc'[q].undone, NEW files, Holding(files, proc[q].dsn) PROVE Holding(files, proc[q].dsn)'
  BY <1>5, HoldingGrows DEF Spared
<1>6. ProvedAt(q)'
  BY <1>3, <1>5 DEF OwnInv, ProvedAt, Spared, Fixed, Sets
<1>7. AnsweredAt(q)'
  BY <1>5 DEF OwnInv, AnsweredAt, Spared, Fixed, Sets
<1> QED
  BY <1>1, <1>2, <1>4, <1>6, <1>7 DEF OwnInv

\* A step of one process that changes no database spares the others.
LEMMA OthersSpared ==
  ASSUME NEW p \in Procs, Others(p), UNCHANGED db, NEW q \in Procs \ {p}
  PROVE  Spared(q)
BY DEF Others, Spared, Grows

\* What a step of p leaves to show: what it promises of p itself.
LEMMA OneMoves ==
  ASSUME MigrateInv, NEW p \in Procs, Formed', Others(p), Fixed, UNCHANGED db, OwnInv(p)'
  PROVE  MigrateInv'
<1>1. ASSUME NEW q \in Procs \ {p} PROVE OwnInv(q)'
  BY OthersSpared, SparedKeeps DEF MigrateInv
<1> QED
  BY <1>1 DEF MigrateInv

\* The facts that Applied gives of what it may answer.
LEMMA AppliedIs ==
  ASSUME NEW dsn, NEW done \in Applied(dsn), NEW files, Pending(files, done) = {}
  PROVE  Holding(files, dsn)
BY DEF Applied, Pending, Holding, Up

\* The invariant over each step, one lemma for one action.
LEMMA BeginKeeps ==
  ASSUME MigrateInv, NEW p \in Procs, NEW cmd \in Cmds, Begin(p, cmd) PROVE MigrateInv'
<1>1. /\ Formed' /\ Others(p)
      /\ proc'[p].cmd = cmd /\ proc'[p].via = "app"
      /\ proc'[p].steady => cmd = "doctor" \/ (cmd = "serve" /\ calm)
      /\ cmd \in {"serve", "doctor", "down"} => proc'[p].env = shell
      /\ \/ proc'[p].pc = "directory" /\ cmd \in {"down", "up", "status"}
         \/ proc'[p].pc = "done" /\ proc'[p].code = 1
         \/ proc'[p].pc = "load" /\ cmd # "down"
  BY BeginDoes DEF MigrateInv
<1>2. Fixed /\ UNCHANGED db
  BY DEF Begin, World
<1>3. PlacedAt(p)'
  BY <1>1, <1>2 DEF PlacedAt, Fixed, Cmds
<1>4. LoadedAt(p)' /\ CheckingAt(p)' /\ ProvedAt(p)' /\ AnsweredAt(p)'
  BY <1>1 DEF LoadedAt, CheckingAt, ProvedAt, AnsweredAt
<1> QED
  BY <1>1, <1>2, <1>3, <1>4, OneMoves DEF OwnInv

\* Load keeps the invariant.
LEMMA LoadKeeps ==
  ASSUME MigrateInv, NEW p \in Procs, Load(p) PROVE MigrateInv'
<1> DEFINE load == LoadFrom(app.type, proc[p].env)
           dsn == AddressOf(load)
<1>0. Formed /\ OwnInv(p) /\ proc[p].pc = "load" /\ Fixed /\ UNCHANGED db
  BY DEF MigrateInv, Load, World
<1>1. /\ Formed' /\ Others(p) /\ Keeps(p, {"pc", "load", "dsn", "code", "failed", "said"})
      /\ proc'[p].load = load /\ proc'[p].dsn = dsn
      /\ \/ /\ proc[p].cmd \in Starts /\ load.faults # <<>>
            /\ proc'[p].pc = "done" /\ proc'[p].code = 1 /\ proc'[p].failed = {"config"}
         \/ /\ proc[p].cmd \in Starts => load.faults = <<>>
            /\ proc'[p].failed = proc[p].failed
            /\ \/ proc[p].cmd \in Starts /\ app.dsn /\ proc'[p].pc = "open" /\ proc'[p].code = proc[p].code
               \/ proc[p].cmd \in {"up", "status"} /\ proc'[p].pc = "done" /\ proc'[p].code = 1
               \/ /\ ~(Asks(proc[p].cmd) /\ dsn = "")
                  /\ proc'[p].pc = "wire" /\ proc'[p].code = proc[p].code
  BY <1>0, LoadDoes
<1>2. /\ proc'[p].cmd = proc[p].cmd /\ proc'[p].env = proc[p].env /\ proc'[p].via = proc[p].via
      /\ proc'[p].steady = proc[p].steady
  BY <1>1 DEF Keeps, Fields
<1>3. AddressOf(load)' = AddressOf(load) /\ load' = load
  BY <1>0, <1>2 DEF AddressOf, Fixed
<1>a. dsn # "" => app.dsn
  BY DEF AddressOf
<1> HIDE DEF load, dsn
<1>4. PlacedAt(p)'
  BY <1>0, <1>1, <1>2, <1>a DEF PlacedAt, OwnInv, Fixed, Starts, Asks
<1>5. LoadedAt(p)'
  BY <1>0, <1>1, <1>2, <1>3 DEF LoadedAt, dsn, load, Fixed, AddressOf
<1>b. proc'[p].pc \notin {"checks", "serving"} /\ (proc'[p].pc = "done" => proc'[p].code = 1)
  BY <1>1
<1>6. CheckingAt(p)' /\ ProvedAt(p)' /\ AnsweredAt(p)'
  BY <1>b DEF CheckingAt, ProvedAt, AnsweredAt
<1> QED
  BY <1>0, <1>1, <1>4, <1>5, <1>6, OneMoves DEF OwnInv

\* Open keeps the invariant.
LEMMA OpenKeeps ==
  ASSUME MigrateInv, NEW p \in Procs, Open(p) PROVE MigrateInv'
<1>0. Formed /\ OwnInv(p) /\ proc[p].pc = "open" /\ Fixed /\ UNCHANGED db
  BY DEF MigrateInv, Open, World
<1>1. /\ Formed' /\ Others(p) /\ Keeps(p, {"pc", "code", "failed"})
      /\ \/ proc'[p].pc = IF Asks(proc[p].cmd) THEN proc[p].cmd ELSE "wire"
         \/ proc'[p].pc = "done" /\ proc'[p].code = 1
  BY <1>0, OpenDoes
<1>2. /\ proc'[p].cmd = proc[p].cmd /\ proc'[p].env = proc[p].env /\ proc'[p].via = proc[p].via
      /\ proc'[p].steady = proc[p].steady /\ proc'[p].load = proc[p].load /\ proc'[p].dsn = proc[p].dsn
  BY <1>1 DEF Keeps, Fields
<1>3. PlacedAt(p)'
  BY <1>0, <1>1, <1>2 DEF PlacedAt, OwnInv, Fixed, Asks
<1>4. LoadedAt(p)'
  BY <1>0, <1>1, <1>2 DEF LoadedAt, OwnInv, Fixed, AddressOf, Asks
<1>5. CheckingAt(p)' /\ ProvedAt(p)' /\ AnsweredAt(p)'
  BY <1>1 DEF CheckingAt, ProvedAt, AnsweredAt, Asks
<1> QED
  BY <1>0, <1>1, <1>3, <1>4, <1>5, OneMoves DEF OwnInv

\* Wire keeps the invariant.
LEMMA WireKeeps ==
  ASSUME MigrateInv, NEW p \in Procs, Wire(p) PROVE MigrateInv'
<1>0. Formed /\ OwnInv(p) /\ proc[p].pc = "wire" /\ Fixed /\ UNCHANGED db
  BY DEF MigrateInv, Wire, World
<1>1. /\ Formed' /\ Others(p) /\ Keeps(p, {"pc", "code", "failed", "said", "todo"})
      /\ \/ proc'[p].pc = "done" /\ proc'[p].code = 1
         \/ /\ app.wire = "ok"
            /\ \/ Asks(proc[p].cmd) /\ proc'[p].pc = "open"
               \/ /\ ~Asks(proc[p].cmd) /\ proc'[p].pc = "checks"
                  /\ proc'[p].todo = IF proc[p].cmd \in Starts THEN BootChecks(proc[p].load) ELSE DoctorChecks(proc[p].dsn)
  BY <1>0, WireDoes
<1>2. /\ proc'[p].cmd = proc[p].cmd /\ proc'[p].env = proc[p].env /\ proc'[p].via = proc[p].via
      /\ proc'[p].steady = proc[p].steady /\ proc'[p].load = proc[p].load /\ proc'[p].dsn = proc[p].dsn
  BY <1>1 DEF Keeps, Fields
<1>a. Asks(proc[p].cmd) => app.dsn
  BY <1>0 DEF OwnInv, PlacedAt
<1>3. PlacedAt(p)'
  BY <1>0, <1>1, <1>2, <1>a DEF PlacedAt, OwnInv, Fixed, Asks, Cmds, Starts
<1>4. LoadedAt(p)'
  BY <1>0, <1>1, <1>2 DEF LoadedAt, OwnInv, Fixed, AddressOf
<1>5. proc'[p].pc = "checks" => proc'[p].todo \in Seq(Checks) /\ Range(proc'[p].todo) = ChecksOf(p)'
  <2> DEFINE todo == IF proc[p].cmd \in Starts THEN BootChecks(proc[p].load) ELSE DoctorChecks(proc[p].dsn)
  <2>1. todo \in Seq(Checks) /\ ChecksOf(p)' = Range(todo)
    BY <1>0, <1>2, BootChecksAre, DoctorChecksAre DEF ChecksOf, Fixed, BootChecks, DoctorChecks, Sets
  <2> QED
    BY <1>1, <2>1
<1>6. CheckingAt(p)' /\ ProvedAt(p)' /\ AnsweredAt(p)'
  BY <1>1, <1>5 DEF CheckingAt, ProvedAt, AnsweredAt, ProvenAt
<1> QED
  BY <1>0, <1>1, <1>3, <1>4, <1>6, OneMoves DEF OwnInv

\* A check keeps the invariant: the one of the migrations holds because the database holds them.
LEMMA RunCheckKeeps ==
  ASSUME MigrateInv, NEW p \in Procs, RunCheck(p) PROVE MigrateInv'
<1> DEFINE c == Head(proc[p].todo)
<1>0. Formed /\ OwnInv(p) /\ proc[p].pc = "checks" /\ proc[p].todo # <<>> /\ Fixed /\ UNCHANGED db
  BY DEF MigrateInv, RunCheck, World
<1>1. /\ Formed' /\ Others(p) /\ Keeps(p, {"todo", "failed"})
      /\ proc'[p].todo = Tail(proc[p].todo)
  BY <1>0, RunCheckDoes
<1>2. /\ proc[p].failed \subseteq proc'[p].failed
      /\ c = "migrations" => c \in proc'[p].failed \/ Holding(Sets, proc[p].dsn)
  <2>1. PICK done \in Applied(proc[p].dsn) :
          LET holds == CASE c = "secret" -> SecretHolds(proc[p].load)
                         [] c = "database" -> Up(proc[p].dsn)
                         [] c = "migrations" -> Pending(Sets, done) = {}
                         [] c = "broker" -> broker
          IN proc'[p].failed = proc[p].failed \cup IF holds THEN {} ELSE {c}
    BY <1>0, RunCheckDoes, Zenon
  <2>2. CASE c # "migrations"
    BY <2>1, <2>2
  <2>3. CASE c = "migrations"
    <3>1. proc'[p].failed = proc[p].failed \cup IF Pending(Sets, done) = {} THEN {} ELSE {c}
      BY <2>1, <2>3
    <3> QED
      BY <3>1, AppliedIs
  <2> QED
    BY <2>2, <2>3
<1>3. /\ proc'[p].cmd = proc[p].cmd /\ proc'[p].pc = "checks" /\ proc'[p].env = proc[p].env
      /\ proc'[p].load = proc[p].load /\ proc'[p].dsn = proc[p].dsn /\ proc'[p].via = proc[p].via
      /\ proc'[p].steady = proc[p].steady /\ proc'[p].undone = proc[p].undone
  BY <1>0, <1>1 DEF Keeps, Fields
<1>4. ChecksOf(p)' = ChecksOf(p)
  BY <1>0, <1>3 DEF ChecksOf, Fixed, BootChecks, DoctorChecks, Sets
<1>5. /\ proc'[p].todo \in Seq(Checks) /\ Range(proc'[p].todo) \subseteq ChecksOf(p)
      /\ Range(proc[p].todo) = {c} \cup Range(proc'[p].todo)
  <2>1. proc[p].todo \in Seq(Checks) /\ Range(proc[p].todo) \subseteq ChecksOf(p)
    BY <1>0 DEF OwnInv, CheckingAt
  <2> QED
    BY <1>0, <1>1, <2>1, RangeOfHead
<1>6. ProvenAt(p)' \subseteq ProvenAt(p) \cup {c} /\ (c \in ProvenAt(p)' => c \notin proc'[p].failed)
  BY <1>2, <1>4, <1>5 DEF ProvenAt
<1>7. Holding(Sets, proc[p].dsn)' = Holding(Sets, proc[p].dsn)
  BY <1>0, <1>3 DEF Holding, Sets, Fixed
<1>8. PlacedAt(p)' /\ LoadedAt(p)'
  BY <1>0, <1>3 DEF PlacedAt, LoadedAt, OwnInv, Fixed, AddressOf
<1>9. CheckingAt(p)'
  BY <1>4, <1>5 DEF CheckingAt
<1>10. "migrations" \in ProvenAt(p)' => "migrations" \in ProvenAt(p) \/ Holding(Sets, proc[p].dsn)
  BY <1>2, <1>6
<1>11. ProvedAt(p)' /\ AnsweredAt(p)'
  BY <1>0, <1>3, <1>7, <1>10 DEF ProvedAt, AnsweredAt, OwnInv, Fixed
<1> QED
  BY <1>0, <1>1, <1>8, <1>9, <1>11, OneMoves DEF OwnInv

\* Judge keeps the invariant: a start that serves ran the check of the migrations, or has none to prove.
LEMMA JudgeKeeps ==
  ASSUME MigrateInv, NEW p \in Procs, Judge(p) PROVE MigrateInv'
<1> DEFINE on == app.dsn /\ Sets # {} /\ ValueOf(proc[p].load, OnBoot) = "true"
<1>0. Formed /\ OwnInv(p) /\ proc[p].pc = "checks" /\ proc[p].todo = <<>> /\ Fixed /\ UNCHANGED db
  BY DEF MigrateInv, Judge, World
<1>1. /\ Formed' /\ Others(p) /\ Keeps(p, {"pc", "code"})
      /\ \/ proc[p].cmd = "doctor" /\ proc'[p].pc = "done"
         \/ /\ proc[p].cmd # "doctor"
            /\ \/ proc'[p].pc = "done" /\ proc'[p].code = 1
               \/ proc[p].failed = {} /\ proc'[p].pc = IF on THEN "migrate" ELSE "serving"
  BY <1>0, JudgeDoes, Zenon
<1>2. /\ proc'[p].cmd = proc[p].cmd /\ proc'[p].env = proc[p].env /\ proc'[p].load = proc[p].load
      /\ proc'[p].dsn = proc[p].dsn /\ proc'[p].via = proc[p].via /\ proc'[p].steady = proc[p].steady
      /\ proc'[p].undone = proc[p].undone
  BY <1>1 DEF Keeps, Fields
<1>3. PlacedAt(p)' /\ LoadedAt(p)'
  BY <1>0, <1>1, <1>2 DEF PlacedAt, LoadedAt, OwnInv, Fixed, AddressOf, Starts
<1>4. Holding(Sets, proc[p].dsn)' = Holding(Sets, proc[p].dsn)
  BY <1>0, <1>2 DEF Holding, Sets, Fixed
<1>5. (proc'[p].pc = "serving" /\ app.dsn /\ ~proc[p].undone) => Holding(Sets, proc[p].dsn)
  <2> SUFFICES ASSUME proc'[p].pc = "serving", app.dsn, ~proc[p].undone, Sets # {} PROVE Holding(Sets, proc[p].dsn)
    BY DEF Holding
  <2>1. proc[p].failed = {} /\ ~on /\ proc[p].cmd # "doctor"
    BY <1>1
  <2>2. proc[p].cmd \in Starts
    BY <1>0, <2>1 DEF OwnInv, PlacedAt
  <2>3. "migrations" \in ChecksOf(p)
    BY <2>1, <2>2, BootChecksAre DEF ChecksOf
  <2>4. "migrations" \in ProvenAt(p)
    BY <1>0, <2>1, <2>3 DEF ProvenAt, Range
  <2> QED
    BY <1>0, <2>2, <2>4 DEF OwnInv, ProvedAt
<1>6. CheckingAt(p)'
  BY <1>1 DEF CheckingAt
<1>7. ProvedAt(p)'
  BY <1>0, <1>1, <1>2, <1>4, <1>5 DEF ProvedAt, Fixed
<1>8. AnsweredAt(p)'
  BY <1>0, <1>1, <1>2 DEF AnsweredAt, Asks, OwnInv, PlacedAt, Starts
<1> QED
  BY <1>0, <1>1, <1>3, <1>6, <1>7, <1>8, OneMoves DEF OwnInv

\* Status keeps the invariant.
LEMMA StatusKeeps ==
  ASSUME MigrateInv, NEW p \in Procs, Status(p) PROVE MigrateInv'
<1>0. Formed /\ OwnInv(p) /\ proc[p].pc = "status" /\ Fixed /\ UNCHANGED db
  BY DEF MigrateInv, Status, World
<1>1. /\ Formed' /\ Others(p) /\ Keeps(p, {"pc", "code", "said"}) /\ proc'[p].pc = "done"
      /\ proc'[p].code = 0 => \E done \in Applied(proc[p].dsn) : Pending(Sets, done) = {}
  BY <1>0, StatusDoes
<1>2. /\ proc'[p].cmd = proc[p].cmd /\ proc'[p].env = proc[p].env /\ proc'[p].load = proc[p].load
      /\ proc'[p].dsn = proc[p].dsn /\ proc'[p].via = proc[p].via /\ proc'[p].steady = proc[p].steady
  BY <1>1 DEF Keeps, Fields
<1>3. PlacedAt(p)' /\ LoadedAt(p)' /\ CheckingAt(p)' /\ ProvedAt(p)'
  BY <1>0, <1>1, <1>2 DEF PlacedAt, LoadedAt, CheckingAt, ProvedAt, OwnInv, Fixed
<1>4. proc'[p].code = 0 => Holding(Sets, proc[p].dsn)
  BY <1>1, AppliedIs
<1>5. Holding(Sets, proc[p].dsn)' = Holding(Sets, proc[p].dsn)
  BY <1>0, <1>2 DEF Holding, Sets, Fixed
<1>6. proc[p].cmd = "status"
  BY <1>0 DEF OwnInv, PlacedAt
<1>7. AnsweredAt(p)'
  BY <1>1, <1>2, <1>4, <1>5, <1>6 DEF AnsweredAt
<1> QED
  BY <1>0, <1>1, <1>3, <1>7, OneMoves DEF OwnInv

\* Directory keeps the invariant.
LEMMA DirectoryKeeps ==
  ASSUME MigrateInv, NEW p \in Procs, Directory(p) PROVE MigrateInv'
<1>0. Formed /\ OwnInv(p) /\ proc[p].pc = "directory" /\ Fixed /\ UNCHANGED db
  BY DEF MigrateInv, Directory, World
<1>1. /\ Formed' /\ Others(p) /\ Keeps(p, {"via", "pc", "code", "dsn"}) /\ proc'[p].via = "directory"
      /\ \/ proc'[p].pc = "done" /\ proc'[p].code = 1
         \/ proc'[p].pc = "apply"
  BY <1>0, DirectoryDoes
<1>2. proc'[p].cmd = proc[p].cmd /\ proc'[p].env = proc[p].env /\ proc'[p].steady = proc[p].steady
  BY <1>1 DEF Keeps, Fields
<1>3. PlacedAt(p)'
  BY <1>0, <1>1, <1>2 DEF PlacedAt, OwnInv, Fixed
<1>4. LoadedAt(p)' /\ CheckingAt(p)' /\ ProvedAt(p)' /\ AnsweredAt(p)'
  BY <1>1 DEF LoadedAt, CheckingAt, ProvedAt, AnsweredAt
<1> QED
  BY <1>0, <1>1, <1>3, <1>4, OneMoves DEF OwnInv

\* The status of the directory keeps the invariant.
LEMMA DirectoryStatusKeeps ==
  ASSUME MigrateInv, NEW p \in Procs, DirectoryStatus(p) PROVE MigrateInv'
<1>0. /\ Formed /\ OwnInv(p) /\ proc[p].pc = "apply" /\ proc[p].cmd = "status" /\ Fixed /\ UNCHANGED db
      /\ Ends(p, 0)
  BY DEF MigrateInv, DirectoryStatus, World
<1>1. Formed' /\ Others(p) /\ Keeps(p, {"pc", "code"}) /\ proc'[p].pc = "done"
  BY <1>0, EndsCode
<1>2. /\ proc'[p].cmd = proc[p].cmd /\ proc'[p].env = proc[p].env /\ proc'[p].via = proc[p].via
      /\ proc'[p].steady = proc[p].steady
  BY <1>1 DEF Keeps, Fields
<1>3. PlacedAt(p)'
  BY <1>0, <1>1, <1>2 DEF PlacedAt, OwnInv, Fixed
<1>4. proc[p].via = "directory"
  BY <1>0 DEF PlacedAt, OwnInv
<1>5. LoadedAt(p)' /\ CheckingAt(p)' /\ ProvedAt(p)' /\ AnsweredAt(p)'
  BY <1>0, <1>1, <1>2, <1>4 DEF LoadedAt, CheckingAt, ProvedAt, AnsweredAt
<1> QED
  BY <1>0, <1>1, <1>3, <1>5, OneMoves DEF OwnInv

\* The choice of a version keeps the invariant.
LEMMA PickDownKeeps ==
  ASSUME MigrateInv, NEW p \in Procs, PickDown(p) PROVE MigrateInv'
<1>0. Formed /\ OwnInv(p) /\ proc[p].pc = "apply" /\ proc[p].cmd = "down" /\ Fixed /\ UNCHANGED db
  BY DEF MigrateInv, PickDown, World
<1>1. /\ Formed' /\ Others(p) /\ Keeps(p, {"pc", "code", "picked"}) /\ proc'[p].pc \in {"done", "reverse"}
  BY <1>0, PickDownDoes
<1>2. /\ proc'[p].cmd = "down" /\ proc'[p].env = proc[p].env /\ proc'[p].via = proc[p].via
      /\ proc'[p].steady = proc[p].steady
  BY <1>0, <1>1 DEF Keeps, Fields
<1>3. PlacedAt(p)'
  BY <1>0, <1>1, <1>2 DEF PlacedAt, OwnInv, Fixed
<1>4. LoadedAt(p)' /\ CheckingAt(p)' /\ ProvedAt(p)' /\ AnsweredAt(p)'
  BY <1>1, <1>2 DEF LoadedAt, CheckingAt, ProvedAt, AnsweredAt, Asks
<1> QED
  BY <1>0, <1>1, <1>3, <1>4, OneMoves DEF OwnInv

\* A kill keeps the invariant.
LEMMA StopKeeps ==
  ASSUME MigrateInv, NEW p \in Procs, Stop(p) PROVE MigrateInv'
<1> DEFINE code == IF proc[p].pc = "serving" THEN 0 ELSE 137
<1>0. /\ Formed /\ OwnInv(p) /\ proc[p].pc \in {"serving", "migrate", "up", "apply", "reverse"} /\ Fixed /\ UNCHANGED db
      /\ Ends(p, code)
  BY DEF MigrateInv, Stop, World
<1>1. Formed' /\ Others(p) /\ Keeps(p, {"pc", "code"}) /\ proc'[p].pc = "done" /\ proc'[p].code = code
  BY <1>0, EndsCode
<1>2. /\ proc'[p].cmd = proc[p].cmd /\ proc'[p].env = proc[p].env /\ proc'[p].via = proc[p].via
      /\ proc'[p].steady = proc[p].steady
  BY <1>1 DEF Keeps, Fields
<1>3. PlacedAt(p)'
  BY <1>0, <1>1, <1>2 DEF PlacedAt, OwnInv, Fixed
<1>4. code = 0 => proc[p].cmd \in Starts
  BY <1>0 DEF PlacedAt, OwnInv
<1>5. LoadedAt(p)' /\ CheckingAt(p)' /\ ProvedAt(p)' /\ AnsweredAt(p)'
  BY <1>0, <1>1, <1>2, <1>4 DEF LoadedAt, CheckingAt, ProvedAt, AnsweredAt, Asks, Starts
<1> QED
  BY <1>0, <1>1, <1>3, <1>5, OneMoves DEF OwnInv

\* A change by p of the databases that takes no version away from any, with the others' doctors told of it.
LEMMA ChangeKeeps ==
  ASSUME MigrateInv, NEW p \in Procs, Changed(<<>>, p), Fixed, Grows,
         \A d \in Databases : DOMAIN db'[d] = {"up", "applied"}
  PROVE  MigrateInv'
<1>1. Formed /\ DOMAIN proc' = Procs /\ Unsteady
  BY ChangedDoes DEF MigrateInv
<1>2. Formed'
  BY <1>1 DEF Formed, Unsteady, Grows
<1>3. ASSUME NEW q \in Procs PROVE Spared(q)
  BY <1>1 DEF Unsteady, Spared, Fields
<1> QED
  BY <1>2, <1>3, SparedKeeps DEF MigrateInv

\* A database that stops loses no version.
LEMMA TurnKeeps ==
  ASSUME MigrateInv, Turn PROVE MigrateInv'
<1>1. PICK p \in Procs : Changed(<<>>, p)
  BY DEF Turn
<1>2. Fixed
  BY DEF Turn
<1>3. Grows /\ \A d \in Databases : DOMAIN db'[d] = {"up", "applied"}
  <2>1. CASE UNCHANGED db
    BY <2>1 DEF Grows, MigrateInv, Formed
  <2>2. CASE \E d \in Databases : db' = [db EXCEPT ![d].up = ~@]
    BY <2>2 DEF Grows, MigrateInv, Formed
  <2> QED
    BY <2>1, <2>2 DEF Turn
<1> QED
  BY <1>1, <1>2, <1>3, ChangeKeeps

Adds(dsn) == \E v : db' = [db EXCEPT ![dsn].applied = @ \cup {v}]

\* What a migrator does at one step: it fails, it ends with every file applied, or it applies one more.
LEMMA ApplyNextDoes ==
  ASSUME NEW p \in Procs, NEW files, NEW dsn, NEW then, ApplyNext(p, files, dsn, then)
  PROVE  \/ /\ Fails(p, "migrate") /\ UNCHANGED db /\ UNCHANGED calm /\ UNCHANGED touched
            /\ ~(Up(dsn) /\ files \subseteq db[dsn].applied)
         \/ /\ To(p, then) /\ UNCHANGED db /\ UNCHANGED calm /\ UNCHANGED touched
            /\ Up(dsn) /\ files \subseteq db[dsn].applied
         \/ /\ Up(dsn) /\ Changed(<<>>, p) /\ touched' = touched \cup {dsn}
            /\ Adds(dsn)
<1>1. \A v, w : Pending(v, w) = {} <=> v \subseteq w
  BY DEF Pending
<1>2. \/ ~Up(dsn) /\ Fails(p, "migrate") /\ UNCHANGED <<db, calm, touched>>
      \/ Up(dsn) /\ Pending(files, db[dsn].applied) = {} /\ To(p, then) /\ UNCHANGED <<db, calm, touched>>
      \/ Up(dsn) /\ Pending(files, db[dsn].applied) # {} /\ Fails(p, "migrate") /\ UNCHANGED <<db, calm, touched>>
      \/ /\ Up(dsn) /\ touched' = touched \cup {dsn} /\ Changed(<<>>, p)
         /\ db' = [db EXCEPT ![dsn].applied = @ \cup {Min(Pending(files, @))}]
  BY Zenon DEF ApplyNext
<1>3. UNCHANGED <<db, calm, touched>> => UNCHANGED db /\ UNCHANGED calm /\ UNCHANGED touched
  OBVIOUS
<1>4. ASSUME db' = [db EXCEPT ![dsn].applied = @ \cup {Min(Pending(files, @))}] PROVE Adds(dsn)
  BY <1>4 DEF Adds
<1> QED
  BY <1>1, <1>2, <1>3, <1>4, Zenon

\* A migrator keeps the invariant, given what its last step leaves.
LEMMA ApplyNextKeeps ==
  ASSUME MigrateInv, NEW p \in Procs, NEW files, Fixed, NEW then, ApplyNext(p, files, proc[p].dsn, then),
         proc[p].pc \in {"migrate", "up", "apply"},
         Up(proc[p].dsn) /\ files \subseteq db[proc[p].dsn].applied /\ UNCHANGED db /\ To(p, then) => OwnInv(p)',
         To(p, then) /\ UNCHANGED db => Formed' /\ Others(p)
  PROVE  MigrateInv'
<1>0. Formed /\ OwnInv(p)
  BY DEF MigrateInv
<1>1. CASE Fails(p, "migrate") /\ UNCHANGED db
  <2>1. Formed' /\ Others(p) /\ Keeps(p, {"pc", "code", "failed"}) /\ proc'[p].pc = "done" /\ proc'[p].code = 1
    BY <1>0, <1>1, FailsDoes
  <2>2. /\ proc'[p].cmd = proc[p].cmd /\ proc'[p].env = proc[p].env /\ proc'[p].steady = proc[p].steady
    BY <2>1 DEF Keeps, Fields
  <2>3. PlacedAt(p)'
    BY <1>0, <2>1, <2>2 DEF PlacedAt, OwnInv, Fixed
  <2>4. LoadedAt(p)' /\ CheckingAt(p)' /\ ProvedAt(p)' /\ AnsweredAt(p)'
    BY <2>1 DEF LoadedAt, CheckingAt, ProvedAt, AnsweredAt
  <2> QED
    BY <1>1, <2>1, <2>3, <2>4, OneMoves DEF OwnInv
<1>2. CASE To(p, then) /\ UNCHANGED db /\ Up(proc[p].dsn) /\ files \subseteq db[proc[p].dsn].applied
  BY <1>2, OneMoves
<1>3. CASE Up(proc[p].dsn) /\ Changed(<<>>, p) /\ Adds(proc[p].dsn)
  <2>1. PICK v : db' = [db EXCEPT ![proc[p].dsn].applied = @ \cup {v}]
    BY <1>3 DEF Adds
  <2>2. Grows /\ \A d \in Databases : DOMAIN db'[d] = {"up", "applied"}
    BY <1>0, <1>3, <2>1 DEF Formed, Grows, Up
  <2> QED
    BY <1>3, <2>2, ChangeKeeps
<1>4. \/ Fails(p, "migrate") /\ UNCHANGED db
      \/ To(p, then) /\ UNCHANGED db /\ Up(proc[p].dsn) /\ files \subseteq db[proc[p].dsn].applied
      \/ Up(proc[p].dsn) /\ Changed(<<>>, p) /\ Adds(proc[p].dsn)
  BY ApplyNextDoes, Zenon
<1> QED
  BY <1>1, <1>2, <1>3, <1>4

\* A migrator of `up` answers 0 when nothing is pending.
LEMMA LastFile ==
  ASSUME MigrateInv, Fixed, NEW p \in Procs, NEW files,
         \/ files = Sets /\ proc[p].pc = "up"
         \/ files = dir.up /\ proc[p].pc = "apply" /\ proc[p].cmd = "up",
         ApplyNext(p, files, proc[p].dsn, [pc |-> "done", code |-> 0])
  PROVE  MigrateInv'
<1> DEFINE ends == [pc |-> "done", code |-> 0]
<1>0. Formed /\ OwnInv(p)
  BY DEF MigrateInv
<1>1. ASSUME To(p, ends), UNCHANGED db
      PROVE  Formed' /\ Others(p) /\ Keeps(p, {"pc", "code"}) /\ proc'[p].pc = "done"
  BY <1>0, <1>1, EndsDoes
<1>2. ASSUME To(p, ends), UNCHANGED db,
             Up(proc[p].dsn), files \subseteq db[proc[p].dsn].applied
      PROVE  OwnInv(p)'
  <2>1. /\ proc'[p].pc = "done" /\ proc'[p].cmd = proc[p].cmd /\ proc'[p].env = proc[p].env
        /\ proc'[p].load = proc[p].load /\ proc'[p].dsn = proc[p].dsn /\ proc'[p].via = proc[p].via
        /\ proc'[p].steady = proc[p].steady
    BY <1>1, <1>2 DEF Keeps, Fields
  <2>2. Holding(files, proc[p].dsn)'
    BY <1>0, <1>2, <2>1 DEF Holding, Up, Fixed, Sets
  <2>3. PlacedAt(p)'
    BY <1>0, <2>1 DEF PlacedAt, OwnInv, Fixed
  <2>4. LoadedAt(p)' /\ CheckingAt(p)' /\ ProvedAt(p)'
    BY <2>1 DEF LoadedAt, CheckingAt, ProvedAt
  <2>5. \/ files = Sets /\ proc[p].via = "app"
        \/ files = dir.up /\ proc[p].via = "directory"
    BY <1>0 DEF PlacedAt, OwnInv
  <2>6. AnsweredAt(p)'
    BY <1>0, <2>1, <2>2, <2>5 DEF AnsweredAt, Fixed, Sets
  <2> QED
    BY <2>3, <2>4, <2>6 DEF OwnInv
<1> QED
  BY <1>0, <1>1, <1>2, ApplyNextKeeps

\* Every migrator keeps the invariant.
LEMMA MigrateKeeps ==
  ASSUME MigrateInv, NEW p \in Procs, Migrate(p) PROVE MigrateInv'
<1>0. Formed /\ OwnInv(p) /\ Fixed
  BY DEF MigrateInv, Migrate
<1>1. CASE proc[p].pc = "migrate" /\ ApplyNext(p, Sets, proc[p].dsn, [pc |-> "serving"])
  <2>1. ASSUME To(p, [pc |-> "serving"]), UNCHANGED db
        PROVE  Formed' /\ Others(p) /\ Keeps(p, {"pc"}) /\ proc'[p].pc = "serving"
    BY <1>0, <2>1, PcDoes
  <2>2. ASSUME To(p, [pc |-> "serving"]), UNCHANGED db,
               Up(proc[p].dsn), Sets \subseteq db[proc[p].dsn].applied
        PROVE  OwnInv(p)'
    <3>1. /\ proc'[p].pc = "serving" /\ proc'[p].cmd = proc[p].cmd /\ proc'[p].env = proc[p].env
          /\ proc'[p].load = proc[p].load /\ proc'[p].dsn = proc[p].dsn /\ proc'[p].via = proc[p].via
          /\ proc'[p].steady = proc[p].steady
      BY <2>1, <2>2 DEF Keeps, Fields
    <3>2. Holding(Sets, proc[p].dsn)'
      BY <1>0, <2>2, <3>1 DEF Holding, Up, Fixed, Sets
    <3>3. PlacedAt(p)' /\ LoadedAt(p)'
      BY <1>0, <1>1, <3>1 DEF PlacedAt, LoadedAt, OwnInv, Fixed, AddressOf
    <3>4. CheckingAt(p)' /\ ProvedAt(p)' /\ AnsweredAt(p)'
      BY <3>1, <3>2 DEF CheckingAt, ProvedAt, AnsweredAt
    <3> QED
      BY <3>3, <3>4 DEF OwnInv
  <2> QED
    BY <1>0, <1>1, <2>1, <2>2, ApplyNextKeeps
<1>2. CASE proc[p].pc = "up" /\ ApplyNext(p, Sets, proc[p].dsn, [pc |-> "done", code |-> 0])
  BY <1>0, <1>2, LastFile
<1>3. CASE /\ proc[p].pc = "apply" /\ proc[p].cmd = "up"
           /\ ApplyNext(p, dir.up, proc[p].dsn, [pc |-> "done", code |-> 0])
  BY <1>0, <1>3, LastFile
<1>4. \/ proc[p].pc = "migrate" /\ ApplyNext(p, Sets, proc[p].dsn, [pc |-> "serving"])
      \/ proc[p].pc = "up" /\ ApplyNext(p, Sets, proc[p].dsn, [pc |-> "done", code |-> 0])
      \/ /\ proc[p].pc = "apply" /\ proc[p].cmd = "up"
         /\ ApplyNext(p, dir.up, proc[p].dsn, [pc |-> "done", code |-> 0])
  BY Zenon DEF Migrate
<1> QED
  BY <1>1, <1>2, <1>3, <1>4

\* A `down` takes a version away, and every process is marked.
LEMMA RunDownKeeps ==
  ASSUME MigrateInv, NEW p \in Procs, RunDown(p) PROVE MigrateInv'
<1>0. Formed /\ OwnInv(p) /\ proc[p].pc = "reverse" /\ proc[p].cmd = "down" /\ Fixed
  BY DEF MigrateInv, RunDown, OwnInv, PlacedAt
<1>1. CASE Ends(p, 1) /\ UNCHANGED db
  <2>1. Formed' /\ Others(p) /\ Keeps(p, {"pc", "code"}) /\ proc'[p].pc = "done" /\ proc'[p].code = 1
    BY <1>0, <1>1, EndsCode
  <2>2. /\ proc'[p].cmd = proc[p].cmd /\ proc'[p].env = proc[p].env /\ proc'[p].steady = proc[p].steady
    BY <2>1 DEF Keeps, Fields
  <2>3. PlacedAt(p)'
    BY <1>0, <2>1, <2>2 DEF PlacedAt, OwnInv, Fixed
  <2>4. LoadedAt(p)' /\ CheckingAt(p)' /\ ProvedAt(p)' /\ AnsweredAt(p)'
    BY <2>1 DEF LoadedAt, CheckingAt, ProvedAt, AnsweredAt
  <2> QED
    BY <1>0, <1>1, <2>1, <2>3, <2>4, OneMoves DEF OwnInv
<1>2. CASE /\ Up(proc[p].dsn) /\ db' = [db EXCEPT ![proc[p].dsn].applied = @ \ {proc[p].picked}]
           /\ proc' = [q \in Procs |-> [(IF q = p THEN With([pc |-> "done", code |-> 0], proc[q]) ELSE proc[q])
                                           EXCEPT !.steady = FALSE, !.undone = TRUE]]
  <2> DEFINE r == [pc |-> "done", code |-> 0]
             mine == With(r, proc[p])
  <2>1. /\ DOMAIN mine = Fields /\ mine.pc = "done"
        /\ \A x \in Fields \ {"pc", "code"} : mine[x] = proc[p][x]
    BY <1>0 DEF With, Formed, Fields
  <2>2. /\ DOMAIN proc' = Procs /\ DOMAIN proc'[p] = Fields /\ proc'[p].undone /\ ~proc'[p].steady
        /\ \A x \in Fields \ {"steady", "undone"} : proc'[p][x] = mine[x]
    <3> HIDE DEF mine
    <3>1. proc'[p] = [mine EXCEPT !.steady = FALSE, !.undone = TRUE] /\ DOMAIN proc' = Procs
      BY <1>2 DEF mine
    <3> QED
      BY <2>1, <3>1 DEF Fields
  <2>3. ASSUME NEW q \in Procs \ {p}
        PROVE  /\ DOMAIN proc'[q] = Fields /\ proc'[q].undone /\ ~proc'[q].steady
               /\ \A x \in Fields \ {"steady", "undone"} : proc'[q][x] = proc[q][x]
    <3>1. proc'[q] = [proc[q] EXCEPT !.steady = FALSE, !.undone = TRUE]
      BY <1>2
    <3> QED
      BY <1>0, <3>1 DEF Fields, Formed
  <2>4. Formed'
    BY <1>0, <1>2, <2>2, <2>3 DEF Formed, Up
  <2>5. ASSUME NEW q \in Procs \ {p} PROVE OwnInv(q)'
    <3>1. Spared(q)
      BY <2>3 DEF Spared
    <3> QED
      BY <1>0, <3>1, SparedKeeps DEF MigrateInv
  <2>6. proc'[p].cmd = "down" /\ proc'[p].pc = "done" /\ proc'[p].undone /\ ~proc'[p].steady
    BY <1>0, <2>1, <2>2 DEF Fields
  <2>7. OwnInv(p)'
    BY <2>6 DEF OwnInv, PlacedAt, LoadedAt, CheckingAt, ProvedAt, AnsweredAt, Cmds, Starts
  <2> QED
    BY <2>4, <2>5, <2>7 DEF MigrateInv
<1> QED
  BY <1>1, <1>2, Zenon DEF RunDown

\* The invariant holds at first.
LEMMA InitMigrate == Init => MigrateInv
<1> SUFFICES ASSUME Init PROVE MigrateInv
  OBVIOUS
<1>1. DOMAIN Idle = Fields /\ Idle.cmd = "none" /\ Idle.pc = "idle" /\ Idle.via = "app" /\ Idle.steady = FALSE
  BY DEF Idle, Fields
<1>2. /\ \A p \in Procs : proc[p] = Idle
      /\ DOMAIN proc = Procs /\ DOMAIN db = Databases /\ \A d \in Databases : DOMAIN db[d] = {"up", "applied"}
  BY DEF Init
<1>3. Formed
  BY <1>1, <1>2 DEF Formed
<1>4. ASSUME NEW p \in Procs PROVE OwnInv(p)
  BY <1>1, <1>2 DEF OwnInv, PlacedAt, LoadedAt, CheckingAt, ProvedAt, AnsweredAt, Cmds, Starts
<1> QED
  BY <1>3, <1>4 DEF MigrateInv

\* The invariant holds over a stutter.
LEMMA StillMigrate == ASSUME MigrateInv, UNCHANGED vars PROVE MigrateInv'
<1>1. Fixed /\ Grows /\ Formed' /\ \A q \in Procs : Spared(q)
  BY DEF vars, Fixed, Grows, Spared, MigrateInv, Formed
<1> QED
  BY <1>1, SparedKeeps DEF MigrateInv

\* The invariant of the migrations.
LEMMA MigrateInvHolds == Spec => []MigrateInv
<1>1. MigrateInv /\ [Next]_vars => MigrateInv'
  <2> SUFFICES ASSUME MigrateInv, [Next]_vars PROVE MigrateInv'
    OBVIOUS
  <2>1. ASSUME NEW p \in Procs, NEW cmd \in Cmds, Begin(p, cmd) PROVE MigrateInv'
    BY <2>1, BeginKeeps
  <2>2. ASSUME NEW p \in Procs,
               \/ Load(p) \/ Open(p) \/ Wire(p) \/ RunCheck(p) \/ Judge(p) \/ Migrate(p) \/ Status(p)
               \/ Directory(p) \/ DirectoryStatus(p) \/ PickDown(p) \/ RunDown(p) \/ Stop(p)
        PROVE  MigrateInv'
    BY <2>2, LoadKeeps, OpenKeeps, WireKeeps, RunCheckKeeps, JudgeKeeps, MigrateKeeps, StatusKeeps,
       DirectoryKeeps, DirectoryStatusKeeps, PickDownKeeps, RunDownKeeps, StopKeeps, Zenon
  <2>3. CASE Turn
    BY <2>3, TurnKeeps
  <2>4. CASE UNCHANGED vars
    BY <2>4, StillMigrate
  <2> QED
    BY <2>1, <2>2, <2>3, <2>4, Zenon DEF Next, Cmds
<1> QED
  BY <1>1, InitMigrate, PTL DEF Spec

\* A process that serves holds every migration of its modules, until a `down` takes one away: for any number of
\* processes, databases, versions, environments and configurations (serve.go, cli/internal/cli/migrate.go).
THEOREM MigrationsServed == Spec => []ServesMigrated
<1>1. MigrateInv => ServesMigrated
  BY DEF MigrateInv, OwnInv, ProvedAt, PlacedAt, ServesMigrated, Holding, Sets
<1> QED
  BY <1>1, MigrateInvHolds, PTL

\* `avero migrate up` and the status of the modules answer 0 only for a database that holds every file of the side
\* that answered, until a `down` takes one away.
THEOREM UpAnswers == Spec => []UpAnswersTrue
<1>1. MigrateInv => UpAnswersTrue
  BY DEF MigrateInv, OwnInv, AnsweredAt, UpAnswersTrue, Holding, Sets
<1> QED
  BY <1>1, MigrateInvHolds, PTL

-----------------------------------------------------------------------------
\* What the doctor proved holds as long as the world stays.
LEMMA GoodStays ==
  ASSUME Fixed, World
  PROVE  /\ Good => Good'
         /\ \A c, load : Holds(c, load) => Holds(c, load)'
<1>1. \A load : AddressOf(load)' = AddressOf(load) /\ Up(AddressOf(load))' = Up(AddressOf(load))
              /\ Holding(Sets, AddressOf(load))' = Holding(Sets, AddressOf(load))
  BY DEF AddressOf, Up, Holding, Sets, Fixed, World
<1>2. Good => Good'
  BY <1>1 DEF Good, Fixed, World
<1>3. ASSUME NEW c, NEW load, Holds(c, load) PROVE Holds(c, load)'
  BY <1>1, <1>3, Zenon DEF Holds, World
<1> QED
  BY <1>2, <1>3

\* A step of p that changes no database leaves to show what the doctor's word covers of p itself.
LEMMA OneForeseen ==
  ASSUME Foresight, NEW p \in Procs, Others(p), Fixed, World, calm' => calm \/ Good, ForeseenAt(p)'
  PROVE  Foresight'
<1>1. ASSUME NEW q \in Procs \ {p} PROVE ForeseenAt(q)'
  <2>1. proc'[q] = proc[q]
    BY DEF Others
  <2>2. ChecksOf(q)' = ChecksOf(q)
    BY <2>1 DEF ChecksOf, Fixed, BootChecks, DoctorChecks, Sets
  <2>3. ProvenAt(q)' = ProvenAt(q)
    BY <2>1, <2>2 DEF ProvenAt
  <2>4. ForeseenAt(q)
    BY DEF Foresight
  <2> QED
    BY <2>1, <2>3, <2>4, GoodStays DEF ForeseenAt
<1> QED
  BY <1>1, GoodStays DEF Foresight

\* A step of p that adds no failure and begins no check.
LEMMA NothingFails ==
  ASSUME Foresight, NEW p \in Procs, Fixed, World,
         proc'[p].steady => proc[p].steady, proc'[p].cmd = proc[p].cmd,
         proc[p].steady /\ proc[p].cmd = "serve" => proc'[p].failed \subseteq proc[p].failed \cup {"handler"},
         proc[p].cmd = "doctor" => proc'[p].pc # "checks"
  PROVE  ForeseenAt(p)'
BY GoodStays DEF ForeseenAt, Foresight

\* After a change of the world the doctor speaks for nobody.
LEMMA NoneSteady ==
  ASSUME ~calm', \A q \in Procs : ~proc'[q].steady PROVE Foresight'
BY DEF Foresight, ForeseenAt

\* A start by hand begins under the word of a doctor only while the doctor is right.
LEMMA BeginForesees ==
  ASSUME MigrateInv, Foresight, NEW p \in Procs, NEW cmd \in Cmds, Begin(p, cmd) PROVE Foresight'
<1>1. /\ Others(p) /\ proc'[p].cmd = cmd /\ proc'[p].failed = {}
      /\ proc'[p].steady => cmd = "doctor" \/ (cmd = "serve" /\ calm)
      /\ proc'[p].pc # "checks"
  BY BeginDoes DEF MigrateInv
<1>2. Fixed /\ World /\ UNCHANGED calm
  BY DEF Begin
<1>3. ForeseenAt(p)'
  BY <1>1, <1>2, GoodStays DEF ForeseenAt, Foresight
<1> QED
  BY <1>1, <1>2, <1>3, OneForeseen

\* The load of a start that the doctor covers has no fault.
LEMMA LoadForesees ==
  ASSUME MigrateInv, Foresight, NEW p \in Procs, Load(p) PROVE Foresight'
<1> DEFINE load == LoadFrom(app.type, proc[p].env)
<1>0. Formed /\ OwnInv(p) /\ ForeseenAt(p) /\ proc[p].pc = "load" /\ Fixed /\ World /\ UNCHANGED calm
  BY DEF MigrateInv, Load, Foresight
<1>1. /\ Others(p) /\ Keeps(p, {"pc", "load", "dsn", "code", "failed", "said"})
      /\ \/ proc[p].cmd \in Starts /\ load.faults # <<>> /\ proc'[p].pc = "done"
         \/ proc'[p].failed = proc[p].failed /\ proc'[p].pc # "checks"
  <2>1. \/ proc[p].cmd \in Starts /\ load.faults # <<>> /\ proc'[p].pc = "done"
        \/ proc'[p].failed = proc[p].failed /\ proc'[p].pc \in {"open", "done", "wire"}
    BY <1>0, LoadDoes
  <2> QED
    BY <1>0, <2>1, LoadDoes
<1>2. proc'[p].cmd = proc[p].cmd /\ proc'[p].steady = proc[p].steady
  BY <1>1 DEF Keeps, Fields
<1>3. proc[p].steady /\ proc[p].cmd = "serve" => load.faults = <<>>
  BY <1>0 DEF ForeseenAt, Good, OwnInv, PlacedAt
<1>4. ForeseenAt(p)'
  BY <1>0, <1>1, <1>2, <1>3, NothingFails
<1> QED
  BY <1>0, <1>1, <1>4, OneForeseen

\* The database of a start that the doctor covers runs.
LEMMA OpenForesees ==
  ASSUME MigrateInv, Foresight, NEW p \in Procs, Open(p) PROVE Foresight'
<1>0. Formed /\ OwnInv(p) /\ ForeseenAt(p) /\ proc[p].pc = "open" /\ Fixed /\ World /\ UNCHANGED calm
  BY DEF MigrateInv, Open, Foresight
<1>1. /\ Others(p) /\ Keeps(p, {"pc", "code", "failed"})
      /\ \/ proc'[p].pc = (IF Asks(proc[p].cmd) THEN proc[p].cmd ELSE "wire") /\ Keeps(p, {"pc"})
         \/ ~Up(proc[p].dsn) /\ proc'[p].pc = "done"
  BY <1>0, OpenDoes
<1>2. /\ proc'[p].cmd = proc[p].cmd /\ proc'[p].steady = proc[p].steady
      /\ proc'[p].pc # "checks"
      /\ Up(proc[p].dsn) => proc'[p].failed = proc[p].failed
  BY <1>1 DEF Keeps, Fields, Asks
<1>3. proc[p].steady /\ proc[p].cmd = "serve" => Up(proc[p].dsn)
  BY <1>0 DEF ForeseenAt, Good, OwnInv, PlacedAt, LoadedAt
<1>4. ForeseenAt(p)'
  BY <1>0, <1>2, <1>3, NothingFails
<1> QED
  BY <1>0, <1>1, <1>4, OneForeseen

\* The wiring of a start that the doctor covers is whole.
LEMMA WireForesees ==
  ASSUME MigrateInv, Foresight, NEW p \in Procs, Wire(p) PROVE Foresight'
<1>0. Formed /\ OwnInv(p) /\ ForeseenAt(p) /\ proc[p].pc = "wire" /\ Fixed /\ World /\ UNCHANGED calm
  BY DEF MigrateInv, Wire, Foresight
<1>1. /\ Others(p) /\ Keeps(p, {"pc", "code", "failed", "said", "todo"})
      /\ app.wire = "ok" => proc'[p].failed \subseteq proc[p].failed \cup {"handler"}
      /\ \/ proc'[p].pc \in {"done", "open"}
         \/ /\ proc'[p].pc = "checks"
            /\ proc'[p].todo = IF proc[p].cmd \in Starts THEN BootChecks(proc[p].load) ELSE DoctorChecks(proc[p].dsn)
  BY <1>0, WireDoes
<1>2. /\ proc'[p].cmd = proc[p].cmd /\ proc'[p].steady = proc[p].steady /\ proc'[p].load = proc[p].load
      /\ proc'[p].dsn = proc[p].dsn
  BY <1>1 DEF Keeps, Fields
<1>3. CASE proc[p].cmd = "doctor"
  <2>1. proc'[p].pc = "checks" => Range(proc'[p].todo) = ChecksOf(p)'
    BY <1>0, <1>1, <1>2 DEF ChecksOf, Fixed, BootChecks, DoctorChecks, Sets
  <2>2. proc'[p].pc = "checks" => ProvenAt(p)' = {}
    BY <2>1 DEF ProvenAt
  <2>3. ForeseenAt(p)'
    BY <1>2, <1>3, <2>2 DEF ForeseenAt
  <2> QED
    BY <1>0, <1>1, <2>3, OneForeseen
<1>4. CASE proc[p].cmd # "doctor"
  <2>1. proc[p].steady /\ proc[p].cmd = "serve" => app.wire = "ok"
    BY <1>0 DEF ForeseenAt, Good
  <2>2. ForeseenAt(p)'
    BY <1>0, <1>1, <1>2, <1>4, <2>1, NothingFails
  <2> QED
    BY <1>0, <1>1, <2>2, OneForeseen
<1> QED
  BY <1>3, <1>4

\* What a check finds is what is: a check that reports no failure holds, and one that holds reports none.
LEMMA CheckSees ==
  ASSUME Formed, NEW p \in Procs, RunCheck(p), NEW c \in Checks, c = Head(proc[p].todo),
         proc[p].dsn = AddressOf(proc[p].load)
  PROVE  /\ c \notin proc'[p].failed => Holds(c, proc[p].load)
         /\ Holds(c, proc[p].load) /\ (c = "migrations" => Up(proc[p].dsn)) => proc'[p].failed = proc[p].failed
<1>1. PICK done \in Applied(proc[p].dsn) :
          LET holds == CASE c = "secret" -> SecretHolds(proc[p].load)
                         [] c = "database" -> Up(proc[p].dsn)
                         [] c = "migrations" -> Pending(Sets, done) = {}
                         [] c = "broker" -> broker
          IN proc'[p].failed = proc[p].failed \cup IF holds THEN {} ELSE {c}
  BY RunCheckDoes, Zenon
<1>2. CASE c = "secret"
  <2>1. proc'[p].failed = proc[p].failed \cup IF SecretHolds(proc[p].load) THEN {} ELSE {c}
    BY <1>1, <1>2
  <2>2. Holds(c, proc[p].load) <=> SecretHolds(proc[p].load)
    BY <1>2 DEF Holds
  <2> QED
    BY <2>1, <2>2, <1>2
<1>3. CASE c = "database"
  <2>1. proc'[p].failed = proc[p].failed \cup IF Up(proc[p].dsn) THEN {} ELSE {c}
    BY <1>1, <1>3
  <2>2. Holds(c, proc[p].load) <=> Up(proc[p].dsn)
    BY <1>3 DEF Holds
  <2> QED
    BY <2>1, <2>2, <1>3
<1>4. CASE c = "migrations"
  <2>1. proc'[p].failed = proc[p].failed \cup IF Pending(Sets, done) = {} THEN {} ELSE {c}
    BY <1>1, <1>4
  <2>2. Holds(c, proc[p].load) <=> Holding(Sets, proc[p].dsn)
    BY <1>4 DEF Holds
  <2>3. Holding(Sets, proc[p].dsn) /\ Up(proc[p].dsn) => Pending(Sets, done) = {}
    BY <1>1 DEF Holding, Applied, Pending
  <2> QED
    BY <2>1, <2>2, <2>3, <1>4, AppliedIs
<1>5. CASE c = "broker"
  <2>1. proc'[p].failed = proc[p].failed \cup IF broker THEN {} ELSE {c}
    BY <1>1, <1>5
  <2>2. Holds(c, proc[p].load) <=> broker
    BY <1>5 DEF Holds
  <2> QED
    BY <2>1, <2>2, <1>5
<1> QED
  BY <1>2, <1>3, <1>4, <1>5 DEF Checks

\* Each check of a covered start holds, and the doctor collects what it proved.
LEMMA RunCheckForesees ==
  ASSUME MigrateInv, Foresight, NEW p \in Procs, RunCheck(p) PROVE Foresight'
<1> DEFINE c == Head(proc[p].todo)
<1>0. /\ Formed /\ OwnInv(p) /\ ForeseenAt(p) /\ proc[p].pc = "checks" /\ proc[p].todo # <<>> /\ Fixed /\ World
      /\ UNCHANGED calm
  BY DEF MigrateInv, RunCheck, Foresight
<1>1. Others(p) /\ Keeps(p, {"todo", "failed"}) /\ proc'[p].todo = Tail(proc[p].todo)
  BY <1>0, RunCheckDoes
<1>2. /\ proc'[p].cmd = proc[p].cmd /\ proc'[p].pc = "checks" /\ proc'[p].load = proc[p].load
      /\ proc'[p].dsn = proc[p].dsn /\ proc'[p].steady = proc[p].steady
  BY <1>0, <1>1 DEF Keeps, Fields
<1>3. /\ proc[p].todo \in Seq(Checks) /\ Range(proc[p].todo) \subseteq ChecksOf(p)
      /\ proc[p].load = LoadFrom(app.type, proc[p].env) /\ proc[p].dsn = AddressOf(proc[p].load)
      /\ proc[p].cmd \in {"serve", "doctor"} => proc[p].env = shell
  BY <1>0 DEF OwnInv, CheckingAt, LoadedAt, PlacedAt
<1>4. /\ c \in Checks /\ c \in ChecksOf(p)
      /\ Range(proc[p].todo) = {c} \cup Range(proc'[p].todo)
  <2>1. Head(proc[p].todo) \in Range(proc[p].todo) /\ Range(proc[p].todo) = {c} \cup Range(proc'[p].todo)
    BY <1>0, <1>1, <1>3, RangeOfHead
  <2>2. Head(proc[p].todo) \in Checks
    BY <1>0, <1>3
  <2> QED
    BY <1>3, <2>1, <2>2
<1>5. /\ c \notin proc'[p].failed => Holds(c, proc[p].load)
      /\ Holds(c, proc[p].load) /\ (c = "migrations" => Up(proc[p].dsn)) => proc'[p].failed = proc[p].failed
  BY <1>0, <1>3, <1>4, CheckSees
<1>6. proc[p].steady /\ proc[p].cmd = "serve" => proc'[p].failed = proc[p].failed
  <2> SUFFICES ASSUME proc[p].steady, proc[p].cmd = "serve" PROVE proc'[p].failed = proc[p].failed
    OBVIOUS
  <2>1. Good
    BY <1>0 DEF ForeseenAt
  <2>2. c \in {"database", "migrations"} => app.dsn
    BY <1>4, BootChecksAre DEF ChecksOf, Starts
  <2>3. Holds(c, proc[p].load) /\ (c = "migrations" => Up(proc[p].dsn))
    <3>1. CASE c = "secret"
      BY <1>3, <2>1, <3>1 DEF Good, Holds
    <3>2. CASE c = "database"
      BY <1>3, <2>1, <2>2, <3>2 DEF Good, Holds
    <3>3. CASE c = "migrations"
      BY <1>3, <2>1, <2>2, <3>3 DEF Good, Holds
    <3>4. CASE c = "broker"
      BY <1>3, <2>1, <3>4 DEF Good, Holds
    <3> QED
      BY <1>4, <3>1, <3>2, <3>3, <3>4 DEF Checks
  <2> QED
    BY <1>5, <2>3
<1>7. ProvenAt(p)' \subseteq ProvenAt(p) \cup {c} /\ (c \in ProvenAt(p)' => c \notin proc'[p].failed)
  <2>1. ChecksOf(p)' = ChecksOf(p)
    BY <1>0, <1>2 DEF ChecksOf, Fixed, BootChecks, DoctorChecks, Sets
  <2>2. proc[p].failed \subseteq proc'[p].failed
    BY <1>0, RunCheckDoes
  <2> QED
    BY <1>4, <2>1, <2>2 DEF ProvenAt
<1>8. proc[p].steady /\ proc[p].cmd = "doctor" => \A x \in ProvenAt(p)' : Holds(x, proc[p].load)
  BY <1>0, <1>5, <1>7 DEF ForeseenAt
<1>9. ForeseenAt(p)'
  BY <1>0, <1>2, <1>6, <1>8, GoodStays DEF ForeseenAt
<1> QED
  BY <1>0, <1>1, <1>9, OneForeseen

\* A doctor that says OK has proved every reason it answers for.
LEMMA JudgeForesees ==
  ASSUME MigrateInv, Foresight, NEW p \in Procs, Judge(p) PROVE Foresight'
<1> DEFINE cleared == /\ proc[p].cmd = "doctor" /\ proc[p].failed = {} /\ proc[p].load.faults = <<>>
                      /\ ~app.dsn \/ proc[p].dsn # ""
                      /\ proc[p].steady
<1>0. Formed /\ OwnInv(p) /\ ForeseenAt(p) /\ proc[p].pc = "checks" /\ proc[p].todo = <<>> /\ Fixed /\ World
  BY DEF MigrateInv, Judge, Foresight
<1>1. /\ Others(p) /\ Keeps(p, {"pc", "code"})
      /\ proc[p].cmd = "doctor" => proc'[p].pc = "done"
      /\ calm' => calm \/ cleared
  BY <1>0, JudgeDoes, Zenon
<1>2. /\ proc'[p].cmd = proc[p].cmd /\ proc'[p].steady = proc[p].steady /\ proc'[p].failed = proc[p].failed
  BY <1>1 DEF Keeps, Fields
<1>3. cleared => Good
  <2> SUFFICES ASSUME cleared PROVE Good
    OBVIOUS
  <2>1. /\ proc[p].load = LoadFrom(app.type, shell) /\ proc[p].dsn = AddressOf(proc[p].load) /\ app.wire = "ok"
    BY <1>0 DEF OwnInv, LoadedAt, PlacedAt
  <2>2. ProvenAt(p) = Range(DoctorChecks(proc[p].dsn))
    <3>1. ChecksOf(p) = Range(DoctorChecks(proc[p].dsn))
      BY DEF ChecksOf, Starts
    <3>2. Range(proc[p].todo) = {} /\ proc[p].failed = {}
      BY <1>0, RangeOfOne
    <3> QED
      BY <3>1, <3>2 DEF ProvenAt
  <2>3. \A c \in Range(DoctorChecks(proc[p].dsn)) : Holds(c, proc[p].load)
    BY <1>0, <2>2 DEF ForeseenAt
  <2>4. /\ "secret" \in Range(DoctorChecks(proc[p].dsn)) /\ "broker" \in Range(DoctorChecks(proc[p].dsn))
        /\ app.dsn => "database" \in Range(DoctorChecks(proc[p].dsn))
        /\ app.dsn /\ Sets # {} => "migrations" \in Range(DoctorChecks(proc[p].dsn))
    <3>1. Range(DoctorChecks(proc[p].dsn)) = {"secret", "broker"} \cup (IF proc[p].dsn # "" THEN {"database"} ELSE {})
                \cup (IF proc[p].dsn # "" /\ Sets # {} THEN {"migrations"} ELSE {})
      BY DoctorChecksAre, Zenon
    <3>2. app.dsn => proc[p].dsn # ""
      OBVIOUS
    <3> QED
      BY <3>1, <3>2
  <2>5. SecretHolds(proc[p].load) /\ broker
    BY <2>3, <2>4 DEF Holds
  <2>6. app.dsn => Up(AddressOf(proc[p].load))
    BY <2>3, <2>4 DEF Holds
  <2>7. app.dsn => Holding(Sets, AddressOf(proc[p].load))
    <3>1. app.dsn /\ Sets # {} => Holding(Sets, AddressOf(proc[p].load))
      BY <2>3, <2>4 DEF Holds
    <3> QED
      BY <3>1 DEF Holding
  <2> QED
    BY <2>1, <2>5, <2>6, <2>7 DEF Good
<1>4. ForeseenAt(p)'
  BY <1>0, <1>1, <1>2, NothingFails
<1> QED
  BY <1>0, <1>1, <1>3, <1>4, OneForeseen

\* The migrator of a covered start has nothing left to apply.
LEMMA MigrateForesees ==
  ASSUME MigrateInv, Foresight, NEW p \in Procs, Migrate(p) PROVE Foresight'
<1>0. Formed /\ OwnInv(p) /\ ForeseenAt(p) /\ Fixed
  BY DEF MigrateInv, Migrate, Foresight
<1>1. ASSUME NEW files, NEW then, ApplyNext(p, files, proc[p].dsn, then), UNCHANGED <<broker, stops>>,
             DOMAIN then \subseteq {"pc", "code"}, then.pc # "checks",
             proc[p].cmd = "doctor" => ~proc[p].steady,
             proc[p].steady /\ proc[p].cmd = "serve" => Up(proc[p].dsn) /\ files \subseteq db[proc[p].dsn].applied
      PROVE  Foresight'
  <2>1. CASE Up(proc[p].dsn) /\ Changed(<<>>, p)
    <3>1. Unsteady /\ ~calm'
      BY <1>0, <2>1, ChangedDoes
    <3> QED
      BY <3>1, NoneSteady DEF Unsteady
  <2>2. CASE /\ Fails(p, "migrate") /\ UNCHANGED db /\ UNCHANGED calm
             /\ ~(Up(proc[p].dsn) /\ files \subseteq db[proc[p].dsn].applied)
    <3>1. Others(p) /\ Keeps(p, {"pc", "code", "failed"}) /\ proc'[p].pc = "done"
      BY <1>0, <2>2, FailsDoes
    <3>2. proc'[p].cmd = proc[p].cmd /\ proc'[p].steady = proc[p].steady
      BY <3>1 DEF Keeps, Fields
    <3>3. World
      BY <1>1, <2>2 DEF World
    <3>4. ForeseenAt(p)'
      BY <1>0, <1>1, <2>2, <3>1, <3>2, <3>3, NothingFails
    <3> QED
      BY <1>0, <2>2, <3>1, <3>3, <3>4, OneForeseen
  <2>3. CASE To(p, then) /\ UNCHANGED db /\ UNCHANGED calm
    <3>1. /\ Others(p)
          /\ \A x \in Fields : proc'[p][x] = IF x \in DOMAIN then THEN then[x] ELSE proc[p][x]
      <4>1. DOMAIN then \subseteq Fields
        BY <1>1 DEF Fields
      <4> QED
        BY <1>0, <2>3, <4>1, ToDoes
    <3>2. proc'[p].cmd = proc[p].cmd /\ proc'[p].steady = proc[p].steady /\ proc'[p].failed = proc[p].failed
      BY <1>1, <3>1 DEF Fields
    <3>3. World
      BY <1>1, <2>3 DEF World
    <3>4. ForeseenAt(p)'
      BY <1>0, <1>1, <3>2, <3>3, GoodStays DEF ForeseenAt
    <3> QED
      BY <1>0, <2>3, <3>1, <3>3, <3>4, OneForeseen
  <2>4. \/ /\ Fails(p, "migrate") /\ UNCHANGED db /\ UNCHANGED calm
           /\ ~(Up(proc[p].dsn) /\ files \subseteq db[proc[p].dsn].applied)
        \/ To(p, then) /\ UNCHANGED db /\ UNCHANGED calm
        \/ Up(proc[p].dsn) /\ Changed(<<>>, p)
    BY <1>1, ApplyNextDoes, Zenon
  <2> QED
    BY <2>1, <2>2, <2>3, <2>4
<1>2. CASE proc[p].pc = "migrate" /\ ApplyNext(p, Sets, proc[p].dsn, [pc |-> "serving"])
  <2>1. proc[p].cmd # "doctor"
    BY <1>0, <1>2 DEF OwnInv, PlacedAt, Starts
  <2>2. proc[p].steady /\ proc[p].cmd = "serve" => Up(proc[p].dsn) /\ Holding(Sets, proc[p].dsn)
    BY <1>0, <1>2 DEF ForeseenAt, Good, OwnInv, PlacedAt, LoadedAt
  <2>3. Holding(Sets, proc[p].dsn) => Sets \subseteq db[proc[p].dsn].applied
    BY DEF Holding
  <2>4. UNCHANGED <<broker, stops>>
    BY DEF Migrate
  <2> QED
    BY <1>1, <1>2, <2>1, <2>2, <2>3, <2>4
<1>3. ASSUME proc[p].pc \in {"up", "apply"}, NEW files, ApplyNext(p, files, proc[p].dsn, [pc |-> "done", code |-> 0])
      PROVE  Foresight'
  <2>1. ~proc[p].steady
    BY <1>0, <1>3 DEF OwnInv, PlacedAt
  <2>2. UNCHANGED <<broker, stops>>
    BY DEF Migrate
  <2> QED
    BY <1>1, <1>3, <2>1, <2>2
<1>4. \/ proc[p].pc = "migrate" /\ ApplyNext(p, Sets, proc[p].dsn, [pc |-> "serving"])
      \/ /\ proc[p].pc \in {"up", "apply"}
         /\ \E files : ApplyNext(p, files, proc[p].dsn, [pc |-> "done", code |-> 0])
  BY Zenon DEF Migrate
<1> QED
  BY <1>2, <1>3, <1>4

\* The commands that no doctor speaks for.
LEMMA OthersForesee ==
  ASSUME MigrateInv, Foresight, NEW p \in Procs,
         Status(p) \/ Directory(p) \/ DirectoryStatus(p) \/ PickDown(p) \/ Stop(p)
  PROVE  Foresight'
<1>0. Formed /\ OwnInv(p) /\ Fixed /\ World /\ UNCHANGED calm
  BY DEF MigrateInv, Status, Directory, DirectoryStatus, PickDown, Stop
<1>1. /\ Others(p) /\ Keeps(p, {"pc", "code", "said", "via", "dsn", "picked"})
      /\ proc'[p].pc \in {"done", "apply", "reverse"}
  <2>1. CASE Status(p)
    BY <1>0, <2>1, StatusDoes DEF Keeps
  <2>2. CASE Directory(p)
    BY <1>0, <2>2, DirectoryDoes DEF Keeps
  <2>3. CASE DirectoryStatus(p)
    BY <1>0, <2>3, EndsCode DEF Keeps, DirectoryStatus, World
  <2>4. CASE PickDown(p)
    BY <1>0, <2>4, PickDownDoes DEF Keeps
  <2>5. CASE Stop(p)
    BY <1>0, <2>5, EndsCode DEF Keeps, Stop, World
  <2> QED
    BY <2>1, <2>2, <2>3, <2>4, <2>5
<1>2. /\ proc'[p].cmd = proc[p].cmd /\ proc'[p].steady = proc[p].steady /\ proc'[p].failed = proc[p].failed
  BY <1>1 DEF Keeps, Fields
<1>3. ForeseenAt(p)'
  BY <1>0, <1>1, <1>2, GoodStays DEF ForeseenAt, Foresight
<1> QED
  BY <1>0, <1>1, <1>3, OneForeseen

\* A `down` ends the word of the doctor.
LEMMA RunDownForesees ==
  ASSUME MigrateInv, Foresight, NEW p \in Procs, RunDown(p) PROVE Foresight'
<1>0. Formed /\ Fixed /\ UNCHANGED <<broker, stops>>
  BY DEF MigrateInv, RunDown
<1>1. CASE Ends(p, 1) /\ UNCHANGED db /\ UNCHANGED calm
  <2>1. Others(p) /\ Keeps(p, {"pc", "code"}) /\ proc'[p].pc = "done"
    BY <1>0, <1>1, EndsCode
  <2>2. /\ proc'[p].cmd = proc[p].cmd /\ proc'[p].steady = proc[p].steady /\ proc'[p].failed = proc[p].failed
    BY <2>1 DEF Keeps, Fields
  <2>3. World
    BY <1>0, <1>1 DEF World
  <2>4. ForeseenAt(p)'
    BY <1>0, <2>1, <2>2, <2>3, GoodStays DEF ForeseenAt, Foresight
  <2> QED
    BY <1>0, <1>1, <2>1, <2>3, <2>4, OneForeseen
<1>2. CASE /\ ~calm'
           /\ proc' = [q \in Procs |-> [(IF q = p THEN With([pc |-> "done", code |-> 0], proc[q]) ELSE proc[q])
                                           EXCEPT !.steady = FALSE, !.undone = TRUE]]
  <2> DEFINE mine == With([pc |-> "done", code |-> 0], proc[p])
  <2>1. "steady" \in DOMAIN mine
    BY <1>0 DEF With, Formed, Fields
  <2>2. ~proc'[p].steady
    <3> HIDE DEF mine
    <3>1. proc'[p] = [mine EXCEPT !.steady = FALSE, !.undone = TRUE]
      BY <1>2 DEF mine
    <3> QED
      BY <2>1, <3>1
  <2>3. ASSUME NEW q \in Procs \ {p} PROVE ~proc'[q].steady
    <3>1. proc'[q] = [proc[q] EXCEPT !.steady = FALSE, !.undone = TRUE]
      BY <1>2
    <3> QED
      BY <1>0, <3>1 DEF Formed, Fields
  <2> QED
    BY <1>2, <2>2, <2>3, NoneSteady
<1>3. UNCHANGED <<db, calm, touched>> => UNCHANGED db /\ UNCHANGED calm
  OBVIOUS
<1>4. calm' = FALSE => ~calm'
  OBVIOUS
<1> QED
  BY <1>1, <1>2, <1>3, <1>4, Zenon DEF RunDown

\* So does a database or a broker that turns.
LEMMA TurnForesees == ASSUME MigrateInv, Turn PROVE Foresight'
<1>1. PICK p \in Procs : Changed(<<>>, p)
  BY DEF Turn
<1>2. Unsteady /\ ~calm'
  BY <1>1, ChangedDoes DEF MigrateInv
<1> QED
  BY <1>2, NoneSteady DEF Unsteady

\* The invariant of the word of the doctor.
LEMMA ForesightHolds == Spec => []Foresight
<1>1. Init => Foresight
  <2> SUFFICES ASSUME Init PROVE Foresight
    OBVIOUS
  <2>1. Idle.steady = FALSE
    BY DEF Idle
  <2>2. ~calm /\ \A p \in Procs : ~proc[p].steady
    BY <2>1 DEF Init
  <2> QED
    BY <2>2 DEF Foresight, ForeseenAt
<1>2. MigrateInv /\ Foresight /\ [Next]_vars => Foresight'
  <2> SUFFICES ASSUME MigrateInv, Foresight, [Next]_vars PROVE Foresight'
    OBVIOUS
  <2>1. ASSUME NEW p \in Procs, NEW cmd \in Cmds, Begin(p, cmd) PROVE Foresight'
    BY <2>1, BeginForesees
  <2>2. ASSUME NEW p \in Procs,
               \/ Load(p) \/ Open(p) \/ Wire(p) \/ RunCheck(p) \/ Judge(p) \/ Migrate(p) \/ Status(p)
               \/ Directory(p) \/ DirectoryStatus(p) \/ PickDown(p) \/ RunDown(p) \/ Stop(p)
        PROVE  Foresight'
    BY <2>2, LoadForesees, OpenForesees, WireForesees, RunCheckForesees, JudgeForesees, MigrateForesees,
       OthersForesee, RunDownForesees, Zenon
  <2>3. CASE Turn
    BY <2>3, TurnForesees
  <2>4. CASE UNCHANGED vars
    <3>1. Fixed /\ World /\ calm' = calm /\ proc' = proc
      BY <2>4 DEF vars, Fixed, World
    <3>2. ASSUME NEW q \in Procs PROVE ForeseenAt(q)'
      <4>1. ChecksOf(q)' = ChecksOf(q)
        BY <3>1 DEF ChecksOf, Fixed, BootChecks, DoctorChecks, Sets
      <4>2. ProvenAt(q)' = ProvenAt(q)
        BY <3>1, <4>1 DEF ProvenAt
      <4> QED
        BY <3>1, <4>2, GoodStays DEF ForeseenAt, Foresight
    <3> QED
      BY <3>1, <3>2, GoodStays DEF Foresight
  <2> QED
    BY <2>1, <2>2, <2>3, <2>4, Zenon DEF Next, Cmds
<1> QED
  BY <1>1, <1>2, MigrateInvHolds, PTL DEF Spec

\* A start by hand after an OK of the doctor fails for no reason that the doctor proves, as long as nothing changed
\* since the doctor began (serve.go, doctor.go).
THEOREM DoctorForesees == Spec => []DoctorForeseesTheStart
<1>1. Foresight => DoctorForeseesTheStart
  BY DEF Foresight, ForeseenAt, DoctorForeseesTheStart
<1> QED
  BY <1>1, ForesightHolds, PTL

-----------------------------------------------------------------------------
\* What the i-th leaf of a type adds to a load, and the fold of a load over the leaves.
Given(type, env, i) == LET l == Walk(type)[i] IN Leaf(l.f, Name(l), Path(l), env)
Loads(g, type, env, n) ==
    g = [s \in SUBSET (1 .. n) |-> IF s = {} THEN Nothing ELSE Joined(g[s \ {Max(s)}], Given(type, env, Max(s)))]

\* The load is the fold of what the leaves add.
LEMMA LoadIs ==
  ASSUME NEW type, NEW env, NEW n \in Nat, DOMAIN Walk(type) = 1 .. n
  PROVE  LoadFrom(type, env) = (CHOOSE g : Loads(g, type, env, n))[1 .. n]
BY DEF LoadFrom, FoldLeft, MapThenFoldSet, Loads, Given

\* A leaf adds one row, one fault and one value at most: the value of the environment, or else its default.
Gives(v, f, raw) == IF raw # <<>> THEN <<v>> = raw ELSE f.def # <<>> /\ v = f.def[1]
Modest(x, f, name, env) ==
    /\ x = [rows |-> x.rows, values |-> x.values, faults |-> x.faults]
    /\ \E r : x.rows \in {<<>>, <<r>>}
    /\ \E t : x.faults \in {<<>>, <<t>>}
    /\ \E v : /\ x.values \in {<<>>, <<<<name, v>>>>}
              /\ x.values # <<>> => Gives(v, f, Lookup(env, name))

\* A leaf keeps to that.
LEMMA LeafGives ==
  ASSUME NEW f, NEW name, NEW path, NEW env
  PROVE  Modest(Leaf(f, name, path, env), f, name, env)
<1> DEFINE raw == Lookup(env, name)
           x == Leaf(f, name, path, env)
<1>1. raw # <<>> => raw = <<raw[1]>>
  BY DEF Lookup
<1>2. ASSUME NEW r, NEW v, NEW t, NEW a, NEW b, NEW c, a = <<>> \/ a = <<r>>, c = <<>> \/ c = <<t>>,
             b = <<>> \/ (b = <<<<name, v>>>> /\ Gives(v, f, raw)),
             x = [rows |-> a, values |-> b, faults |-> c]
      PROVE  Modest(x, f, name, env)
  <2>1. x.rows = a /\ x.values = b /\ x.faults = c
    BY <1>2
  <2> HIDE DEF x
  <2> QED
    BY <1>2, <2>1 DEF Modest
<1>3. ASSUME NEW t, x = [rows |-> <<>>, values |-> <<>>, faults |-> <<t>>] PROVE Modest(x, f, name, env)
  <2> HIDE DEF x
  <2> QED
    BY <1>2, <1>3
<1>4. CASE ~Supported(f.kind) \/ f.unknown \/ (f.required /\ f.def # <<>>)
  <2>1. PICK t : x = [rows |-> <<>>, values |-> <<>>, faults |-> <<t>>]
    BY <1>4 DEF Leaf
  <2> QED
    BY <1>3, <2>1
<1>5. ASSUME NEW r, NEW t, x = [rows |-> <<r>>, values |-> <<>>, faults |-> <<t>>] PROVE Modest(x, f, name, env)
  <2> HIDE DEF x
  <2> QED
    BY <1>2, <1>5
<1>6. ASSUME NEW r, NEW v, Gives(v, f, raw), x = [rows |-> <<r>>, values |-> <<<<name, v>>>>, faults |-> <<>>]
      PROVE  Modest(x, f, name, env)
  <2> HIDE DEF x
  <2> QED
    BY <1>2, <1>6
<1>7. ASSUME NEW r, x = [rows |-> <<r>>, values |-> <<>>, faults |-> <<>>] PROVE Modest(x, f, name, env)
  <2> HIDE DEF x
  <2> QED
    BY <1>2, <1>7
<1>8. CASE ~(~Supported(f.kind) \/ f.unknown \/ (f.required /\ f.def # <<>>))
  <2>1. CASE raw = <<"">> /\ f.required
    <3>1. PICK r, t : x = [rows |-> <<r>>, values |-> <<>>, faults |-> <<t>>]
      BY <1>8, <2>1 DEF Leaf
    <3> QED
      BY <1>5, <3>1
  <2>2. CASE ~(raw = <<"">> /\ f.required) /\ raw # <<>>
    <3>1. PICK v : v = raw[1]
      OBVIOUS
    <3>2. Gives(v, f, raw)
      BY <1>1, <2>2, <3>1 DEF Gives
    <3>3. \/ \E r : x = [rows |-> <<r>>, values |-> <<<<name, v>>>>, faults |-> <<>>]
          \/ \E r, t : x = [rows |-> <<r>>, values |-> <<>>, faults |-> <<t>>]
      BY <1>8, <2>2, <3>1 DEF Leaf
    <3>4. CASE \E r : x = [rows |-> <<r>>, values |-> <<<<name, v>>>>, faults |-> <<>>]
      <4>1. PICK r : x = [rows |-> <<r>>, values |-> <<<<name, v>>>>, faults |-> <<>>]
        BY <3>4
      <4> QED
        BY <1>6, <3>2, <4>1
    <3>5. CASE \E r, t : x = [rows |-> <<r>>, values |-> <<>>, faults |-> <<t>>]
      BY <1>5, <3>5
    <3> QED
      BY <3>3, <3>4, <3>5
  <2>3. CASE raw = <<>> /\ f.def # <<>>
    <3>1. PICK v : v = f.def[1]
      OBVIOUS
    <3>2. Gives(v, f, raw)
      BY <2>3, <3>1 DEF Gives
    <3>3. \/ \E r : x = [rows |-> <<r>>, values |-> <<<<name, v>>>>, faults |-> <<>>]
          \/ \E r, t : x = [rows |-> <<r>>, values |-> <<>>, faults |-> <<t>>]
      BY <1>8, <2>3, <3>1 DEF Leaf
    <3>4. CASE \E r : x = [rows |-> <<r>>, values |-> <<<<name, v>>>>, faults |-> <<>>]
      <4>1. PICK r : x = [rows |-> <<r>>, values |-> <<<<name, v>>>>, faults |-> <<>>]
        BY <3>4
      <4> QED
        BY <1>6, <3>2, <4>1
    <3>5. CASE \E r, t : x = [rows |-> <<r>>, values |-> <<>>, faults |-> <<t>>]
      BY <1>5, <3>5
    <3> QED
      BY <3>3, <3>4, <3>5
  <2>4. CASE raw = <<>> /\ f.def = <<>>
    <3>1. \/ \E r : x = [rows |-> <<r>>, values |-> <<>>, faults |-> <<>>]
          \/ \E r, t : x = [rows |-> <<r>>, values |-> <<>>, faults |-> <<t>>]
      BY <1>8, <2>4 DEF Leaf
    <3>2. CASE \E r : x = [rows |-> <<r>>, values |-> <<>>, faults |-> <<>>]
      BY <1>7, <3>2
    <3>3. CASE \E r, t : x = [rows |-> <<r>>, values |-> <<>>, faults |-> <<t>>]
      BY <1>5, <3>3
    <3> QED
      BY <3>1, <3>2, <3>3
  <2> QED
    BY <2>1, <2>2, <2>3, <2>4
<1> QED
  BY <1>4, <1>8

Of(R, V, F) == [rows : Seq(R), values : Seq(V), faults : Seq(F)]

\* The pairs of a list of variables that name Url carry what env gives it, or else one of the defaults D.
Fits(v, env, D) == IF Lookup(env, Url) # <<>> THEN <<v>> = Lookup(env, Url) ELSE v \in D
Carries(values, env, D) == \A i \in DOMAIN values : values[i][1] = Url => Fits(values[i][2], env, D)
UrlDefaults(type) == {l.f.def[1] : l \in {l \in Range(Walk(type)) : Name(l) = Url /\ l.f.def # <<>>}}

\* Two lists that carry what the environment gives carry it together.
LEMMA CarriesBoth ==
  ASSUME NEW V, NEW a \in Seq(V), NEW b \in Seq(V), NEW env, NEW D, Carries(a, env, D), Carries(b, env, D)
  PROVE  Carries(a \o b, env, D)
<1>1. /\ DOMAIN a = 1 .. Len(a) /\ DOMAIN b = 1 .. Len(b) /\ Len(a) \in Nat /\ Len(b) \in Nat
      /\ DOMAIN (a \o b) = 1 .. Len(a) + Len(b)
      /\ \A i \in 1 .. Len(a) + Len(b) : (a \o b)[i] = IF i <= Len(a) THEN a[i] ELSE b[i - Len(a)]
  OBVIOUS
<1>2. ASSUME NEW i \in 1 .. Len(a) + Len(b), (a \o b)[i][1] = Url PROVE Fits((a \o b)[i][2], env, D)
  <2>1. CASE i <= Len(a)
    BY <1>1, <1>2, <2>1 DEF Carries
  <2>2. CASE i > Len(a)
    <3>1. i - Len(a) \in DOMAIN b /\ (a \o b)[i] = b[i - Len(a)]
      BY <1>1, <2>2
    <3> QED
      BY <1>2, <3>1 DEF Carries
  <2> QED
    BY <1>1, <2>1, <2>2
<1> QED
  BY <1>1, <1>2 DEF Carries

\* What a load of a configuration holds of DATABASE_URL.
LEMMA LoadCarries ==
  ASSUME NEW type, NEW env, IsSeq(Walk(type))
  PROVE  /\ LoadFrom(type, env).values \in Seq(Range(LoadFrom(type, env).values))
         /\ Carries(LoadFrom(type, env).values, env, UrlDefaults(type))
<1> DEFINE n == Len(Walk(type))
           D == UrlDefaults(type)
<1>1. n \in Nat /\ DOMAIN Walk(type) = 1 .. n /\ \A i \in 1 .. n : Walk(type)[i] \in Range(Walk(type))
  <2>1. Len(Walk(type)) \in Nat /\ DOMAIN Walk(type) = 1 .. Len(Walk(type))
    BY SeqOfRange
  <2>2. \A i \in DOMAIN Walk(type) : Walk(type)[i] \in Range(Walk(type))
    BY InRange
  <2> QED
    BY <2>1, <2>2
<1>2. ASSUME NEW i \in 1 .. n
      PROVE  LET x == Given(type, env, i)
                 name == Name(Walk(type)[i])
             IN /\ x = [rows |-> x.rows, values |-> x.values, faults |-> x.faults]
                /\ \E r : x.rows \in {<<>>, <<r>>}
                /\ \E t : x.faults \in {<<>>, <<t>>}
                /\ \E v : /\ x.values \in {<<>>, <<<<name, v>>>>}
                          /\ x.values # <<>> /\ name = Url => Fits(v, env, D)
  <2> DEFINE l == Walk(type)[i]
  <2>1. Name(l) = Url /\ l.f.def # <<>> => l.f.def[1] \in D
    BY <1>1 DEF UrlDefaults
  <2>2. Modest(Given(type, env, i), l.f, Name(l), env)
    BY LeafGives, Zenon DEF Given
  <2> HIDE DEF l
  <2>3. LET x == Given(type, env, i)
        IN /\ x = [rows |-> x.rows, values |-> x.values, faults |-> x.faults]
           /\ \E r : x.rows \in {<<>>, <<r>>}
           /\ \E t : x.faults \in {<<>>, <<t>>}
           /\ \E v : /\ x.values \in {<<>>, <<<<Name(l), v>>>>}
                     /\ x.values # <<>> /\ Name(l) = Url => Fits(v, env, D)
    <3> HIDE DEF D
    <3> QED
      BY <2>1, <2>2 DEF Modest, Gives, Fits
  <2> QED
    BY <2>3 DEF l
<1> HIDE DEF n, D
<1> DEFINE R == UNION {Range(Given(type, env, i).rows) : i \in 1 .. n}
           V == UNION {Range(Given(type, env, i).values) : i \in 1 .. n}
           F == UNION {Range(Given(type, env, i).faults) : i \in 1 .. n}
           T == Of(R, V, F)
           B == {b \in T : Carries(b.values, env, D)}
<1>3. ASSUME NEW i \in 1 .. n PROVE Given(type, env, i) \in B
  <2> DEFINE x == Given(type, env, i)
             name == Name(Walk(type)[i])
  <2>1. Range(x.rows) \subseteq R /\ Range(x.values) \subseteq V /\ Range(x.faults) \subseteq F
    OBVIOUS
  <2>2. /\ x = [rows |-> x.rows, values |-> x.values, faults |-> x.faults]
        /\ \E r : x.rows \in {<<>>, <<r>>}
        /\ \E t : x.faults \in {<<>>, <<t>>}
        /\ \E v : /\ x.values \in {<<>>, <<<<name, v>>>>}
                  /\ x.values # <<>> /\ name = Url => Fits(v, env, D)
    BY <1>2
  <2> HIDE DEF x, R, V, F, name
  <2>3. x.rows \in Seq(R)
    BY <2>1, <2>2, AtMostOne
  <2>4. x.faults \in Seq(F)
    BY <2>1, <2>2, AtMostOne
  <2>5. x.values \in Seq(V) /\ Carries(x.values, env, D)
    <3>1. PICK v : /\ x.values \in {<<>>, <<<<name, v>>>>}
                   /\ x.values # <<>> /\ name = Url => Fits(v, env, D)
      BY <2>2
    <3>2. x.values \in Seq(V)
      BY <2>1, <3>1, AtMostOne
    <3>3. Carries(x.values, env, D)
      <4>1. CASE x.values = <<>>
        BY <4>1 DEF Carries
      <4>2. CASE x.values = <<<<name, v>>>>
        <5>1. DOMAIN x.values = {1} /\ x.values[1][1] = name /\ x.values[1][2] = v /\ x.values # <<>>
          BY <4>2
        <5> QED
          BY <3>1, <5>1 DEF Carries
      <4> QED
        BY <3>1, <4>1, <4>2
    <3> QED
      BY <3>2, <3>3
  <2>6. x \in T
    BY <2>2, <2>3, <2>4, <2>5 DEF Of
  <2> QED
    BY <2>5, <2>6 DEF x
<1>4. Nothing \in B
  BY DEF Nothing, Carries, Of
<1>5. ASSUME NEW a \in B, NEW b \in B PROVE Joined(a, b) \in B
  <2> HIDE DEF R, V, F
  <2>1. a \in T /\ b \in T /\ Carries(a.values, env, D) /\ Carries(b.values, env, D)
    OBVIOUS
  <2>2. Joined(a, b) \in T /\ Joined(a, b).values = a.values \o b.values
    <3> HIDE DEF B, T
    <3>1. a \in Of(R, V, F) /\ b \in Of(R, V, F)
      BY <2>1 DEF T
    <3>2. Joined(a, b) \in Of(R, V, F) /\ Joined(a, b).values = a.values \o b.values
      BY <3>1 DEF Joined, Of
    <3> QED
      BY <3>2 DEF T
  <2>3. a.values \in Seq(V) /\ b.values \in Seq(V)
    BY <2>1 DEF Of
  <2>4. Carries(a.values \o b.values, env, D)
    BY <2>1, <2>3, CarriesBoth
  <2> QED
    BY <2>2, <2>4
<1> DEFINE it == CHOOSE g : Loads(g, type, env, n)
<1>6. LoadFrom(type, env) = it[1 .. n]
  BY <1>1, LoadIs
<1>7. \E g : Loads(g, type, env, n)
  <2> HIDE DEF B
  <2> DEFINE step == [ib \in (1 .. n) \X B |-> Joined(ib[2], Given(type, env, ib[1]))]
  <2>1. step \in [(1 .. n) \X B -> B]
    BY <1>3, <1>5
  <2>2. \A i \in 1 .. n, b \in B : step[<<i, b>>] = Joined(b, Given(type, env, i))
    OBVIOUS
  <2> HIDE DEF step
  <2>3. PICK g \in [SUBSET (1 .. n) -> B] : IsFold(g, n, Nothing, step)
    BY <1>1, <1>4, <2>1, FoldExists
  <2>4. ASSUME NEW s \in SUBSET (1 .. n), s # {}
        PROVE  step[<<Max(s), g[s \ {Max(s)}]>>] = Joined(g[s \ {Max(s)}], Given(type, env, Max(s)))
    <3>1. Max(s) \in 1 .. n
      BY <1>1, <2>4, Greatest
    <3>2. g[s \ {Max(s)}] \in B
      BY <2>3
    <3> QED
      BY <2>2, <3>1, <3>2
  <2>5. Loads(g, type, env, n)
    BY <2>3, <2>4 DEF Loads, IsFold
  <2> QED
    BY <2>5
<1>8. Loads(it, type, env, n)
  BY <1>7
<1>9. it[1 .. n] \in B
  <2> HIDE DEF B, it
  <2>1. it[{}] = Nothing
    BY <1>8 DEF Loads
  <2>2. ASSUME NEW s \in SUBSET (1 .. n), s # {}, it[s \ {Max(s)}] \in B PROVE it[s] \in B
    <3>1. it[s] = Joined(it[s \ {Max(s)}], Given(type, env, Max(s)))
      BY <1>8, <2>2 DEF Loads
    <3>2. Max(s) \in 1 .. n
      BY <1>1, <2>2, Greatest
    <3> QED
      BY <1>3, <1>5, <2>2, <3>1, <3>2
  <2> QED
    BY <1>1, <1>4, <2>1, <2>2, FoldIn
<1> HIDE DEF it, R, V, F
<1>10. LoadFrom(type, env).values \in Seq(V) /\ Carries(LoadFrom(type, env).values, env, D)
  BY <1>6, <1>9 DEF Of
<1> QED
  BY <1>10 DEF Range, D

\* The last binding of a name in an environment that gives it one.
LastAt(env, name, i) == i \in DOMAIN env /\ env[i][1] = name /\ \A j \in DOMAIN env : env[j][1] = name => j <= i

\* Lookup finds the last binding of a name, or there is none.
LEMMA LookupIs ==
  ASSUME NEW env, IsSeq(env), NEW name
  PROVE  \/ Lookup(env, name) = <<>> /\ \A j \in DOMAIN env : env[j][1] # name
         \/ \E i : LastAt(env, name, i) /\ Lookup(env, name) = <<env[i][2]>>
<1> DEFINE n == Len(env)
           at == {i \in DOMAIN env : env[i][1] = name}
           last == CHOOSE i \in at : \A j \in at : j <= i
<1>1. n \in Nat /\ DOMAIN env = 1 .. n
  BY SeqOfRange
<1>2. Lookup(env, name) = IF at = {} THEN <<>> ELSE <<env[last][2]>>
  BY DEF Lookup
<1>3. CASE at = {}
  BY <1>2, <1>3
<1>4. CASE at # {}
  <2>1. at \in SUBSET (1 .. n)
    BY <1>1
  <2> HIDE DEF at, n
  <2>2. \E i \in at : \A j \in at : j <= i
    BY <1>1, <1>4, <2>1, Greatest
  <2>3. last \in at /\ \A j \in at : j <= last
    BY <2>2
  <2> HIDE DEF last
  <2>4. LastAt(env, name, last)
    BY <2>3 DEF LastAt, at
  <2> QED
    BY <1>2, <1>4, <2>4
<1> QED
  BY <1>3, <1>4

\* Lookup finds the last binding, which is one.
LEMMA LookupLast ==
  ASSUME NEW env, IsSeq(env), NEW name, NEW i, LastAt(env, name, i)
  PROVE  Lookup(env, name) = <<env[i][2]>>
<1>1. DOMAIN env \subseteq Nat
  BY SeqOfRange
<1>2. \E j : LastAt(env, name, j) /\ Lookup(env, name) = <<env[j][2]>>
  BY LookupIs DEF LastAt
<1>3. PICK j : LastAt(env, name, j) /\ Lookup(env, name) = <<env[j][2]>>
  BY <1>2
<1>4. i = j
  <2>1. i <= j /\ j <= i /\ i \in Nat /\ j \in Nat
    BY <1>1, <1>3 DEF LastAt
  <2> QED
    BY <2>1
<1> QED
  BY <1>3, <1>4

\* What the second of two environments gives is what both together give.
LEMMA LookupOfBoth ==
  ASSUME NEW V, NEW a \in Seq(V), NEW b \in Seq(V), NEW name, Lookup(b, name) # <<>>
  PROVE  Lookup(a \o b, name) = Lookup(b, name)
<1> DEFINE m == Len(a)
           n == Len(b)
           ab == a \o b
<1>1. m \in Nat /\ n \in Nat /\ DOMAIN b = 1 .. n /\ ab \in Seq(V) /\ DOMAIN ab = 1 .. m + n
  OBVIOUS
<1>2. \A i \in 1 .. m + n : ab[i] = IF i <= m THEN a[i] ELSE b[i - m]
  OBVIOUS
<1> HIDE DEF m, n, ab
<1>3. IsSeq(b) /\ IsSeq(ab)
  BY <1>1 DEF IsSeq, Range
<1>4. PICK i : LastAt(b, name, i) /\ Lookup(b, name) = <<b[i][2]>>
  BY <1>3, LookupIs
<1>5. i \in 1 .. n /\ b[i][1] = name /\ \A j \in 1 .. n : b[j][1] = name => j <= i
  BY <1>1, <1>4 DEF LastAt
<1>6. i + m \in 1 .. m + n /\ ab[i + m] = b[i]
  BY <1>1, <1>2, <1>5
<1>7. ASSUME NEW j \in 1 .. m + n, ab[j][1] = name PROVE j <= i + m
  <2>1. CASE j <= m
    BY <1>1, <1>5, <2>1
  <2>2. CASE j > m
    <3>1. j - m \in 1 .. n /\ ab[j] = b[j - m]
      BY <1>1, <1>2, <2>2
    <3>2. j - m <= i
      BY <1>5, <1>7, <3>1
    <3> QED
      BY <1>1, <1>5, <3>2
  <2> QED
    BY <1>1, <2>1, <2>2
<1>8. LastAt(ab, name, i + m)
  BY <1>1, <1>5, <1>6, <1>7 DEF LastAt
<1>9. Lookup(ab, name) = <<ab[i + m][2]>>
  BY <1>3, <1>8, LookupLast
<1> QED
  BY <1>4, <1>6, <1>9 DEF ab

\* The address that a load fills is the one of its environment, or else a default.
LEMMA UrlOf ==
  ASSUME NEW type, NEW env, IsSeq(Walk(type)), ValueOf(LoadFrom(type, env), Url) # ""
  PROVE  Fits(ValueOf(LoadFrom(type, env), Url), env, UrlDefaults(type))
<1> DEFINE values == LoadFrom(type, env).values
           D == UrlDefaults(type)
<1>1. IsSeq(values) /\ Carries(values, env, D)
  BY LoadCarries DEF IsSeq
<1>2. ValueOf(LoadFrom(type, env), Url) = IF Lookup(values, Url) = <<>> THEN "" ELSE Lookup(values, Url)[1]
  BY DEF ValueOf
<1> HIDE DEF values, D
<1>3. PICK i : LastAt(values, Url, i) /\ Lookup(values, Url) = <<values[i][2]>>
  BY <1>1, <1>2, LookupIs
<1>4. Fits(values[i][2], env, D)
  BY <1>1, <1>3 DEF LastAt, Carries
<1>5. Lookup(values, Url) # <<>> /\ ValueOf(LoadFrom(type, env), Url) = Lookup(values, Url)[1]
  BY <1>2
<1>6. ValueOf(LoadFrom(type, env), Url) = values[i][2]
  <2>1. PICK y : y = values[i][2]
    OBVIOUS
  <2>2. Lookup(values, Url) = <<y>> /\ <<y>>[1] = y
    BY <1>3, <2>1
  <2> QED
    BY <1>5, <2>1, <2>2
<1> QED
  BY <1>4, <1>6 DEF D

\* The pairs that a .env can give, and the fold of its lines.
EnvLine(s, l) ==
    CASE s.open # <<>> /\ l.marks = 0 -> s
      [] s.open # <<>> /\ l.marks > 0 -> [open |-> <<>>, out |-> Append(s.out, <<s.open[1], "several lines">>)]
      [] s.open = <<>> /\ l.name = <<>> -> s
      [] s.open = <<>> /\ l.name # <<>> /\ l.marks = 1 -> [s EXCEPT !.open = <<l.name>>]
      [] OTHER -> [s EXCEPT !.out = Append(s.out, <<l.name, l.text>>)]
Parsed(g, lines, n) ==
    g = [s \in SUBSET (1 .. n) |-> IF s = {} THEN [open |-> <<>>, out |-> <<>>]
                                   ELSE EnvLine(g[s \ {Max(s)}], lines[Max(s)])]

\* A .env is the fold of its lines.
LEMMA ParseIs ==
  ASSUME NEW lines, NEW n \in Nat, DOMAIN lines = 1 .. n
  PROVE  ParseEnv(lines) = (CHOOSE g : Parsed(g, lines, n))[1 .. n]
BY DEF ParseEnv, FoldLeft, MapThenFoldSet, Parsed, EnvLine

\* A line of a .env keeps the variables a list.
LEMMA EnvLineIn ==
  ASSUME NEW O, NEW P, NEW l, NEW s \in [open : O, out : Seq(P)], <<>> \in O, <<l.name>> \in O,
         <<l.name, l.text>> \in P, s.open # <<>> => <<s.open[1], "several lines">> \in P
  PROVE  EnvLine(s, l) \in [open : O, out : Seq(P)]
<1>1. s.open \in O /\ s.out \in Seq(P)
  OBVIOUS
<1>2. \A p \in P : Append(s.out, p) \in Seq(P)
  BY <1>1, AppendIn, Zenon
<1>3. [s EXCEPT !.open = <<l.name>>] \in [open : O, out : Seq(P)]
  OBVIOUS
<1>4. [s EXCEPT !.out = Append(s.out, <<l.name, l.text>>)] \in [open : O, out : Seq(P)]
  BY <1>2
<1>5. s.open # <<>> => [open |-> <<>>, out |-> Append(s.out, <<s.open[1], "several lines">>)] \in [open : O, out : Seq(P)]
  BY <1>2
<1> DEFINE named == [s EXCEPT !.open = <<l.name>>]
           given == [s EXCEPT !.out = Append(s.out, <<l.name, l.text>>)]
           ended == [open |-> <<>>, out |-> Append(s.out, <<s.open[1], "several lines">>)]
<1>6. EnvLine(s, l) = CASE s.open # <<>> /\ l.marks = 0 -> s
                        [] s.open # <<>> /\ l.marks > 0 -> ended
                        [] s.open = <<>> /\ l.name = <<>> -> s
                        [] s.open = <<>> /\ l.name # <<>> /\ l.marks = 1 -> named
                        [] OTHER -> given
  BY Zenon DEF EnvLine
<1> HIDE DEF named, given, ended
<1>7. EnvLine(s, l) \in {s, named, given} \/ (s.open # <<>> /\ EnvLine(s, l) = ended)
  BY <1>6
<1> QED
  BY <1>3, <1>4, <1>5, <1>7 DEF named, given, ended

\* The variables of a .env are a list.
LEMMA ParsedIsList ==
  ASSUME NEW lines, IsSeq(lines)
  PROVE  \E V : ParseEnv(lines).out \in Seq(V)
<1> DEFINE n == Len(lines)
           N == {lines[i].name : i \in 1 .. n}
           X == {lines[i].text : i \in 1 .. n} \cup {"several lines"}
           B == [open : {<<>>} \cup {<<x>> : x \in N}, out : Seq(N \X X)]
           base == [open |-> <<>>, out |-> <<>>]
<1>1. n \in Nat /\ DOMAIN lines = 1 .. n
  BY SeqOfRange
<1>2. ASSUME NEW s \in B, NEW i \in 1 .. n PROVE EnvLine(s, lines[i]) \in B
  <2> DEFINE l == lines[i]
  <2>1. l.name \in N /\ l.text \in X /\ "several lines" \in X
    OBVIOUS
  <2> DEFINE O == {<<>>} \cup {<<x>> : x \in N}
             P == N \X X
  <2>2. <<>> \in O /\ <<l.name>> \in O /\ <<l.name, l.text>> \in P
    BY <2>1
  <2>3. s \in [open : O, out : Seq(P)]
    BY <1>2
  <2>4. s.open # <<>> => <<s.open[1], "several lines">> \in P
    <3>1. s.open \in O
      BY <2>3
    <3>2. ASSUME s.open # <<>> PROVE \E x \in N : s.open = <<x>>
      BY <3>1, <3>2
    <3>3. ASSUME NEW x \in N PROVE <<x>>[1] = x /\ <<x, "several lines">> \in P
      BY <2>1
    <3> HIDE DEF N, X, O, P, B
    <3> QED
      BY <3>2, <3>3
  <2> HIDE DEF O, P, l
  <2>5. EnvLine(s, l) \in [open : O, out : Seq(P)]
    BY <2>2, <2>3, <2>4, EnvLineIn
  <2> QED
    BY <2>5 DEF O, P, l
<1>3. base \in B
  OBVIOUS
<1> DEFINE it == CHOOSE g : Parsed(g, lines, n)
<1> HIDE DEF B, n
<1>4. ParseEnv(lines) = it[1 .. n]
  BY <1>1, ParseIs
<1>5. \E g : Parsed(g, lines, n)
  <2> DEFINE step == [ib \in (1 .. n) \X B |-> EnvLine(ib[2], lines[ib[1]])]
  <2>1. step \in [(1 .. n) \X B -> B]
    BY <1>2
  <2>2. \A i \in 1 .. n, b \in B : step[<<i, b>>] = EnvLine(b, lines[i])
    OBVIOUS
  <2> HIDE DEF step, base
  <2>3. PICK g \in [SUBSET (1 .. n) -> B] : IsFold(g, n, base, step)
    BY <1>1, <1>3, <2>1, FoldExists
  <2>4. ASSUME NEW s \in SUBSET (1 .. n), s # {}
        PROVE  step[<<Max(s), g[s \ {Max(s)}]>>] = EnvLine(g[s \ {Max(s)}], lines[Max(s)])
    <3>1. Max(s) \in 1 .. n
      BY <1>1, <2>4, Greatest
    <3>2. g[s \ {Max(s)}] \in B
      BY <2>3
    <3> QED
      BY <2>2, <3>1, <3>2
  <2>5. Parsed(g, lines, n)
    BY <2>3, <2>4 DEF Parsed, IsFold, base
  <2> QED
    BY <2>5
<1>6. Parsed(it, lines, n)
  BY <1>5
<1> HIDE DEF it
<1>7. it[1 .. n] \in B
  <2>1. it[{}] \in B
    BY <1>3, <1>6 DEF Parsed
  <2>2. ASSUME NEW s \in SUBSET (1 .. n), s # {}, it[s \ {Max(s)}] \in B PROVE it[s] \in B
    <3>1. it[s] = EnvLine(it[s \ {Max(s)}], lines[Max(s)])
      BY <1>6, <2>2 DEF Parsed
    <3>2. Max(s) \in 1 .. n
      BY <1>1, <2>2, Greatest
    <3> QED
      BY <1>2, <2>2, <3>1, <3>2
  <2> QED
    BY <1>1, <2>1, <2>2, FoldIn
<1>8. ParseEnv(lines).out \in Seq(N \X X)
  <2> HIDE DEF N, X
  <2> QED
    BY <1>4, <1>7 DEF B
<1> QED
  BY <1>8

\* A shell that gives the address gives it over .env.
LEMMA ShellWins ==
  ASSUME NEW lines, IsSeq(lines), NEW sh, IsSeq(sh), NEW name, Lookup(sh, name) # <<>>
  PROVE  Lookup(Environment(lines, sh), name) = Lookup(sh, name)
<1>1. PICK V : ParseEnv(lines).out \in Seq(V)
  BY ParsedIsList
<1> DEFINE W == V \cup Range(sh)
<1>2. ParseEnv(lines).out \in Seq(W) /\ sh \in Seq(W)
  BY <1>1 DEF IsSeq
<1> HIDE DEF W
<1>3. Lookup(ParseEnv(lines).out \o sh, name) = Lookup(sh, name)
  BY <1>2, LookupOfBoth
<1> QED
  BY <1>3 DEF Environment

\* No step changes the address that the surroundings give.
LEMMA AddressFixed == Fixed => TheAddress' = TheAddress /\ DefaultsAgree' = DefaultsAgree /\ (Surrounded => Surrounded')
BY DEF Fixed, TheAddress, Told, Defaults, DefaultsAgree, Surrounded

\* A step after which one process has another environment or address, and that may touch the database it names.
LEMMA OneAddressed ==
  ASSUME Addressed, Fixed, NEW p \in Procs, ReadAt(p)', DefaultsAgree => AddressedAt(p)',
         \A q \in Procs \ {p} : proc'[q].cmd = proc[q].cmd /\ proc'[q].env = proc[q].env /\ proc'[q].dsn = proc[q].dsn,
         \A a \in touched' : a \in touched \/ (a \in Databases /\ a = proc[p].dsn)
  PROVE  Addressed'
<1>1. Surrounded'
  BY AddressFixed DEF Addressed
<1>2. ASSUME NEW q \in Procs PROVE ReadAt(q)'
  <2>1. CASE q # p
    BY <2>1 DEF Addressed, ReadAt, Fixed
  <2> QED
    BY <2>1
<1>3. ASSUME DefaultsAgree, NEW q \in Procs PROVE AddressedAt(q)'
  <2>1. CASE q # p
    BY <1>3, <2>1, AddressFixed DEF Addressed, AddressedAt
  <2> QED
    BY <1>3, <2>1
<1>4. ASSUME DefaultsAgree, NEW a \in touched' PROVE a # "" /\ <<a>> = TheAddress'
  <2>1. CASE a \in touched
    BY <1>4, <2>1, AddressFixed DEF Addressed
  <2>2. CASE a \in Databases /\ a = proc[p].dsn
    BY <1>4, <2>2, DatabasesAssumption, AddressFixed DEF Addressed, AddressedAt
  <2> QED
    BY <2>1, <2>2
<1> QED
  <2>1. DefaultsAgree' => DefaultsAgree
    BY AddressFixed
  <2> QED
    BY <1>1, <1>2, <1>3, <1>4, <2>1, Zenon DEF Addressed

\* A step after which every process has the environment and the address it had.
LEMMA NoneMoved ==
  ASSUME Addressed, Fixed, NEW p \in Procs, \A q \in Procs : proc'[q].cmd = proc[q].cmd /\ proc'[q].env = proc[q].env /\ proc'[q].dsn = proc[q].dsn,
         \A a \in touched' : a \in touched \/ (a \in Databases /\ a = proc[p].dsn)
  PROVE  Addressed'
<1>1. ReadAt(p)'
  BY DEF Addressed, ReadAt, Fixed
<1>2. DefaultsAgree => AddressedAt(p)'
  BY AddressFixed DEF Addressed, AddressedAt
<1> QED
  BY <1>1, <1>2, OneAddressed

\* A step that leaves the environment and the address of its process leaves those of all.
LEMMA Unmoved ==
  ASSUME NEW p \in Procs, NEW X, Others(p), Keeps(p, X), "cmd" \notin X, "env" \notin X, "dsn" \notin X
  PROVE  \A q \in Procs : proc'[q].cmd = proc[q].cmd /\ proc'[q].env = proc[q].env /\ proc'[q].dsn = proc[q].dsn
BY DEF Others, Keeps, Fields

\* A command begins with no address.
LEMMA BeginAddresses ==
  ASSUME MigrateInv, Addressed, NEW p \in Procs, NEW cmd \in Cmds, Begin(p, cmd) PROVE Addressed'
<1>1. Fixed /\ touched' = touched
  BY DEF Begin
<1>2. Others(p) /\ proc'[p].dsn = "" /\ proc'[p].env \in {shell, Environment(envfile, shell)}
  BY BeginDoes DEF MigrateInv
<1>3. ReadAt(p)' /\ AddressedAt(p)'
  BY <1>1, <1>2 DEF ReadAt, AddressedAt, Fixed
<1> QED
  BY <1>1, <1>2, <1>3, OneAddressed DEF Others

\* What the shell names is what the two environments name.
LEMMA ToldByShell ==
  ASSUME Surrounded, Lookup(shell, Url) # <<>>
  PROVE  Told = Lookup(shell, Url)
<1>1. IsSeq(shell) /\ IsSeq(envfile)
  BY SurroundingsAssumption DEF Surrounded, IsSeq
<1>2. Lookup(Environment(envfile, shell), Url) = Lookup(shell, Url)
  BY <1>1, ShellWins
<1> QED
  BY <1>2 DEF Told

\* The address that an environment of the surroundings gives a configuration whose defaults agree.
LEMMA LoadedAddress ==
  ASSUME Surrounded, DefaultsAgree, NEW env \in {shell, Environment(envfile, shell)},
         AddressOf(LoadFrom(app.type, env)) # ""
  PROVE  <<AddressOf(LoadFrom(app.type, env))>> = TheAddress
<1>1. IsSeq(shell) /\ IsSeq(envfile) /\ IsSeq(Walk(app.type))
  BY SurroundingsAssumption DEF Surrounded, IsSeq
<1>2. AddressOf(LoadFrom(app.type, env)) = ValueOf(LoadFrom(app.type, env), Url)
  BY DEF AddressOf
<1>3. PICK a : a = AddressOf(LoadFrom(app.type, env))
  OBVIOUS
<1>4. Fits(a, env, Defaults)
  BY <1>1, <1>2, <1>3, UrlOf DEF Defaults, UrlDefaults
<1>5. Lookup(shell, Url) # <<>> => Told = Lookup(shell, Url)
  BY ToldByShell
<1>6. CASE Lookup(env, Url) # <<>>
  <2>1. <<a>> = Lookup(env, Url)
    BY <1>4, <1>6 DEF Fits
  <2>2. Told = Lookup(env, Url)
    BY <1>5, <1>6 DEF Told
  <2> QED
    BY <1>3, <1>6, <2>1, <2>2 DEF TheAddress
<1>7. CASE Lookup(env, Url) = <<>>
  <2>1. a \in Defaults
    BY <1>4, <1>7 DEF Fits
  <2>2. Lookup(shell, Url) = <<>>
    BY <1>5, <1>7 DEF Told
  <2>3. \A d \in Defaults \cup Range(Told) : d = a
    BY <2>1, <2>2 DEF DefaultsAgree
  <2>4. CASE Told = <<>>
    <3>1. (CHOOSE d \in Defaults : TRUE) \in Defaults
      BY <2>1
    <3>2. (CHOOSE d \in Defaults : TRUE) = a
      BY <2>3, <3>1
    <3> QED
      BY <1>3, <2>4, <3>2 DEF TheAddress
  <2>5. CASE Told # <<>>
    <3>1. PICK t : Told = <<t>>
      BY <2>5 DEF Told, Lookup
    <3>2. t \in {t}
      OBVIOUS
    <3>3. Range(<<t>>) = {t}
      BY <3>2, RangeOfOne
    <3>4. t = a
      BY <2>3, <3>1, <3>3
    <3> QED
      BY <1>3, <2>5, <3>1, <3>4 DEF TheAddress
  <2> QED
    BY <2>4, <2>5
<1> QED
  BY <1>6, <1>7

\* Load finds the one address, or none.
LEMMA LoadAddresses ==
  ASSUME MigrateInv, Addressed, NEW p \in Procs, Load(p) PROVE Addressed'
<1>1. Fixed /\ touched' = touched
  BY DEF Load
<1>2. /\ Others(p) /\ Keeps(p, {"pc", "load", "dsn", "code", "failed", "said"})
      /\ proc'[p].dsn = AddressOf(LoadFrom(app.type, proc[p].env))
  BY LoadDoes DEF MigrateInv
<1>3. proc'[p].env = proc[p].env /\ proc'[p].cmd = proc[p].cmd
  BY <1>2 DEF Keeps, Fields
<1>4. ReadAt(p)'
  BY <1>1, <1>3 DEF ReadAt, Fixed, Addressed
<1>5. proc[p].cmd # "none"
  BY DEF Load, MigrateInv, OwnInv, PlacedAt
<1>6. DefaultsAgree => AddressedAt(p)'
  BY <1>1, <1>2, <1>5, AddressFixed, LoadedAddress DEF AddressedAt, Addressed, ReadAt
<1> QED
  BY <1>1, <1>2, <1>4, <1>6, OneAddressed DEF Others

\* The directory finds the one address, or none.
LEMMA DirectoryAddresses ==
  ASSUME MigrateInv, Addressed, NEW p \in Procs, Directory(p) PROVE Addressed'
<1>1. Fixed /\ touched' = touched
  BY DEF Directory
<1>2. /\ Others(p) /\ Keeps(p, {"via", "pc", "code", "dsn"})
      /\ \/ proc'[p].dsn = proc[p].dsn
         \/ proc'[p].dsn # "" /\ Lookup(shell, Url) # <<>> /\ proc'[p].dsn = Lookup(shell, Url)[1]
  BY DirectoryDoes DEF MigrateInv
<1>3. ReadAt(p)'
  BY <1>1, <1>2 DEF ReadAt, Fixed, Addressed, Keeps, Fields
<1>4. DefaultsAgree => AddressedAt(p)'
  <2>1. CASE proc'[p].dsn = proc[p].dsn
    BY <1>1, <2>1, AddressFixed DEF AddressedAt, Addressed
  <2>2. CASE proc'[p].dsn # "" /\ Lookup(shell, Url) # <<>> /\ proc'[p].dsn = Lookup(shell, Url)[1]
    <3>1. IsSeq(shell) /\ IsSeq(envfile)
      BY SurroundingsAssumption DEF Surrounded, IsSeq, Addressed
    <3>2. TheAddress = Lookup(shell, Url)
      BY <2>2, <3>1, ShellWins DEF TheAddress, Told
    <3>3. Lookup(shell, Url) = <<Lookup(shell, Url)[1]>>
      <4>1. PICK v : Lookup(shell, Url) = <<v>>
        BY <2>2, <3>1, LookupIs
      <4>2. <<v>>[1] = v
        OBVIOUS
      <4> QED
        BY <4>1, <4>2
    <3> QED
      BY <1>1, <2>2, <3>2, <3>3, AddressFixed DEF AddressedAt
  <2> QED
    BY <1>2, <2>1, <2>2
<1> QED
  BY <1>1, <1>2, <1>3, <1>4, OneAddressed DEF Others

\* A check of the database proves the database of its process.
LEMMA RunCheckAddresses ==
  ASSUME MigrateInv, Addressed, NEW p \in Procs, RunCheck(p) PROVE Addressed'
<1>1. Fixed
  BY DEF RunCheck
<1>2. /\ Others(p) /\ Keeps(p, {"todo", "failed"})
      /\ touched' = touched \/ (touched' = touched \cup {proc[p].dsn} /\ Up(proc[p].dsn))
  <2>1. PICK done \in Applied(proc[p].dsn) :
          LET c == Head(proc[p].todo)
              holds == CASE c = "secret" -> SecretHolds(proc[p].load)
                         [] c = "database" -> Up(proc[p].dsn)
                         [] c = "migrations" -> Pending(Sets, done) = {}
                         [] c = "broker" -> broker
          IN touched' = touched \cup IF c = "database" /\ holds THEN {proc[p].dsn} ELSE {}
    BY RunCheckDoes, Zenon DEF MigrateInv
  <2>2. Others(p) /\ Keeps(p, {"todo", "failed"})
    BY RunCheckDoes DEF MigrateInv
  <2> QED
    BY <2>1, <2>2
<1> QED
  BY <1>1, <1>2, NoneMoved, Unmoved DEF Up

\* A migrator changes the database of its process.
LEMMA MigrateAddresses ==
  ASSUME MigrateInv, Addressed, NEW p \in Procs, Migrate(p) PROVE Addressed'
<1>0. Formed /\ Fixed
  BY DEF MigrateInv, Migrate
<1>1. ASSUME NEW files, NEW next, NEW then, then = [pc |-> next] \/ then = [pc |-> next, code |-> 0],
             ApplyNext(p, files, proc[p].dsn, then)
      PROVE  Addressed'
  <2>1. \/ /\ Fails(p, "migrate") /\ UNCHANGED db /\ touched' = touched
        \/ /\ To(p, then) /\ UNCHANGED db /\ touched' = touched
        \/ /\ Up(proc[p].dsn) /\ Changed(<<>>, p) /\ touched' = touched \cup {proc[p].dsn}
    BY <1>1, ApplyNextDoes, Zenon
  <2>2. CASE Fails(p, "migrate") /\ UNCHANGED db /\ touched' = touched
    <3>1. Others(p) /\ Keeps(p, {"pc", "code", "failed"})
      BY <1>0, <2>2, FailsDoes
    <3> QED
      BY <1>0, <2>2, <3>1, NoneMoved, Unmoved
  <2>3. CASE To(p, then) /\ UNCHANGED db /\ touched' = touched
    <3>1. Others(p) /\ Keeps(p, {"pc", "code"})
      <4>1. CASE then = [pc |-> next]
        <5>1. Others(p) /\ Keeps(p, {"pc"})
          BY <1>0, <2>3, <4>1, PcDoes
        <5> QED
          BY <5>1 DEF Keeps
      <4>2. CASE then = [pc |-> next, code |-> 0]
        BY <1>0, <2>3, <4>2, EndsDoes
      <4> QED
        BY <1>1, <4>1, <4>2
    <3> QED
      BY <1>0, <2>3, <3>1, NoneMoved, Unmoved
  <2>4. CASE Up(proc[p].dsn) /\ Changed(<<>>, p) /\ touched' = touched \cup {proc[p].dsn}
    <3>1. \A q \in Procs : proc'[q].cmd = proc[q].cmd /\ proc'[q].env = proc[q].env /\ proc'[q].dsn = proc[q].dsn
      BY <1>0, <2>4, ChangedDoes DEF Unsteady, Fields
    <3> QED
      BY <1>0, <2>4, <3>1, NoneMoved DEF Up
  <2> QED
    BY <2>1, <2>2, <2>3, <2>4
<1>2. \/ ApplyNext(p, Sets, proc[p].dsn, [pc |-> "serving"])
      \/ ApplyNext(p, Sets, proc[p].dsn, [pc |-> "done", code |-> 0])
      \/ ApplyNext(p, dir.up, proc[p].dsn, [pc |-> "done", code |-> 0])
  BY Zenon DEF Migrate
<1> QED
  BY <1>1, <1>2, Zenon

\* So does a `down`.
LEMMA RunDownAddresses ==
  ASSUME MigrateInv, Addressed, NEW p \in Procs, RunDown(p) PROVE Addressed'
<1>0. Formed /\ Fixed
  BY DEF MigrateInv, RunDown
<1>1. CASE Ends(p, 1) /\ UNCHANGED db /\ touched' = touched
  <2>1. Others(p) /\ Keeps(p, {"pc", "code"})
    BY <1>0, <1>1, EndsCode
  <2> QED
    BY <1>0, <1>1, <2>1, NoneMoved, Unmoved
<1>2. CASE /\ Up(proc[p].dsn) /\ touched' = touched \cup {proc[p].dsn}
           /\ proc' = [q \in Procs |-> [(IF q = p THEN With([pc |-> "done", code |-> 0], proc[q]) ELSE proc[q])
                                           EXCEPT !.steady = FALSE, !.undone = TRUE]]
  <2> DEFINE r == [pc |-> "done", code |-> 0]
             mine == With(r, proc[p])
  <2>1. DOMAIN mine = Fields /\ mine.cmd = proc[p].cmd /\ mine.env = proc[p].env /\ mine.dsn = proc[p].dsn
    BY <1>0 DEF With, Formed, Fields
  <2>2. proc'[p].cmd = proc[p].cmd /\ proc'[p].env = proc[p].env /\ proc'[p].dsn = proc[p].dsn
    <3> HIDE DEF mine
    <3>1. proc'[p] = [mine EXCEPT !.steady = FALSE, !.undone = TRUE]
      BY <1>2 DEF mine
    <3> QED
      BY <2>1, <3>1 DEF Fields
  <2>3. ASSUME NEW q \in Procs \ {p} PROVE proc'[q].cmd = proc[q].cmd /\ proc'[q].env = proc[q].env /\ proc'[q].dsn = proc[q].dsn
    <3>1. proc'[q] = [proc[q] EXCEPT !.steady = FALSE, !.undone = TRUE]
      BY <1>2
    <3> QED
      BY <1>0, <3>1 DEF Fields, Formed
  <2> QED
    BY <1>0, <1>2, <2>2, <2>3, NoneMoved DEF Up
<1>3. \/ Ends(p, 1) /\ UNCHANGED <<db, calm, touched>>
      \/ /\ Up(proc[p].dsn) /\ touched' = touched \cup {proc[p].dsn}
         /\ proc' = [q \in Procs |-> [(IF q = p THEN With([pc |-> "done", code |-> 0], proc[q]) ELSE proc[q])
                                         EXCEPT !.steady = FALSE, !.undone = TRUE]]
  BY Zenon DEF RunDown
<1>4. UNCHANGED <<db, calm, touched>> => UNCHANGED db /\ touched' = touched
  OBVIOUS
<1> QED
  BY <1>1, <1>2, <1>3, <1>4, Zenon

\* The steps that neither set an address nor touch a database.
LEMMA OthersAddress ==
  ASSUME MigrateInv, Addressed, NEW p \in Procs,
         Open(p) \/ Wire(p) \/ Judge(p) \/ Status(p) \/ DirectoryStatus(p) \/ PickDown(p) \/ Stop(p)
  PROVE  Addressed'
<1>0. Formed /\ Fixed /\ touched' = touched /\ UNCHANGED db
  BY DEF MigrateInv, Open, Wire, Judge, Status, DirectoryStatus, PickDown, Stop, World
<1>1. ASSUME Others(p), NEW X, Keeps(p, X), "cmd" \notin X, "env" \notin X, "dsn" \notin X PROVE Addressed'
  BY <1>0, <1>1, NoneMoved, Unmoved
<1>2. CASE Open(p)
  BY <1>0, <1>1, <1>2, OpenDoes
<1>3. CASE Wire(p)
  BY <1>0, <1>1, <1>3, WireDoes
<1>4. CASE Judge(p)
  BY <1>0, <1>1, <1>4, JudgeDoes
<1>5. CASE Status(p)
  BY <1>0, <1>1, <1>5, StatusDoes
<1>6. CASE DirectoryStatus(p)
  BY <1>0, <1>1, <1>6, EndsCode DEF DirectoryStatus
<1>7. CASE PickDown(p)
  BY <1>0, <1>1, <1>7, PickDownDoes
<1>8. CASE Stop(p)
  <2>1. \E code : Ends(p, code)
    BY <1>8, Zenon DEF Stop
  <2> QED
    BY <1>0, <1>1, <2>1, EndsCode
<1> QED
  BY <1>2, <1>3, <1>4, <1>5, <1>6, <1>7, <1>8, Zenon

\* A turn of the world touches no database on behalf of a command.
LEMMA TurnAddresses == ASSUME MigrateInv, Addressed, Turn PROVE Addressed'
<1>1. PICK p \in Procs : Changed(<<>>, p)
  BY DEF Turn
<1>2. Fixed /\ touched' = touched
  BY DEF Turn
<1>3. \A q \in Procs : proc'[q].cmd = proc[q].cmd /\ proc'[q].env = proc[q].env /\ proc'[q].dsn = proc[q].dsn
  BY <1>1, ChangedDoes DEF Unsteady, Fields, MigrateInv
<1> QED
  BY <1>2, <1>3, NoneMoved

\* The invariant of the one address.
LEMMA AddressedHolds == Spec => []Addressed
<1>1. Init => Addressed
  <2> SUFFICES ASSUME Init PROVE Addressed
    OBVIOUS
  <2>1. \A p \in Procs : proc[p].cmd = "none" /\ proc[p].dsn = ""
    BY DEF Init, Idle
  <2>2. Surrounded /\ touched = {}
    BY DEF Init, Surrounded
  <2> QED
    BY <2>1, <2>2 DEF Addressed, ReadAt, AddressedAt
<1>2. MigrateInv /\ Addressed /\ [Next]_vars => Addressed'
  <2> SUFFICES ASSUME MigrateInv, Addressed, [Next]_vars PROVE Addressed'
    OBVIOUS
  <2>1. ASSUME NEW p \in Procs, NEW cmd \in Cmds, Begin(p, cmd) PROVE Addressed'
    BY <2>1, BeginAddresses
  <2>2. ASSUME NEW p \in Procs,
               \/ Load(p) \/ Open(p) \/ Wire(p) \/ RunCheck(p) \/ Judge(p) \/ Migrate(p) \/ Status(p)
               \/ Directory(p) \/ DirectoryStatus(p) \/ PickDown(p) \/ RunDown(p) \/ Stop(p)
        PROVE  Addressed'
    BY <2>2, LoadAddresses, RunCheckAddresses, MigrateAddresses, DirectoryAddresses, RunDownAddresses,
       OthersAddress, Zenon
  <2>3. CASE Turn
    BY <2>3, TurnAddresses
  <2>4. CASE UNCHANGED vars
    <3>1. Fixed /\ touched' = touched /\ proc' = proc
      BY <2>4 DEF vars, Fixed
    <3>2. CASE Procs = {}
      <4>1. TheAddress' = TheAddress /\ DefaultsAgree' = DefaultsAgree /\ Surrounded'
        BY <3>1, AddressFixed DEF Addressed
      <4> QED
        BY <3>1, <3>2, <4>1 DEF Addressed
    <3>3. CASE Procs # {}
      BY <3>1, <3>3, NoneMoved
    <3> QED
      BY <3>2, <3>3
  <2> QED
    BY <2>1, <2>2, <2>3, <2>4, Zenon DEF Next, Cmds
<1> QED
  BY <1>1, <1>2, MigrateInvHolds, PTL DEF Spec

\* The commands of one developer change and prove one database at most, whatever .env, the shell, the type of the
\* configuration and the order of the commands, if the shell names it, or .env and the defaults of DATABASE_URL do not
\* name two (config/config.go, cli/internal/cli/env.go).
THEOREM OneAddress == Spec => []OneDatabase
<1>1. Addressed => OneDatabase
  <2> SUFFICES ASSUME Addressed, DefaultsAgree PROVE Cardinality(touched) <= 1
    BY DEF OneDatabase
  <2>1. CASE touched = {}
    BY <2>1, FS_EmptySet
  <2>2. CASE touched # {}
    <3>1. PICK a \in touched : TRUE
      BY <2>2
    <3>2. ASSUME NEW b \in touched PROVE b = a
      <4>1. <<a>> = <<b>>
        BY <3>1, <3>2 DEF Addressed
      <4> QED
        BY <4>1
    <3>3. touched = {a}
      BY <3>1, <3>2
    <3> QED
      BY <3>3, FS_Singleton
  <2> QED
    BY <2>1, <2>2
<1> QED
  BY <1>1, AddressedHolds, PTL

-----------------------------------------------------------------------------
\* What a leaf may report: a row of its name, and a fault of its name and of the example of its kind. The field that
\* is secret shows neither its value nor its default.
Veiled(text) == text \in {"", Redacted}
Reporting(x, f, name) ==
    /\ x = [rows |-> x.rows, values |-> x.values, faults |-> x.faults]
    /\ \E r : x.rows \in {<<>>, <<r>>} /\ (x.rows # <<>> => r.name = name /\ (f.secret => Veiled(r.value)))
    /\ \E v : x.values \in {<<>>, <<v>>}
    /\ \E t : x.faults \in {<<>>, <<t>>} /\ (x.faults # <<>> => t.name = name /\ t.kind = f.kind
                                                                 /\ (f.secret => Veiled(t.shown)))

\* A report that is made of its parts.
LEMMA ReportingParts ==
  ASSUME NEW f, NEW name, NEW a, NEW b, NEW c, NEW r, NEW v, NEW t,
         a = <<>> \/ (a = <<r>> /\ r.name = name /\ (f.secret => Veiled(r.value))),
         b = <<>> \/ b = <<v>>,
         c = <<>> \/ (c = <<t>> /\ t.name = name /\ t.kind = f.kind /\ (f.secret => Veiled(t.shown)))
  PROVE  Reporting([rows |-> a, values |-> b, faults |-> c], f, name)
<1> DEFINE x == [rows |-> a, values |-> b, faults |-> c]
<1>1. x.rows = a /\ x.values = b /\ x.faults = c /\ x = [rows |-> x.rows, values |-> x.values, faults |-> x.faults]
  OBVIOUS
<1> HIDE DEF x
<1> QED
  BY <1>1 DEF Reporting, x

\* A leaf keeps to that.
LEMMA LeafReports ==
  ASSUME NEW f, NEW name, NEW path, NEW env
  PROVE  Reporting(Leaf(f, name, path, env), f, name)
<1> DEFINE raw == Lookup(env, name)
           fault(why, shown, tag) == [name |-> name, why |-> why, shown |-> shown, tag |-> tag, kind |-> f.kind]
           row(source, value) == [path |-> path, name |-> name, source |-> source, value |-> value]
           x == Leaf(f, name, path, env)
<1>1. \A value : f.secret => Veiled(Show(value, f.secret))
  BY DEF Show, Veiled
<1>2. Veiled("")
  BY DEF Veiled
<1>3. ASSUME NEW why, NEW tag
      PROVE  LET t == fault(why, "", tag)
             IN t.name = name /\ t.kind = f.kind /\ Veiled(t.shown)
  BY <1>2
<1>4. ASSUME NEW value, NEW why, NEW tag
      PROVE  LET t == fault(why, Show(value, f.secret), tag)
             IN t.name = name /\ t.kind = f.kind /\ (f.secret => Veiled(t.shown))
  BY <1>1
<1>5. ASSUME NEW value, NEW source
      PROVE  LET r == row(source, Show(value, f.secret))
             IN r.name = name /\ (f.secret => Veiled(r.value))
  BY <1>1
<1>6. LET r == row("absent", "") IN r.name = name /\ Veiled(r.value)
  BY <1>2
<1>7. ASSUME NEW why, x = [rows |-> <<>>, values |-> <<>>, faults |-> <<fault(why, "", TRUE)>>] PROVE Reporting(x, f, name)
  <2>1. PICK t : t = fault(why, "", TRUE)
    OBVIOUS
  <2>2. t.name = name /\ t.kind = f.kind /\ Veiled(t.shown)
    BY <1>3, <2>1
  <2>3. x = [rows |-> <<>>, values |-> <<>>, faults |-> <<t>>]
    BY <1>7, <2>1
  <2> HIDE DEF x, fault
  <2> QED
    BY <2>2, <2>3, ReportingParts
<1>8. ASSUME NEW why, x = [rows |-> <<row("absent", "")>>, values |-> <<>>, faults |-> <<fault(why, "", FALSE)>>]
      PROVE  Reporting(x, f, name)
  <2>1. PICK t, r : t = fault(why, "", FALSE) /\ r = row("absent", "")
    OBVIOUS
  <2>2. t.name = name /\ t.kind = f.kind /\ Veiled(t.shown) /\ r.name = name /\ Veiled(r.value)
    BY <1>3, <1>6, <2>1
  <2>3. x = [rows |-> <<r>>, values |-> <<>>, faults |-> <<t>>]
    BY <1>8, <2>1
  <2> HIDE DEF x, fault, row
  <2> QED
    BY <2>2, <2>3, ReportingParts
<1>9. ASSUME NEW source, NEW value, NEW tag,
             x = [rows |-> <<row(source, Show(value, f.secret))>>,
                  values |-> IF Parses(f.kind, value) THEN <<<<name, value>>>> ELSE <<>>,
                  faults |-> IF Parses(f.kind, value) THEN <<>> ELSE <<fault("shape", Show(value, f.secret), tag)>>]
      PROVE  Reporting(x, f, name)
  <2>1. PICK t, r : t = fault("shape", Show(value, f.secret), tag) /\ r = row(source, Show(value, f.secret))
    OBVIOUS
  <2>2. /\ t.name = name /\ t.kind = f.kind /\ (f.secret => Veiled(t.shown))
        /\ r.name = name /\ (f.secret => Veiled(r.value))
    BY <1>4, <1>5, <2>1
  <2>3. \/ x = [rows |-> <<r>>, values |-> <<<<name, value>>>>, faults |-> <<>>]
        \/ x = [rows |-> <<r>>, values |-> <<>>, faults |-> <<t>>]
    BY <1>9, <2>1
  <2>4. PICK v : v = <<name, value>>
    OBVIOUS
  <2> HIDE DEF x, fault, row
  <2>5. CASE x = [rows |-> <<r>>, values |-> <<<<name, value>>>>, faults |-> <<>>]
    BY <2>2, <2>4, <2>5, ReportingParts
  <2>6. CASE x = [rows |-> <<r>>, values |-> <<>>, faults |-> <<t>>]
    BY <2>2, <2>6, ReportingParts
  <2> QED
    BY <2>3, <2>5, <2>6
<1>10. ASSUME x = [rows |-> <<row("absent", "")>>, values |-> <<>>, faults |-> <<>>] PROVE Reporting(x, f, name)
  <2>1. PICK r : r = row("absent", "")
    OBVIOUS
  <2>2. r.name = name /\ Veiled(r.value)
    BY <1>6, <2>1
  <2>3. x = [rows |-> <<r>>, values |-> <<>>, faults |-> <<>>]
    BY <1>10, <2>1
  <2> HIDE DEF x, fault, row
  <2> QED
    BY <2>2, <2>3, ReportingParts
<1>11. CASE ~Supported(f.kind)
  BY <1>7, <1>11 DEF Leaf
<1>12. CASE Supported(f.kind) /\ f.unknown
  BY <1>7, <1>12 DEF Leaf
<1>13. CASE Supported(f.kind) /\ ~f.unknown /\ f.required /\ f.def # <<>>
  BY <1>7, <1>13 DEF Leaf
<1>14. CASE Supported(f.kind) /\ ~f.unknown /\ ~(f.required /\ f.def # <<>>) /\ raw = <<"">> /\ f.required
  BY <1>8, <1>14 DEF Leaf
<1>15. CASE Supported(f.kind) /\ ~f.unknown /\ ~(f.required /\ f.def # <<>>) /\ ~(raw = <<"">> /\ f.required) /\ raw # <<>>
  <2>1. PICK value : value = raw[1]
    OBVIOUS
  <2> QED
    BY <1>9, <1>15, <2>1 DEF Leaf
<1>16. CASE Supported(f.kind) /\ ~f.unknown /\ ~(f.required /\ f.def # <<>>) /\ raw = <<>> /\ f.def # <<>>
  <2>1. PICK value : value = f.def[1]
    OBVIOUS
  <2> QED
    BY <1>9, <1>16, <2>1 DEF Leaf
<1>17. CASE Supported(f.kind) /\ ~f.unknown /\ raw = <<>> /\ f.def = <<>> /\ f.required
  BY <1>8, <1>17 DEF Leaf
<1>18. CASE Supported(f.kind) /\ ~f.unknown /\ raw = <<>> /\ f.def = <<>> /\ ~f.required
  BY <1>10, <1>18 DEF Leaf
<1> QED
  BY <1>11, <1>12, <1>13, <1>14, <1>15, <1>16, <1>17, <1>18

\* A leaf reads of the environment its own variable alone.
LEMMA LeafReadsItsName ==
  ASSUME NEW f, NEW name, NEW path, NEW a, NEW b, Lookup(a, name) = Lookup(b, name)
  PROVE  Leaf(f, name, path, a) = Leaf(f, name, path, b)
BY Zenon DEF Leaf

\* Where the variable holds the value that its kind suits, the faults that a leaf may report are those of its tag.
LEMMA ValueRepairs ==
  ASSUME NEW f, NEW name, NEW path, NEW env, Lookup(env, name) = <<Suits(f.kind)>>
  PROVE  \A t \in Range(Leaf(f, name, path, env).faults) : t.tag
<1> DEFINE raw == Lookup(env, name)
           fault(why, shown, tag) == [name |-> name, why |-> why, shown |-> shown, tag |-> tag, kind |-> f.kind]
<1>1. raw # <<>> /\ raw[1] = Suits(f.kind)
  OBVIOUS
<1>2. Supported(f.kind) => raw # <<"">> /\ Parses(f.kind, raw[1])
  <2>1. ASSUME Supported(f.kind) PROVE Parses(f.kind, Suits(f.kind)) /\ Suits(f.kind) # ""
    BY <2>1 DEF Supported, Parses, Suits, Example, Lists
  <2>2. \A v, w : <<v>> = <<w>> => v = w
    OBVIOUS
  <2> QED
    BY <1>1, <2>1, <2>2
<1>3. ASSUME NEW why, Leaf(f, name, path, env).faults = <<fault(why, "", TRUE)>>
      PROVE  \A t \in Range(Leaf(f, name, path, env).faults) : t.tag
  <2>1. PICK t : t = fault(why, "", TRUE)
    OBVIOUS
  <2>2. t.tag = TRUE
    BY <2>1
  <2>3. t \in {t}
    OBVIOUS
  <2>4. Range(<<t>>) = {t}
    BY <2>3, RangeOfOne
  <2>5. Leaf(f, name, path, env).faults = <<t>>
    BY <1>3, <2>1
  <2>6. \A u \in Range(Leaf(f, name, path, env).faults) : u = t
    BY <2>4, <2>5
  <2> QED
    BY <2>2, <2>6, Zenon
<1>4. ASSUME Leaf(f, name, path, env).faults = <<>> PROVE \A t \in Range(Leaf(f, name, path, env).faults) : t.tag
  BY <1>4 DEF Range
<1>5. CASE ~Supported(f.kind)
  <2>1. Leaf(f, name, path, env).faults = <<fault("type", "", TRUE)>>
    BY <1>5 DEF Leaf
  <2> QED
    BY <1>3, <2>1
<1>6. CASE Supported(f.kind) /\ f.unknown
  <2>1. Leaf(f, name, path, env).faults = <<fault("option", "", TRUE)>>
    BY <1>6 DEF Leaf
  <2> QED
    BY <1>3, <2>1
<1>7. CASE Supported(f.kind) /\ ~f.unknown /\ f.required /\ f.def # <<>>
  <2>1. Leaf(f, name, path, env).faults = <<fault("default", "", TRUE)>>
    BY <1>7 DEF Leaf
  <2> QED
    BY <1>3, <2>1
<1>8. CASE Supported(f.kind) /\ ~f.unknown /\ ~(f.required /\ f.def # <<>>)
  <2>1. PICK value : value = raw[1]
    OBVIOUS
  <2>2. Parses(f.kind, value) /\ raw # <<>> /\ raw # <<"">>
    BY <1>1, <1>2, <1>8, <2>1
  <2>3. Leaf(f, name, path, env).faults = <<>>
    BY <1>8, <2>1, <2>2 DEF Leaf
  <2> QED
    BY <1>4, <2>3
<1> QED
  BY <1>5, <1>6, <1>7, <1>8

\* The rows and the faults that the first k leaves of a type report.
RowsOf(type, env, k) == UNION {Range(Given(type, env, i).rows) : i \in 1 .. k}
FaultsOf(type, env, k) == UNION {Range(Given(type, env, i).faults) : i \in 1 .. k}

\* The load reports what the leaves report, each of them, and nothing else.
LEMMA LoadReports ==
  ASSUME NEW type, NEW env, IsSeq(Walk(type))
  PROVE  /\ IsSeq(LoadFrom(type, env).faults)
         /\ Range(LoadFrom(type, env).rows) = RowsOf(type, env, Len(Walk(type)))
         /\ Range(LoadFrom(type, env).faults) = FaultsOf(type, env, Len(Walk(type)))
<1> DEFINE n == Len(Walk(type))
           R == RowsOf(type, env, n)
           V == UNION {Range(Given(type, env, i).values) : i \in 1 .. n}
           F == FaultsOf(type, env, n)
           B == Of(R, V, F)
           step == [ib \in (1 .. n) \X B |-> Joined(ib[2], Given(type, env, ib[1]))]
           it == CHOOSE g : Loads(g, type, env, n)
<1>1. n \in Nat /\ DOMAIN Walk(type) = 1 .. n
  BY SeqOfRange
<1>2. LoadFrom(type, env) = it[1 .. n]
  BY <1>1, LoadIs
<1> HIDE DEF n
<1>3. ASSUME NEW i \in 1 .. n PROVE Given(type, env, i) \in B
  <2> DEFINE x == Given(type, env, i)
  <2>1. Range(x.rows) \subseteq R /\ Range(x.values) \subseteq V /\ Range(x.faults) \subseteq F
    BY DEF RowsOf, FaultsOf
  <2>2. Reporting(x, Walk(type)[i].f, Name(Walk(type)[i]))
    BY LeafReports, Zenon DEF Given
  <2> HIDE DEF x, R, V, F
  <2>3. /\ x = [rows |-> x.rows, values |-> x.values, faults |-> x.faults]
        /\ \E r : x.rows \in {<<>>, <<r>>}
        /\ \E v : x.values \in {<<>>, <<v>>}
        /\ \E t : x.faults \in {<<>>, <<t>>}
    BY <2>2, Zenon DEF Reporting
  <2>4. x.rows \in Seq(R) /\ x.values \in Seq(V) /\ x.faults \in Seq(F)
    BY <2>1, <2>3, AtMostOne
  <2> QED
    BY <2>3, <2>4 DEF Of, x
<1>4. Nothing \in B
  BY DEF Nothing, Of
<1>5. ASSUME NEW a \in B, NEW b \in B
      PROVE  /\ Joined(a, b) \in B
             /\ Range(Joined(a, b).rows) = Range(a.rows) \cup Range(b.rows)
             /\ Range(Joined(a, b).faults) = Range(a.faults) \cup Range(b.faults)
  <2> HIDE DEF R, V, F
  <2>1. /\ a.rows \in Seq(R) /\ a.values \in Seq(V) /\ a.faults \in Seq(F)
        /\ b.rows \in Seq(R) /\ b.values \in Seq(V) /\ b.faults \in Seq(F)
    BY DEF Of
  <2>2. a.rows \o b.rows \in Seq(R) /\ Range(a.rows \o b.rows) = Range(a.rows) \cup Range(b.rows)
    BY <2>1, RangeOfConcat
  <2>3. a.faults \o b.faults \in Seq(F) /\ Range(a.faults \o b.faults) = Range(a.faults) \cup Range(b.faults)
    BY <2>1, RangeOfConcat
  <2>4. a.values \o b.values \in Seq(V)
    BY <2>1
  <2> QED
    BY <2>2, <2>3, <2>4 DEF Joined, Of
<1> HIDE DEF B
<1>6. step \in [(1 .. n) \X B -> B]
  BY <1>3, <1>5
<1>7. \A i \in 1 .. n, b \in B : step[<<i, b>>] = Joined(b, Given(type, env, i))
  OBVIOUS
<1> HIDE DEF step
<1>8. PICK g \in [SUBSET (1 .. n) -> B] : IsFold(g, n, Nothing, step)
  BY <1>1, <1>4, <1>6, FoldExists
<1>9. \A s \in SUBSET (1 .. n) : s # {} => Max(s) \in 1 .. n
  BY <1>1, Greatest
<1>10. ASSUME NEW s \in SUBSET (1 .. n), s # {}
       PROVE  step[<<Max(s), g[s \ {Max(s)}]>>] = Joined(g[s \ {Max(s)}], Given(type, env, Max(s)))
  BY <1>7, <1>8, <1>9, <1>10
<1>11. Loads(g, type, env, n)
  BY <1>8, <1>10 DEF Loads, IsFold
<1>12. Loads(it, type, env, n)
  BY <1>11
<1> HIDE DEF it
<1>13. it[{}] = Nothing
  BY <1>12 DEF Loads
<1>14. ASSUME NEW s \in SUBSET (1 .. n), s # {}, it[s \ {Max(s)}] \in B
       PROVE  it[s] = step[<<Max(s), it[s \ {Max(s)}]>>]
  BY <1>7, <1>9, <1>12, <1>14 DEF Loads
<1>15. Follows(it, n, B, Nothing, step)
  BY <1>13, <1>14 DEF Follows
<1>16. Staged(it, n, B, Nothing, step)
  BY <1>1, <1>4, <1>6, <1>15, FoldStages
<1>17. PICK h : StagesOf(h, n, B, Nothing, step) /\ h[n] = it[1 .. n]
  BY <1>16 DEF Staged
<1>18. h \in [0 .. n -> B] /\ h[0] = Nothing /\ \A k \in 1 .. n : h[k] = step[<<k, h[k - 1]>>]
  BY <1>17 DEF StagesOf
<1> DEFINE Has == {k \in Nat : k <= n => /\ Range(h[k].rows) = RowsOf(type, env, k)
                                         /\ Range(h[k].faults) = FaultsOf(type, env, k)}
<1>19. 0 \in Has
  <2>1. 1 .. 0 = {}
    OBVIOUS
  <2>2. RowsOf(type, env, 0) = {} /\ FaultsOf(type, env, 0) = {}
    BY <2>1 DEF RowsOf, FaultsOf
  <2>3. h[0].rows = <<>> /\ h[0].faults = <<>> /\ Range(<<>>) = {}
    BY <1>18 DEF Nothing, Range
  <2> QED
    BY <2>2, <2>3
<1>20. ASSUME NEW k \in Nat, k \in Has PROVE k + 1 \in Has
  <2> SUFFICES ASSUME k + 1 <= n
               PROVE  /\ Range(h[k + 1].rows) = RowsOf(type, env, k + 1)
                      /\ Range(h[k + 1].faults) = FaultsOf(type, env, k + 1)
    OBVIOUS
  <2>1. k \in 0 .. n /\ k + 1 \in 1 .. n /\ (k + 1) - 1 = k /\ 1 .. k + 1 = (1 .. k) \cup {k + 1}
    BY <1>1
  <2>2. h[k] \in B /\ h[k + 1] = Joined(h[k], Given(type, env, k + 1))
    BY <1>7, <1>18, <2>1
  <2>3. Range(h[k].rows) = RowsOf(type, env, k) /\ Range(h[k].faults) = FaultsOf(type, env, k)
    BY <1>20, <2>1
  <2>4. /\ Range(h[k + 1].rows) = Range(h[k].rows) \cup Range(Given(type, env, k + 1).rows)
        /\ Range(h[k + 1].faults) = Range(h[k].faults) \cup Range(Given(type, env, k + 1).faults)
    BY <1>3, <1>5, <2>1, <2>2
  <2>5. RowsOf(type, env, k + 1) = RowsOf(type, env, k) \cup Range(Given(type, env, k + 1).rows)
    BY <2>1 DEF RowsOf
  <2>6. FaultsOf(type, env, k + 1) = FaultsOf(type, env, k) \cup Range(Given(type, env, k + 1).faults)
    BY <2>1 DEF FaultsOf
  <2> QED
    BY <2>3, <2>4, <2>5, <2>6
<1>21. n \in Has
  <2> HIDE DEF Has
  <2> QED
    BY <1>1, <1>19, <1>20, SetInduction
<1>22. Range(it[1 .. n].rows) = R /\ Range(it[1 .. n].faults) = F /\ it[1 .. n] \in B
  BY <1>1, <1>17, <1>18, <1>21
<1>23. IsSeq(it[1 .. n].faults)
  BY <1>22 DEF B, Of, IsSeq, Range
<1> QED
  BY <1>2, <1>22, <1>23 DEF n

\* What the first of two environments gives, where the second gives nothing, is what both together give.
LEMMA LookupOfFirst ==
  ASSUME NEW V, NEW a \in Seq(V), NEW b \in Seq(V), NEW name, \A j \in DOMAIN b : b[j][1] # name
  PROVE  Lookup(a \o b, name) = Lookup(a, name)
<1> DEFINE m == Len(a)
           n == Len(b)
           ab == a \o b
<1>1. m \in Nat /\ n \in Nat /\ DOMAIN a = 1 .. m /\ DOMAIN b = 1 .. n /\ DOMAIN ab = 1 .. m + n
  OBVIOUS
<1>2. \A i \in 1 .. m + n : ab[i] = IF i <= m THEN a[i] ELSE b[i - m]
  OBVIOUS
<1> HIDE DEF m, n, ab
<1>3. ASSUME NEW i \in 1 .. m + n, ab[i][1] = name PROVE i \in 1 .. m /\ a[i][1] = name
  <2>1. CASE i > m
    <3>1. i - m \in 1 .. n /\ ab[i] = b[i - m]
      BY <1>1, <1>2, <2>1
    <3> QED
      BY <1>1, <1>3, <3>1
  <2> QED
    BY <1>1, <1>2, <1>3, <2>1
<1>4. ASSUME NEW i \in 1 .. m PROVE i \in 1 .. m + n /\ ab[i] = a[i]
  BY <1>1, <1>2
<1> DEFINE atA == {i \in DOMAIN a : a[i][1] = name}
           atB == {i \in DOMAIN ab : ab[i][1] = name}
<1>5. atA = atB
  BY <1>1, <1>3, <1>4
<1>6. Lookup(a, name) = IF atA = {} THEN <<>> ELSE <<a[CHOOSE i \in atA : \A j \in atA : j <= i][2]>>
  BY DEF Lookup
<1>7. Lookup(ab, name) = IF atB = {} THEN <<>> ELSE <<ab[CHOOSE i \in atB : \A j \in atB : j <= i][2]>>
  BY DEF Lookup
<1>8. ASSUME atA # {} PROVE (CHOOSE i \in atA : \A j \in atA : j <= i) \in 1 .. m
  <2>1. atA \in SUBSET (1 .. m)
    BY <1>1
  <2> HIDE DEF atA
  <2>2. \E i \in atA : \A j \in atA : j <= i
    BY <1>1, <1>8, <2>1, Greatest
  <2> QED
    BY <2>1, <2>2
<1> HIDE DEF atA, atB
<1>9. PICK k : k = CHOOSE i \in atA : \A j \in atA : j <= i
  OBVIOUS
<1>10. atA # {} => ab[k] = a[k]
  BY <1>4, <1>8, <1>9
<1>11. Lookup(a, name) = IF atA = {} THEN <<>> ELSE <<a[k][2]>>
  BY <1>6, <1>9
<1>12. Lookup(ab, name) = IF atA = {} THEN <<>> ELSE <<ab[k][2]>>
  BY <1>5, <1>7, <1>9
<1>13. Lookup(ab, name) = Lookup(a, name)
  <2>1. CASE atA = {}
    BY <1>11, <1>12, <2>1
  <2>2. CASE atA # {}
    <3>1. PICK v : v = a[k][2]
      OBVIOUS
    <3>2. ab[k][2] = v
      BY <1>10, <2>2, <3>1
    <3> QED
      BY <1>11, <1>12, <2>2, <3>1, <3>2
  <2> QED
    BY <2>1, <2>2
<1> QED
  BY <1>13 DEF ab

\* A fault of a leaf gives the name of its variable and the example of its kind, and no secret.
LEMMA LeafFaultIs ==
  ASSUME NEW l, NEW env, NEW t \in Range(Leaf(l.f, Name(l), Path(l), env).faults)
  PROVE  t.name = Name(l) /\ t.kind = l.f.kind /\ (l.f.secret => Veiled(t.shown))
<1>1. PICK x : x = Leaf(l.f, Name(l), Path(l), env)
  OBVIOUS
<1>2. Reporting(x, l.f, Name(l))
  BY <1>1, LeafReports
<1>3. PICK u : x.faults \in {<<>>, <<u>>} /\ (x.faults # <<>> => u.name = Name(l) /\ u.kind = l.f.kind
                                                                /\ (l.f.secret => Veiled(u.shown)))
  BY <1>2 DEF Reporting
<1>4. Range(<<>>) = {} /\ Range(<<u>>) = {u}
  <2>1. u \in {u}
    OBVIOUS
  <2> QED
    BY <2>1, RangeOfOne
<1>5. x.faults # <<>> /\ t = u
  BY <1>1, <1>3, <1>4
<1> QED
  BY <1>3, <1>5

\* A fault of a load is the fault of a leaf.
LEMMA FaultOfLeaf ==
  ASSUME NEW type, NEW env, IsSeq(Walk(type)), NEW t \in Range(LoadFrom(type, env).faults)
  PROVE  \E l \in Range(Walk(type)) : t \in Range(Leaf(l.f, Name(l), Path(l), env).faults)
<1>1. t \in FaultsOf(type, env, Len(Walk(type))) /\ DOMAIN Walk(type) = 1 .. Len(Walk(type))
  BY LoadReports, SeqOfRange
<1>2. PICK i \in 1 .. Len(Walk(type)) : t \in Range(Given(type, env, i).faults)
  BY <1>1 DEF FaultsOf
<1>3. PICK l : l = Walk(type)[i]
  OBVIOUS
<1>4. l \in Range(Walk(type)) /\ Given(type, env, i) = Leaf(l.f, Name(l), Path(l), env)
  BY <1>1, <1>3, InRange DEF Given
<1> QED
  BY <1>2, <1>4

\* A row of a load is the row of a leaf.
LEMMA RowOfLeaf ==
  ASSUME NEW type, NEW env, IsSeq(Walk(type)), NEW r \in Range(LoadFrom(type, env).rows)
  PROVE  \E l \in Range(Walk(type)) : r.name = Name(l) /\ (l.f.secret => Veiled(r.value))
<1>1. r \in RowsOf(type, env, Len(Walk(type))) /\ DOMAIN Walk(type) = 1 .. Len(Walk(type))
  BY LoadReports, SeqOfRange
<1>2. PICK i \in 1 .. Len(Walk(type)) : r \in Range(Given(type, env, i).rows)
  BY <1>1 DEF RowsOf
<1>3. PICK l : l = Walk(type)[i]
  OBVIOUS
<1>4. l \in Range(Walk(type)) /\ Given(type, env, i) = Leaf(l.f, Name(l), Path(l), env)
  BY <1>1, <1>3, InRange DEF Given
<1>5. PICK x : x = Leaf(l.f, Name(l), Path(l), env)
  OBVIOUS
<1>6. Reporting(x, l.f, Name(l))
  BY <1>5, LeafReports
<1>7. PICK u : x.rows \in {<<>>, <<u>>} /\ (x.rows # <<>> => u.name = Name(l) /\ (l.f.secret => Veiled(u.value)))
  BY <1>6 DEF Reporting
<1>8. r \in Range(x.rows)
  BY <1>2, <1>4, <1>5
<1>9. Range(<<>>) = {} /\ Range(<<u>>) = {u}
  <2>1. u \in {u}
    OBVIOUS
  <2> QED
    BY <2>1, RangeOfOne
<1>10. x.rows # <<>> /\ r = u
  BY <1>7, <1>8, <1>9
<1> QED
  BY <1>4, <1>7, <1>10

\* A fault of a leaf is a fault of the load.
LEMMA LeafFaultIsReported ==
  ASSUME NEW type, NEW env, IsSeq(Walk(type)), NEW l \in Range(Walk(type)),
         NEW t \in Range(Leaf(l.f, Name(l), Path(l), env).faults)
  PROVE  t \in Range(LoadFrom(type, env).faults)
<1>1. DOMAIN Walk(type) = 1 .. Len(Walk(type))
  BY SeqOfRange
<1>2. PICK i \in 1 .. Len(Walk(type)) : l = Walk(type)[i]
  BY <1>1 DEF Range
<1>3. Given(type, env, i) = Leaf(l.f, Name(l), Path(l), env)
  BY <1>2 DEF Given
<1>4. t \in FaultsOf(type, env, Len(Walk(type)))
  BY <1>3 DEF FaultsOf
<1> QED
  BY <1>4, LoadReports

\* An environment repaired as the faults of a load say leaves the faults of a tag alone.
LEMMA RepairHolds ==
  ASSUME NEW type, NEW env, IsSeq(Walk(type)), IsSeq(env), KindsAgree(type),
         NEW t \in Range(LoadFrom(type, Repaired(env, LoadFrom(type, env).faults)).faults)
  PROVE  t.tag
<1> DEFINE faults == LoadFrom(type, env).faults
           cure == [i \in DOMAIN faults |-> <<faults[i].name, Suits(faults[i].kind)>>]
           after == Repaired(env, faults)
           V == Range(env) \cup Range(cure)
<1>1. IsSeq(faults) /\ Len(faults) \in Nat /\ DOMAIN faults = 1 .. Len(faults)
  BY LoadReports, SeqOfRange
<1>2. \A i \in DOMAIN faults : faults[i] \in Range(faults)
  BY InRange
<1>3. PICK l \in Range(Walk(type)) : t \in Range(Leaf(l.f, Name(l), Path(l), after).faults)
  BY FaultOfLeaf
<1>4. after = env \o cure
  BY DEF Repaired
<1>5. DOMAIN cure = DOMAIN faults /\ \A i \in DOMAIN faults : cure[i][1] = faults[i].name /\ cure[i][2] = Suits(faults[i].kind)
  OBVIOUS
<1>6. env \in Seq(V) /\ cure \in Seq(V) /\ IsSeq(cure)
  <2>1. cure = [i \in 1 .. Len(faults) |-> cure[i]]
    BY <1>1
  <2>2. \A i \in 1 .. Len(faults) : cure[i] \in Range(cure)
    BY <1>1 DEF Range
  <2> HIDE DEF cure, faults
  <2>3. cure \in Seq(Range(cure))
    BY <1>1, <2>1, <2>2
  <2>4. Range(cure) \subseteq V /\ Range(env) \subseteq V
    OBVIOUS
  <2> HIDE DEF V
  <2>5. cure \in Seq(V) /\ env \in Seq(V)
    BY <2>3, <2>4 DEF IsSeq
  <2> QED
    BY <2>3, <2>5 DEF IsSeq
<1> HIDE DEF faults, cure, after, V
<1>7. CASE \E j \in DOMAIN cure : cure[j][1] = Name(l)
  <2>1. PICK j : LastAt(cure, Name(l), j) /\ Lookup(cure, Name(l)) = <<cure[j][2]>>
    BY <1>6, <1>7, LookupIs
  <2>2. j \in DOMAIN faults /\ faults[j].name = Name(l) /\ cure[j][2] = Suits(faults[j].kind)
    BY <1>5, <2>1 DEF LastAt
  <2>3. faults[j] \in Range(LoadFrom(type, env).faults)
    BY <1>2, <2>2 DEF faults
  <2>4. PICK m \in Range(Walk(type)) : faults[j].name = Name(m) /\ faults[j].kind = m.f.kind
    BY <2>3, FaultOfLeaf, LeafFaultIs
  <2>5. m.f.kind = l.f.kind
    BY <2>2, <2>4 DEF KindsAgree
  <2>6. Lookup(cure, Name(l)) = <<Suits(l.f.kind)>>
    BY <2>1, <2>2, <2>4, <2>5
  <2>7. Lookup(cure, Name(l)) # <<>>
    BY <2>6, OneIsSome
  <2>8. Lookup(after, Name(l)) = <<Suits(l.f.kind)>>
    BY <1>4, <1>6, <2>6, <2>7, LookupOfBoth
  <2> QED
    BY <1>3, <2>8, ValueRepairs, Zenon
<1>8. CASE \A j \in DOMAIN cure : cure[j][1] # Name(l)
  <2>1. Lookup(after, Name(l)) = Lookup(env, Name(l))
    BY <1>4, <1>6, <1>8, LookupOfFirst
  <2>2. t \in Range(Leaf(l.f, Name(l), Path(l), env).faults)
    <3>1. Leaf(l.f, Name(l), Path(l), after) = Leaf(l.f, Name(l), Path(l), env)
      BY <2>1, LeafReadsItsName
    <3> QED
      BY <1>3, <3>1
  <2>3. t \in Range(faults)
    BY <2>2, LeafFaultIsReported DEF faults
  <2>4. PICK j \in DOMAIN faults : faults[j] = t
    BY <2>3 DEF Range
  <2>5. t.name = Name(l)
    BY <2>2, LeafFaultIs
  <2> QED
    BY <1>5, <1>8, <2>4, <2>5
<1> QED
  BY <1>7, <1>8

\* What a process reports is what a load of its own environment left, or nothing yet.
Reported == \A p \in Procs : proc[p].load = Nothing \/ proc[p].load = LoadFrom(app.type, proc[p].env)
Loadless(p) == proc'[p].load = proc[p].load /\ proc'[p].env = proc[p].env

\* A step after which every process has the environment and the load it had.
LEMMA NoneLoads ==
  ASSUME Reported, Fixed, \A q \in Procs : Loadless(q) PROVE Reported'
BY DEF Reported, Fixed, Loadless

\* A step that leaves the environment and the load of its process leaves those of all.
LEMMA OthersLoadless ==
  ASSUME NEW p \in Procs, NEW X, Others(p), Keeps(p, X), "env" \notin X, "load" \notin X
  PROVE  \A q \in Procs : Loadless(q)
BY DEF Others, Keeps, Fields, Loadless

\* A command begins with no load.
LEMMA BeginReports ==
  ASSUME Formed, Reported, NEW p \in Procs, NEW cmd \in Cmds, Begin(p, cmd) PROVE Reported'
<1>1. Fixed /\ Others(p)
  BY BeginDoes DEF Begin
<1>2. proc'[p].load = Nothing
  BY DEF Begin, Formed, Idle
<1> QED
  BY <1>1, <1>2 DEF Reported, Others, Fixed

\* Load leaves what LoadFrom gives.
LEMMA LoadLeaves == ASSUME Formed, Reported, NEW p \in Procs, Load(p) PROVE Reported'
<1>1. Fixed /\ Others(p) /\ proc'[p].env = proc[p].env /\ proc'[p].load = LoadFrom(app.type, proc[p].env)
  BY LoadDoes DEF Load, Keeps, Fields
<1> QED
  BY <1>1 DEF Reported, Others, Fixed

\* A change of the world leaves every environment and every load.
LEMMA ChangeLoadless == ASSUME Formed, NEW p \in Procs, Changed(<<>>, p) PROVE \A q \in Procs : Loadless(q)
BY ChangedDoes DEF Unsteady, Fields, Loadless

\* So does a migrator.
LEMMA MigrateReports == ASSUME Formed, Reported, NEW p \in Procs, Migrate(p) PROVE Reported'
<1>0. Fixed
  BY DEF Migrate
<1>1. ASSUME NEW files, NEW next, NEW then, then = [pc |-> next] \/ then = [pc |-> next, code |-> 0],
             ApplyNext(p, files, proc[p].dsn, then)
      PROVE  Reported'
  <2>1. \/ Fails(p, "migrate") /\ UNCHANGED db
        \/ To(p, then) /\ UNCHANGED db
        \/ Changed(<<>>, p)
    BY <1>1, ApplyNextDoes, Zenon
  <2>2. CASE Fails(p, "migrate") /\ UNCHANGED db
    <3>1. Others(p) /\ Keeps(p, {"pc", "code", "failed"})
      BY <2>2, FailsDoes
    <3> QED
      BY <1>0, <3>1, OthersLoadless, NoneLoads
  <2>3. CASE To(p, then) /\ UNCHANGED db
    <3>1. CASE then = [pc |-> next]
      <4>1. Others(p) /\ Keeps(p, {"pc"})
        BY <2>3, <3>1, PcDoes
      <4> QED
        BY <1>0, <4>1, OthersLoadless, NoneLoads
    <3>2. CASE then = [pc |-> next, code |-> 0]
      <4>1. Others(p) /\ Keeps(p, {"pc", "code"})
        BY <2>3, <3>2, EndsDoes
      <4> QED
        BY <1>0, <4>1, OthersLoadless, NoneLoads
    <3> QED
      BY <1>1, <3>1, <3>2
  <2>4. CASE Changed(<<>>, p)
    BY <1>0, <2>4, ChangeLoadless, NoneLoads
  <2> QED
    BY <2>1, <2>2, <2>3, <2>4
<1>2. \/ ApplyNext(p, Sets, proc[p].dsn, [pc |-> "serving"])
      \/ ApplyNext(p, Sets, proc[p].dsn, [pc |-> "done", code |-> 0])
      \/ ApplyNext(p, dir.up, proc[p].dsn, [pc |-> "done", code |-> 0])
  BY Zenon DEF Migrate
<1> QED
  BY <1>1, <1>2, Zenon

\* So does a `down`.
LEMMA RunDownReports == ASSUME Formed, Reported, NEW p \in Procs, RunDown(p) PROVE Reported'
<1>0. Fixed
  BY DEF RunDown
<1>1. CASE Ends(p, 1) /\ UNCHANGED db
  <2>1. Others(p) /\ Keeps(p, {"pc", "code"})
    BY <1>1, EndsCode
  <2> QED
    BY <1>0, <2>1, OthersLoadless, NoneLoads
<1>2. CASE proc' = [q \in Procs |-> [(IF q = p THEN With([pc |-> "done", code |-> 0], proc[q]) ELSE proc[q])
                                        EXCEPT !.steady = FALSE, !.undone = TRUE]]
  <2> DEFINE r == [pc |-> "done", code |-> 0]
             mine == With(r, proc[p])
  <2>1. DOMAIN mine = Fields /\ mine.env = proc[p].env /\ mine.load = proc[p].load
    BY DEF With, Formed, Fields
  <2>2. Loadless(p)
    <3> HIDE DEF mine
    <3>1. proc'[p] = [mine EXCEPT !.steady = FALSE, !.undone = TRUE]
      BY <1>2 DEF mine
    <3> QED
      BY <2>1, <3>1 DEF Fields, Loadless
  <2>3. ASSUME NEW q \in Procs \ {p} PROVE Loadless(q)
    <3>1. proc'[q] = [proc[q] EXCEPT !.steady = FALSE, !.undone = TRUE]
      BY <1>2
    <3> QED
      BY <3>1 DEF Fields, Formed, Loadless
  <2> QED
    BY <1>0, <2>2, <2>3, NoneLoads
<1>3. \/ Ends(p, 1) /\ UNCHANGED <<db, calm, touched>>
      \/ proc' = [q \in Procs |-> [(IF q = p THEN With([pc |-> "done", code |-> 0], proc[q]) ELSE proc[q])
                                      EXCEPT !.steady = FALSE, !.undone = TRUE]]
  BY Zenon DEF RunDown
<1>4. UNCHANGED <<db, calm, touched>> => UNCHANGED db
  OBVIOUS
<1> QED
  BY <1>1, <1>2, <1>3, <1>4, Zenon

\* The steps of a process that neither begins nor loads nor changes a database.
LEMMA OthersReport ==
  ASSUME Formed, Reported, NEW p \in Procs,
         \/ Open(p) \/ Wire(p) \/ RunCheck(p) \/ Judge(p) \/ Status(p) \/ Directory(p) \/ DirectoryStatus(p)
         \/ PickDown(p) \/ Stop(p)
  PROVE  Reported'
<1>0. Fixed /\ UNCHANGED db
  BY DEF Open, Wire, RunCheck, Judge, Status, Directory, DirectoryStatus, PickDown, Stop, World
<1>1. ASSUME Others(p), NEW X, Keeps(p, X), "env" \notin X, "load" \notin X PROVE Reported'
  BY <1>0, <1>1, OthersLoadless, NoneLoads
<1>2. CASE Open(p)
  BY <1>1, <1>2, OpenDoes
<1>3. CASE Wire(p)
  BY <1>1, <1>3, WireDoes
<1>4. CASE RunCheck(p)
  BY <1>1, <1>4, RunCheckDoes
<1>5. CASE Judge(p)
  BY <1>1, <1>5, JudgeDoes
<1>6. CASE Status(p)
  BY <1>1, <1>6, StatusDoes
<1>7. CASE Directory(p)
  BY <1>1, <1>7, DirectoryDoes
<1>8. CASE DirectoryStatus(p)
  BY <1>0, <1>1, <1>8, EndsCode DEF DirectoryStatus
<1>9. CASE PickDown(p)
  BY <1>1, <1>9, PickDownDoes
<1>10. CASE Stop(p)
  <2>1. \E code : Ends(p, code)
    BY <1>10, Zenon DEF Stop
  <2> QED
    BY <1>0, <1>1, <2>1, EndsCode
<1> QED
  BY <1>2, <1>3, <1>4, <1>5, <1>6, <1>7, <1>8, <1>9, <1>10, Zenon

\* Every report is the one of a load.
LEMMA ReportedHolds == Spec => []Reported
<1>1. Init => Reported
  <2>1. Idle.load = Nothing
    BY DEF Idle
  <2>2. ASSUME Init, NEW p \in Procs PROVE proc[p] = Idle
    BY <2>2 DEF Init
  <2> QED
    BY <2>1, <2>2 DEF Reported
<1>2. MigrateInv /\ Reported /\ [Next]_vars => Reported'
  <2> SUFFICES ASSUME Formed, Reported, [Next]_vars PROVE Reported'
    BY DEF MigrateInv
  <2>1. ASSUME NEW p \in Procs, NEW cmd \in Cmds, Begin(p, cmd) PROVE Reported'
    BY <2>1, BeginReports
  <2>2. ASSUME NEW p \in Procs,
               \/ Load(p) \/ Open(p) \/ Wire(p) \/ RunCheck(p) \/ Judge(p) \/ Migrate(p) \/ Status(p)
               \/ Directory(p) \/ DirectoryStatus(p) \/ PickDown(p) \/ RunDown(p) \/ Stop(p)
        PROVE  Reported'
    BY <2>2, LoadLeaves, MigrateReports, RunDownReports, OthersReport, Zenon
  <2>3. CASE Turn
    <3>1. PICK p \in Procs : Changed(<<>>, p)
      BY <2>3 DEF Turn
    <3>2. Fixed
      BY <2>3 DEF Turn
    <3> QED
      BY <3>1, <3>2, ChangeLoadless, NoneLoads
  <2>4. CASE UNCHANGED vars
    BY <2>4 DEF vars, Reported
  <2> QED
    BY <2>1, <2>2, <2>3, <2>4, Zenon DEF Next, Cmds
<1> QED
  BY <1>1, <1>2, MigrateInvHolds, PTL DEF Spec

\* No report shows the value of a secret.
LEMMA HiddenOf ==
  ASSUME Surrounded, Reported PROVE SecretsStayHidden
<1>1. IsSeq(Walk(app.type))
  BY SurroundingsAssumption DEF Surrounded, IsSeq
<1>2. ASSUME NEW p \in Procs, NEW r \in Range(proc[p].load.rows), r.name \notin Printable PROVE Veiled(r.value)
  <2>1. CASE proc[p].load = Nothing
    BY <1>2, <2>1 DEF Nothing, Range
  <2>2. CASE proc[p].load = LoadFrom(app.type, proc[p].env)
    <3>1. PICK l \in Range(Walk(app.type)) : r.name = Name(l) /\ (l.f.secret => Veiled(r.value))
      BY <1>1, <1>2, <2>2, RowOfLeaf
    <3> QED
      BY <1>2, <3>1 DEF Printable
  <2> QED
    BY <2>1, <2>2 DEF Reported
<1>3. ASSUME NEW p \in Procs, NEW t \in Range(proc[p].load.faults), t.name \notin Printable PROVE Veiled(t.shown)
  <2>1. CASE proc[p].load = Nothing
    BY <1>3, <2>1 DEF Nothing, Range
  <2>2. CASE proc[p].load = LoadFrom(app.type, proc[p].env)
    <3>1. PICK l \in Range(Walk(app.type)) : t \in Range(Leaf(l.f, Name(l), Path(l), proc[p].env).faults)
      BY <1>1, <1>3, <2>2, FaultOfLeaf
    <3>2. t.name = Name(l) /\ (l.f.secret => Veiled(t.shown))
      BY <3>1, LeafFaultIs
    <3> QED
      BY <1>3, <3>1, <3>2 DEF Printable
  <2> QED
    BY <2>1, <2>2 DEF Reported
<1> QED
  BY <1>2, <1>3 DEF SecretsStayHidden, Veiled

\* A report that holds every fault at once, and prints no secret, whatever the fields of the configuration, their
\* nesting and the environment (config/config.go, config/fault.go, config/report.go): one repair is enough where the
\* fields that read one variable are of one kind.
THEOREM ReportsWhole == Spec => []ReportsAreWhole
<1>1. MigrateInv /\ Addressed /\ Reported => ReportsAreWhole
  <2> SUFFICES ASSUME MigrateInv, Addressed, Reported PROVE ReportsAreWhole
    OBVIOUS
  <2>1. Surrounded /\ IsSeq(Walk(app.type)) /\ IsSeq(shell)
    BY SurroundingsAssumption DEF Addressed, Surrounded, IsSeq
  <2>2. ASSUME NEW p \in Procs, KindsAgree(app.type), proc[p].cmd \in {"serve", "doctor"}, proc[p].load.faults # <<>>,
               NEW t \in Range(LoadFrom(app.type, Repaired(proc[p].env, proc[p].load.faults)).faults)
        PROVE  t.tag
    <3>1. IsSeq(proc[p].env)
      BY <2>1, <2>2 DEF MigrateInv, OwnInv, PlacedAt
    <3>2. proc[p].load = LoadFrom(app.type, proc[p].env)
      BY <2>2 DEF Reported, Nothing
    <3>3. KindsAgree(app.type)
      BY <2>2
    <3>4. t \in Range(LoadFrom(app.type, Repaired(proc[p].env, LoadFrom(app.type, proc[p].env).faults)).faults)
      BY <2>2, <3>2
    <3> QED
      BY <2>1, <3>1, <3>3, <3>4, RepairHolds, Zenon
  <2>3. OneRepairIsEnough
    BY <2>2, Zenon DEF OneRepairIsEnough
  <2>4. SecretsStayHidden
    BY <2>1, HiddenOf
  <2> QED
    BY <2>3, <2>4 DEF ReportsAreWhole
<1> QED
  BY <1>1, MigrateInvHolds, AddressedHolds, ReportedHolds, PTL
=============================================================================
