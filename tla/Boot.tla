-------------------------------- MODULE Boot --------------------------------
(***************************************************************************)
(* The commands of one application and its databases: the start that Serve *)
(* runs (by hand, or under `avero dev`), `avero doctor`, and `avero        *)
(* migrate` up, status and down, which ask the application through `go     *)
(* run` and fall back to the migrations directory. Several commands run at *)
(* once; a database may stop under any of them.                            *)
(***************************************************************************)
EXTENDS Config, FiniteSets

CONSTANTS Procs,      \* the terminals of one developer, or the replicas of one application
          Surroundings, \* records [app, shell, envfile, dir]: an application [type, dsn, wire, handler, sets, older,
                        \* gomod], an environment (a sequence of <<name, value>>), the lines of .env, and the
                        \* migrations directory [up, down], the versions that hold each file
          Databases,  \* the addresses of the databases
          MaxStops,   \* bound: how often a database stops or starts
          MaxRuns     \* bound: how many commands run in all

\* An empty address names no database (serve.go:241, cli/internal/cli/migrate.go:155), and an environment, a .env and a walk are lists.
ASSUME DatabasesAssumption == "" \notin Databases
ASSUME SurroundingsAssumption ==
    \A s \in Surroundings : /\ s.shell \in Seq(Range(s.shell)) /\ s.envfile \in Seq(Range(s.envfile))
                            /\ Walk(s.app.type) \in Seq(Range(Walk(s.app.type)))

VARIABLES app, shell, envfile, dir,  \* the application and its surroundings, which no command changes
          db,       \* address |-> [up, applied]
          broker,   \* the state that a check of the application reads
          proc,     \* process |-> the command it runs
          calm,     \* history: the last doctor said OK and nothing changed since
          touched,  \* history: the databases that some command changed or proved
          stops, runs

vars == <<app, shell, envfile, dir, db, broker, proc, calm, touched, stops, runs>>

Secret == <<"AVERO", "SECRET">>
Url == <<"DATABASE", "URL">>
OnBoot == <<"MIGRATE", "ON", "BOOT">>

\* cmd and pc; env, load and dsn of the application it runs; todo and failed: its checks; code: its exit code;
\* picked: what `down` reverses; said: the exit code of the application under `go run`. History: via, who answered;
\* steady, nothing changed since it began (a start: since a doctor that said OK began); undone, a `down` ran since.
Idle == [cmd |-> "none", pc |-> "idle", env |-> <<>>, load |-> Nothing, dsn |-> "", todo |-> <<>>, failed |-> {},
         code |-> 0, picked |-> 0, said |-> 0, via |-> "app", steady |-> FALSE, undone |-> FALSE]

Init ==
    /\ \E s \in Surroundings : app = s.app /\ shell = s.shell /\ envfile = s.envfile /\ dir = s.dir
    /\ \E up \in BOOLEAN, applied \in {{}, app.sets} : db = [d \in Databases |-> [up |-> up, applied |-> applied]]
    /\ broker = TRUE
    /\ proc = [p \in Procs |-> Idle]
    /\ calm = FALSE /\ touched = {} /\ stops = 0 /\ runs = 0

Fixed == UNCHANGED <<app, shell, envfile, dir>>
World == UNCHANGED <<db, broker, stops>>

\* The record f with the members of r. (The provers do not know the @@ of module TLC.)
With(r, f) == [x \in DOMAIN r \cup DOMAIN f |-> IF x \in DOMAIN r THEN r[x] ELSE f[x]]

To(p, r) == proc' = [proc EXCEPT ![p] = With(r, @)]
Ends(p, code) == To(p, [pc |-> "done", code |-> code])
\* A mutant: the fault of ApplyMigrations is dropped.
FailsNever(p, stage) == Ends(p, 0)
Fails(p, stage) == To(p, [pc |-> "done", code |-> 1, failed |-> proc[p].failed \cup {stage}])

\* A change of a database or of the broker: no doctor speaks for a start after it.
Changed(r, by) == /\ calm' = FALSE
                  /\ proc' = [q \in Procs |-> [(IF q = by THEN With(r, proc[q]) ELSE proc[q]) EXCEPT !.steady = FALSE]]

\* `go run` answers 1 for every failure of the program that it ran.
GoRun(code) == IF code = 0 THEN 0 ELSE 1
NoModuleMigrations == 3
Asks(cmd) == cmd \in {"up", "status"}

\* moduleMigrate: the application answered, or the CLI reads the directory.
Relay(p, code) ==
    To(p, IF GoRun(code) = NoModuleMigrations THEN [said |-> code, pc |-> "directory"]
          ELSE [said |-> code, pc |-> "done", code |-> GoRun(code)])

\* A start by hand and the doctor read the shell; dev and the migration of the modules read .env as well.
Begin(p, cmd) ==
    /\ proc[p].pc \in {"idle", "done"} /\ runs < MaxRuns /\ runs' = runs + 1
    /\ LET env == IF cmd \in {"dev", "up", "status"} THEN Environment(envfile, shell) ELSE shell
           refuses == cmd = "dev" /\ ~HasEnv(env, Secret)
           begun(pc) == [Idle EXCEPT !.cmd = cmd, !.pc = pc, !.env = env, !.code = IF pc = "done" THEN 1 ELSE 0,
                                     !.steady = cmd = "doctor" \/ (cmd = "serve" /\ calm)]
           next == IF cmd = "down" THEN "directory"
                   ELSE IF Asks(cmd) /\ ~app.gomod THEN "directory"
                   ELSE IF cmd \in {"dev", "up", "status"} /\ EnvFault(envfile) THEN "done"
                   ELSE IF refuses \/ (cmd \in {"dev", "doctor"} /\ ~app.gomod) THEN "done"
                   ELSE IF Asks(cmd) /\ app.older THEN "directory"
                   ELSE "load"
       IN proc' = [proc EXCEPT ![p] = begun(next)]
    /\ UNCHANGED <<calm, touched>> /\ World /\ Fixed

\* Serve stops on a fault of the configuration; the migration and the doctor take the part that did load.
Load(p) ==
    /\ proc[p].pc = "load"
    /\ LET load == LoadFrom(app.type, proc[p].env)
           dsn == IF app.dsn THEN ValueOf(load, Url) ELSE ""
           starts == proc[p].cmd \in {"serve", "dev"}
           loaded(r) == To(p, With(r, [load |-> load, dsn |-> dsn]))
       IN IF starts /\ load.faults # <<>> THEN loaded([pc |-> "done", code |-> 1, failed |-> {"config"}])
          ELSE IF starts /\ app.dsn THEN loaded([pc |-> "open"])
          ELSE IF Asks(proc[p].cmd) /\ dsn = "" THEN loaded([pc |-> "done", code |-> 1, said |-> 1])
          ELSE loaded([pc |-> "wire"])
    /\ UNCHANGED <<calm, touched, runs>> /\ World /\ Fixed

\* drel.NewEngine: an address of no running database may fail here, or at the first statement.
Up(dsn) == dsn \in Databases /\ db[dsn].up

Open(p) ==
    /\ proc[p].pc = "open"
    /\ \/ To(p, [pc |-> IF Asks(proc[p].cmd) THEN proc[p].cmd ELSE "wire"])
       \/ ~Up(proc[p].dsn) /\ Fails(p, "database")
    /\ UNCHANGED <<calm, touched, runs>> /\ World /\ Fixed

Sets == app.sets

\* The checks of a start, which reads its own engine, and the checks of the doctor, which opens one for each.
BootChecks(load) ==
    <<"secret">> \o (IF app.dsn THEN <<"database">> ELSE <<>>)
                 \o (IF app.dsn /\ ValueOf(load, OnBoot) # "true" /\ Sets # {} THEN <<"migrations">> ELSE <<>>)
                 \o <<"broker">>
\* A mutant: the doctor proves the database and no migration.
DoctorWithout(dsn) == <<"secret">> \o (IF dsn # "" THEN <<"database">> ELSE <<>>) \o <<"broker">>
DoctorChecks(dsn) ==
    <<"secret">> \o (IF dsn # "" THEN <<"database">> ELSE <<>>)
                 \o (IF dsn # "" /\ Sets # {} THEN <<"migrations">> ELSE <<>>)
                 \o <<"broker">>

\* Wire, the check of the wiring, and for a start the handler, which reports the faults of the routes.
Wire(p) ==
    /\ proc[p].pc = "wire"
    /\ LET cmd == proc[p].cmd
           starts == cmd \in {"serve", "dev"}
       IN IF app.wire # "ok" THEN Fails(p, "wiring")
          ELSE IF starts /\ ~app.handler THEN Fails(p, "handler")
          ELSE IF Asks(cmd) /\ Sets = {} THEN Relay(p, NoModuleMigrations)
          ELSE IF Asks(cmd) THEN To(p, [pc |-> "open"])
          ELSE To(p, [pc |-> "checks",
                      todo |-> IF starts THEN BootChecks(proc[p].load) ELSE DoctorChecks(proc[p].dsn)])
    /\ UNCHANGED <<calm, touched, runs>> /\ World /\ Fixed

\* A mutant: a query that fails says that nothing is pending.
AppliedOpen(dsn) == IF Up(dsn) THEN {db[dsn].applied} ELSE {Sets}
\* Applied drops the fault of the query and of a row: a database that stops answers with a part.
Applied(dsn) == IF Up(dsn) THEN {db[dsn].applied}
                ELSE IF dsn \in Databases THEN SUBSET db[dsn].applied ELSE {{}}
Pending(known, done) == known \ done

SecretHolds(load) == ValueOf(load, Secret) = "long"

\* One check runs. Every check runs, so one start reports every fault.
RunCheck(p) ==
    /\ proc[p].pc = "checks" /\ proc[p].todo # <<>>
    /\ \E done \in Applied(proc[p].dsn) :
          LET c == Head(proc[p].todo)
              holds == CASE c = "secret" -> SecretHolds(proc[p].load)
                         [] c = "database" -> Up(proc[p].dsn)
                         [] c = "migrations" -> Pending(Sets, done) = {}
                         [] c = "broker" -> broker
          IN /\ To(p, [todo |-> Tail(proc[p].todo),
                       failed |-> proc[p].failed \cup IF holds THEN {} ELSE {c}])
             /\ touched' = touched \cup IF c = "database" /\ holds THEN {proc[p].dsn} ELSE {}
    /\ UNCHANGED <<calm, runs>> /\ World /\ Fixed

\* The doctor reports the faults of the configuration and of the checks; a start goes on to its migrator.
Judge(p) ==
    /\ proc[p].pc = "checks" /\ proc[p].todo = <<>>
    /\ LET ok == proc[p].failed = {} /\ proc[p].load.faults = <<>>
           names == ~app.dsn \/ proc[p].dsn # ""
           migrates == app.dsn /\ Sets # {} /\ ValueOf(proc[p].load, OnBoot) = "true"
       IN IF proc[p].cmd = "doctor"
            THEN /\ Ends(p, IF ok THEN 0 ELSE 1)
                 /\ calm' = (calm \/ (ok /\ names /\ proc[p].steady))
            ELSE /\ IF proc[p].failed # {} THEN Ends(p, 1)
                    ELSE To(p, [pc |-> IF migrates THEN "migrate" ELSE "serving"])
                 /\ UNCHANGED calm
    /\ UNCHANGED <<touched, runs>> /\ World /\ Fixed

\* drel applies the pending files in version order, each in a transaction of its own.
ApplyNext(p, files, dsn, then) ==
    \/ ~Up(dsn) /\ Fails(p, "migrate") /\ UNCHANGED <<db, calm, touched>>
    \/ /\ Up(dsn) /\ Pending(files, db[dsn].applied) = {}
       /\ To(p, then) /\ UNCHANGED <<db, calm, touched>>
    \/ /\ Up(dsn) /\ Pending(files, db[dsn].applied) # {}
       /\ \/ Fails(p, "migrate") /\ UNCHANGED <<db, calm, touched>>  \* the SQL of the file fails
          \/ /\ db' = [db EXCEPT ![dsn].applied = @ \cup {Min(Pending(files, @))}]
             /\ touched' = touched \cup {dsn}
             /\ Changed(<<>>, p)

Migrate(p) ==
    /\ \/ proc[p].pc = "migrate" /\ ApplyNext(p, Sets, proc[p].dsn, [pc |-> "serving"])
       \/ proc[p].pc = "up" /\ ApplyNext(p, Sets, proc[p].dsn, [pc |-> "done", code |-> 0])
       \/ /\ proc[p].pc = "apply" /\ proc[p].cmd = "up"
          /\ ApplyNext(p, dir.up, proc[p].dsn, [pc |-> "done", code |-> 0])
    /\ UNCHANGED <<broker, stops, runs>> /\ Fixed

\* The application reports what is pending with the exit code 1.
Status(p) ==
    /\ proc[p].pc = "status"
    /\ \E done \in Applied(proc[p].dsn) : Relay(p, IF Pending(Sets, done) = {} THEN 0 ELSE 1)
    /\ UNCHANGED <<calm, touched, runs>> /\ World /\ Fixed

\* withEngine reads the variable of the shell alone.
Directory(p) ==
    /\ proc[p].pc = "directory"
    /\ LET url == Lookup(shell, Url)
           dsn == IF url = <<>> THEN "" ELSE url[1]
       IN \/ (dsn = "" \/ ~Up(dsn)) /\ To(p, [via |-> "directory", pc |-> "done", code |-> 1])
          \/ dsn # "" /\ To(p, [via |-> "directory", pc |-> "apply", dsn |-> dsn])
    /\ UNCHANGED <<calm, touched, runs>> /\ World /\ Fixed

\* The report of the directory ends with 0, whatever is pending.
DirectoryStatus(p) ==
    /\ proc[p].pc = "apply" /\ proc[p].cmd = "status" /\ Ends(p, 0)
    /\ UNCHANGED <<calm, touched, runs>> /\ World /\ Fixed

\* `down` picks the newest applied version that the directory names, before its transaction.
PickDown(p) ==
    /\ proc[p].pc = "apply" /\ proc[p].cmd = "down"
    /\ \E done \in Applied(proc[p].dsn) :
          LET held == dir.up \cap done
          IN IF held = {} THEN Ends(p, 0)
             ELSE IF Max(held) \notin dir.down THEN Ends(p, 1)
             ELSE To(p, [pc |-> "reverse", picked |-> Max(held)])
    /\ UNCHANGED <<calm, touched, runs>> /\ World /\ Fixed

RunDown(p) ==
    /\ proc[p].pc = "reverse"
    /\ \/ Ends(p, 1) /\ UNCHANGED <<db, calm, touched>>
       \/ /\ Up(proc[p].dsn)
          /\ db' = [db EXCEPT ![proc[p].dsn].applied = @ \ {proc[p].picked}]
          /\ touched' = touched \cup {proc[p].dsn} /\ calm' = FALSE
          /\ proc' = [q \in Procs |-> [(IF q = p THEN With([pc |-> "done", code |-> 0], proc[q]) ELSE proc[q])
                                         EXCEPT !.steady = FALSE, !.undone = TRUE]]
    /\ UNCHANGED <<broker, stops, runs>> /\ Fixed

\* A signal ends a process that serves; a kill ends one between two of its changes.
Stop(p) ==
    /\ proc[p].pc \in {"serving", "migrate", "up", "apply", "reverse"}
    /\ Ends(p, IF proc[p].pc = "serving" THEN 0 ELSE 137)
    /\ UNCHANGED <<calm, touched, runs>> /\ World /\ Fixed

Turn ==
    /\ stops < MaxStops /\ stops' = stops + 1
    /\ \/ \E d \in Databases : db' = [db EXCEPT ![d].up = ~@] /\ UNCHANGED broker
       \/ broker' = ~broker /\ UNCHANGED db
    /\ \E p \in Procs : Changed(<<>>, p)
    /\ UNCHANGED <<touched, runs>> /\ Fixed

Next ==
    \/ \E p \in Procs : \/ \E cmd \in {"serve", "dev", "doctor", "up", "status", "down"} : Begin(p, cmd)
                        \/ Load(p) \/ Open(p) \/ Wire(p) \/ RunCheck(p) \/ Judge(p) \/ Migrate(p) \/ Status(p)
                        \/ Directory(p) \/ DirectoryStatus(p) \/ PickDown(p) \/ RunDown(p) \/ Stop(p)
    \/ Turn

Spec == Init /\ [][Next]_vars

-----------------------------------------------------------------------------

(* A process that serves holds every migration of its modules, whichever of the check of the boot and the migrator  *)
(* proved it, whatever ran beside the start and whenever the database stopped, until a `down` takes one away.        *)
ServesMigrated ==
    \A p \in Procs : (proc[p].pc = "serving" /\ app.dsn /\ ~proc[p].undone) => Sets \subseteq db[proc[p].dsn].applied

(* A start by hand that follows an OK of the doctor fails for none of the reasons that the doctor proves, as long as *)
(* no database and no broker changed since the doctor began, and the configuration names a database when the         *)
(* application states one (the doctor drops the check of an empty address, and no report of the routes is a check).  *)
DoctorForeseesTheStart ==
    \A p \in Procs : (proc[p].cmd = "serve" /\ proc[p].steady) => proc[p].failed \subseteq {"handler"}

(* `avero migrate up` and the status of the modules answer 0 only for a database that holds every file of the side   *)
(* that answered, the application or the directory, until a `down` takes one away.                                   *)
UpAnswersTrue ==
    \A p \in Procs :
        (proc[p].pc = "done" /\ proc[p].code = 0 /\ ~proc[p].undone) =>
            /\ Asks(proc[p].cmd) /\ proc[p].via = "app" => Sets \subseteq db[proc[p].dsn].applied
            /\ proc[p].cmd = "up" /\ proc[p].via = "directory" => dir.up \subseteq db[proc[p].dsn].applied

(* Every command of one developer acts on one database: dev and the migration of the modules read .env under the     *)
(* shell, the others read the shell alone, and no two of them change or prove two databases, unless .env and the     *)
(* default of DATABASE_URL in the configuration disagree and the shell does not decide. They agree in what `avero    *)
(* new` writes, whose .env.example holds the default; in an application whose .env then names another address, dev   *)
(* and `migrate up` act on that one, and a start by hand and the doctor on the default.                              *)
Defaults == {l.f.def[1] : l \in {l \in Range(Walk(app.type)) : Name(l) = Url /\ l.f.def # <<>>}}
Told == Lookup(Environment(envfile, shell), Url)
DefaultsAgree == Lookup(shell, Url) # <<>> \/ \A d, e \in Defaults \cup Range(Told) : d = e
OneDatabase == Cardinality(touched) <= 1 \/ ~DefaultsAgree

(* One report of the configuration holds every fault: an environment repaired as the faults of one load say loads    *)
(* with no fault of a variable, and the faults of a tag stay. Fields that read one variable must be of one kind,     *)
(* which the loader does not ask for: no value repairs a number and a switch at once. The repair of a fault is the   *)
(* example that it gives, except for a narrow integer, whose parser refuses the example 8080: there it is a number   *)
(* that fits.                                                                                                        *)
Suits(kind) == IF kind = "int8" THEN "5" ELSE Example(kind)
KindsAgree(type) == \A l, m \in Range(Walk(type)) : Name(l) = Name(m) => l.f.kind = m.f.kind
Repaired(env, faults) == env \o [i \in DOMAIN faults |-> <<faults[i].name, Suits(faults[i].kind)>>]
OneRepairIsEnough ==
    \A p \in Procs :
        LET faults == proc[p].load.faults
        IN proc[p].cmd \in {"serve", "doctor"} /\ faults # <<>> /\ KindsAgree(app.type) =>
             \A f \in Range(LoadFrom(app.type, Repaired(proc[p].env, faults)).faults) : f.tag

(* No report and no fault of a configuration prints a secret, the value of a variable that only fields marked as     *)
(* secret read: the doctor writes both whatever did not load.                                                        *)
Printable == {Name(l) : l \in {l \in Range(Walk(app.type)) : ~l.f.secret}}
SecretsStayHidden ==
    LET printable == Printable
    IN \A p \in Procs :
          /\ \A r \in Range(proc[p].load.rows) : r.value \in {"", Redacted} \/ r.name \in printable
          /\ \A f \in Range(proc[p].load.faults) : f.shown \in {"", Redacted} \/ f.name \in printable

(* The report of a load is whole and safe to print: it names every fault at once, and no secret.                     *)
ReportsAreWhole == OneRepairIsEnough /\ SecretsStayHidden

(* "The CLI reads it and applies the files of the migrations directory that avero.json names" (serve.go:189), of the *)
(* exit code 3 of an application whose modules state no migration.                                                   *)
NoModuleReadsDirectory ==
    \A p \in Procs : (proc[p].pc = "done" /\ proc[p].said = NoModuleMigrations) => proc[p].via = "directory"
=============================================================================
