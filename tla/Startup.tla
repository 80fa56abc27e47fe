------------------------------ MODULE Startup ------------------------------
(***************************************************************************)
(* Processes of the system starting and stopping side by side: the API     *)
(* server (lifespan of src/server.py) and the workers                      *)
(* (src/worker/run.py), each of which connects to the database             *)
(* (src/database/db.py), creates missing tables if it is a worker, sets up *)
(* the queues (connect and _setup_queue_with_dlq of                        *)
(* src/queue/rabbitmq.py), prepares, and serves or consumes.               *)
(*                                                                         *)
(* The three work queues are set up alike and do not affect each other, so *)
(* one stands for all.  A queue another version of the program declared    *)
(* has other arguments; RabbitMQ refuses to declare it anew, and the       *)
(* process that was refused deletes it.  A deleted queue takes its         *)
(* messages and its consumers with it (external: RabbitMQ).                *)
(***************************************************************************)
EXTENDS Naturals

CONSTANTS
  Servers,      \* API processes
  Workers,      \* worker processes
  Messages,     \* bound: messages there are
  Attempts,     \* retry_attempts of DatabaseManager.connect (3 in the code)
  MaxStarts,    \* bound: starts of processes
  MaxFaults     \* bound: outages of the database, dying processes

ASSUME ProcessesAssumption == Servers \cap Workers = {}
ASSUME NumbersAssumption ==
  /\ Attempts \in Nat \ {0}
  /\ {MaxStarts, MaxFaults} \subseteq Nat

VARIABLES
  at,         \* where each process is
  round,      \* which call of _setup_queue_with_dlq it is in
  attempt,    \* connection attempts it has made
  saw,        \* whether it saw the tables
  starts,     \* how many starts there were
  db,         \* the database answers
  tables,     \* the tables exist
  queue,      \* the work queue: "absent", "old" (other arguments) or "current"
  dlq,        \* dead letter exchange and queue are declared and bound
  place,      \* where each message is
  consumers,  \* processes consuming from the queue
  born,       \* history: what the queue was at the beginning
  first,      \* history: the messages in it then
  exposed,    \* history: messages published beside a refused process or a missing queue
  cut,        \* history: a process died between deleting and declaring the queue
  beaten,     \* history: how often each process lost the race for the tables
  faults

process == <<round, attempt, saw, starts>>
broker == <<queue, dlq, place, consumers>>
history == <<born, first, exposed, cut, beaten>>
vars == <<at, process, db, tables, broker, history, faults>>

Processes == Servers \cup Workers
Starting == {"connect", "inspect", "create", "dlq", "main", "refused",
             "deleted", "prepare", "subscribe"}

TypeOK ==
  /\ at \in [Processes -> Starting \cup {"down", "up"}]
  /\ round \in [Processes -> 1..2]
  /\ \A p \in Servers : round[p] = 1 /\ at[p] # "subscribe"
  /\ attempt \in [Processes -> 0..Attempts]
  /\ saw \in [Processes -> BOOLEAN]
  /\ starts \in 0..MaxStarts
  /\ db \in BOOLEAN /\ tables \in BOOLEAN /\ dlq \in BOOLEAN
  /\ queue \in {"absent", "old", "current"}
  /\ place \in [Messages -> {"unsent", "queued", "handled", "lost"}]
  /\ consumers \subseteq Workers
  /\ born \in {"absent", "old", "current"}
  /\ first \subseteq Messages /\ exposed \subseteq Messages
  /\ cut \in BOOLEAN
  /\ beaten \in [Processes -> Nat]
  /\ faults \in 0..MaxFaults

\* The first start ever, or a start after an earlier version of the program
\* or of this one, which may have left messages.
Init ==
  /\ at = [p \in Processes |-> "down"]
  /\ round = [p \in Processes |-> 1]
  /\ attempt = [p \in Processes |-> 0]
  /\ saw = [p \in Processes |-> FALSE]
  /\ starts = 0
  /\ db = TRUE
  /\ tables \in BOOLEAN
  /\ queue \in {"absent", "old", "current"}
  /\ dlq = (queue = "current")
  /\ born = queue
  /\ first \in SUBSET (IF queue = "absent" THEN {} ELSE Messages)
  /\ place = [m \in Messages |-> IF m \in first THEN "queued" ELSE "unsent"]
  /\ exposed = {}
  /\ cut = FALSE
  /\ beaten = [p \in Processes |-> 0]
  /\ consumers = {}
  /\ faults = 0

Fault == faults < MaxFaults /\ faults' = faults + 1

Go(p, stage) == at' = [at EXCEPT ![p] = stage]

\* The process ends, and with it what it knew.
End(p) ==
  /\ Go(p, "down")
  /\ round' = [round EXCEPT ![p] = 1]
  /\ attempt' = [attempt EXCEPT ![p] = 0]
  /\ saw' = [saw EXCEPT ![p] = FALSE]
  /\ consumers' = consumers \ {p}
  /\ UNCHANGED starts

Exists(stage) == \E p \in Processes : at[p] = stage

-----------------------------------------------------------------------------
(* Database                                                                *)

Start(p) ==
  /\ at[p] = "down"
  /\ starts < MaxStarts
  /\ starts' = starts + 1
  /\ Go(p, "connect")
  /\ UNCHANGED <<round, attempt, saw, db, tables, broker, history, faults>>

\* Mutant: the loop does not count.
ConnectForEver(p) ==
  /\ at[p] = "connect"
  /\ IF db THEN Go(p, IF p \in Workers THEN "inspect" ELSE "dlq") ELSE UNCHANGED at
  /\ UNCHANGED <<process, db, tables, broker, history, faults>>

\* One attempt of db.connect; after the last the process ends with an error.
Connect(p) ==
  /\ at[p] = "connect"
  /\ \/ /\ db
        /\ Go(p, IF p \in Workers THEN "inspect" ELSE "dlq")
        /\ attempt' = [attempt EXCEPT ![p] = 0]
        /\ UNCHANGED <<round, saw, starts, consumers>>
     \/ /\ ~db
        /\ attempt[p] + 1 < Attempts
        /\ attempt' = [attempt EXCEPT ![p] = @ + 1]
        /\ UNCHANGED <<at, round, saw, starts, consumers>>
     \/ ~db /\ attempt[p] + 1 = Attempts /\ End(p)
  /\ UNCHANGED <<db, tables, queue, dlq, place, history, faults>>

\* create_all looks which tables are missing ...
Inspect(p) ==
  /\ at[p] = "inspect"
  /\ saw' = [saw EXCEPT ![p] = tables]
  /\ Go(p, "create")
  /\ UNCHANGED <<round, attempt, starts, db, tables, broker, history, faults>>

\* ... and creates them.  If another process has done so in between, this one
\* gets an error, which nothing catches.
Create(p) ==
  /\ at[p] = "create"
  /\ IF tables /\ ~saw[p]
     THEN /\ End(p)
          /\ beaten' = [beaten EXCEPT ![p] = @ + 1]
     ELSE /\ Go(p, "dlq")
          /\ saw' = [saw EXCEPT ![p] = FALSE]
          /\ UNCHANGED <<round, attempt, starts, consumers, beaten>>
  /\ tables' = TRUE
  /\ UNCHANGED <<db, queue, dlq, place, born, first, exposed, cut, faults>>

-----------------------------------------------------------------------------
(* Queues: _setup_queue_with_dlq, called by connect and again by consume   *)

\* Exchange, dead letter queue and binding; declaring them again is harmless.
DeclareDlq(p) ==
  /\ at[p] = "dlq"
  /\ dlq' = TRUE
  /\ Go(p, "main")
  /\ UNCHANGED <<process, db, tables, queue, place, consumers, history, faults>>

SetUp(p) == Go(p, IF round[p] = 1 THEN "prepare" ELSE "subscribe")

\* Mutant: any queue that is already there counts as a conflict.
DeclareMainAnew(p) ==
  /\ at[p] = "main"
  /\ IF queue # "absent" THEN Go(p, "refused") /\ UNCHANGED queue
                         ELSE SetUp(p) /\ queue' = "current"
  /\ UNCHANGED <<process, db, tables, dlq, place, consumers, history, faults>>

\* The work queue: created, found as it should be, or refused.
DeclareMain(p) ==
  /\ at[p] = "main"
  /\ IF queue = "old" THEN Go(p, "refused") /\ UNCHANGED queue
                      ELSE SetUp(p) /\ queue' = "current"
  /\ UNCHANGED <<process, db, tables, dlq, place, consumers, history, faults>>

\* Mutant: the queue is deleted and not declared again.
DeleteOnly(p) ==
  /\ at[p] = "refused"
  /\ dlq' = TRUE
  /\ queue' = "absent"
  /\ place' = [m \in Messages |-> IF place[m] = "queued" THEN "lost" ELSE place[m]]
  /\ consumers' = {}
  /\ SetUp(p)
  /\ UNCHANGED <<process, db, tables, history, faults>>

\* On a new channel the process declares exchange and dead letter queue again
\* and deletes the work queue, whatever it has become since the refusal.
Delete(p) ==
  /\ at[p] = "refused"
  /\ dlq' = TRUE
  /\ queue' = "absent"
  /\ place' = [m \in Messages |-> IF place[m] = "queued" THEN "lost" ELSE place[m]]
  /\ consumers' = {}
  /\ Go(p, "deleted")
  /\ UNCHANGED <<process, db, tables, history, faults>>

Redeclare(p) ==
  /\ at[p] = "deleted"
  /\ queue' = "current"
  /\ SetUp(p)
  /\ UNCHANGED <<process, db, tables, dlq, place, consumers, history, faults>>

-----------------------------------------------------------------------------
(* Service                                                                 *)

\* The server refreshes its providers and initialises the vector collection,
\* then serves; a worker's start (the storage worker initialises the
\* collection first) goes on to consume.
Prepare(p) ==
  /\ at[p] = "prepare"
  /\ IF p \in Servers THEN Go(p, "up") /\ UNCHANGED round
                      ELSE Go(p, "dlq") /\ round' = [round EXCEPT ![p] = 2]
  /\ UNCHANGED <<attempt, saw, starts, db, tables, broker, history, faults>>

\* queue.consume; if somebody has deleted the queue just now it raises and the
\* worker stops.
Subscribe(p) ==
  /\ at[p] = "subscribe"
  /\ \/ queue = "absent" /\ End(p)
     \/ /\ queue # "absent"
        /\ Go(p, "up")
        /\ round' = [round EXCEPT ![p] = 1]
        /\ consumers' = consumers \cup {p}
        /\ UNCHANGED <<attempt, saw, starts>>
  /\ UNCHANGED <<db, tables, queue, dlq, place, history, faults>>

\* publish by a process that is up.  Without a queue the broker returns the
\* message; channel() leaves on_return_raises as it is, so publish does not
\* raise, and the message is gone.
Publish(m) ==
  /\ Exists("up")
  /\ place[m] = "unsent"
  /\ place' = [place EXCEPT ![m] = IF queue = "absent" THEN "lost" ELSE "queued"]
  /\ exposed' = IF Exists("refused") \/ queue = "absent" THEN exposed \cup {m} ELSE exposed
  /\ UNCHANGED <<at, process, db, tables, queue, dlq, consumers, born, first, cut,
                 beaten, faults>>

\* A consumer handles a message and acknowledges it.
Handle(m) ==
  /\ place[m] = "queued"
  /\ consumers # {}
  /\ place' = [place EXCEPT ![m] = "handled"]
  /\ UNCHANGED <<at, process, db, tables, queue, dlq, consumers, history, faults>>

\* SIGINT: stop, queue.close, db.close.
Stop(p) ==
  /\ at[p] = "up"
  /\ End(p)
  /\ UNCHANGED <<db, tables, queue, dlq, place, history, faults>>

\* A process dies, or one of its calls raises, which ends it while it starts.
Die(p) ==
  /\ Fault
  /\ at[p] # "down"
  /\ End(p)
  /\ cut' = (cut \/ at[p] = "deleted")
  /\ UNCHANGED <<db, tables, queue, dlq, place, born, first, exposed, beaten>>

\* An outage of the database begins or ends.
Outage ==
  /\ IF db THEN Fault ELSE UNCHANGED faults
  /\ db' = ~db
  /\ UNCHANGED <<at, process, tables, broker, history>>

-----------------------------------------------------------------------------
Boot(p) ==
  \/ Connect(p) \/ Inspect(p) \/ Create(p)
  \/ DeclareDlq(p) \/ DeclareMain(p) \/ Delete(p) \/ Redeclare(p)
  \/ Prepare(p) \/ Subscribe(p)

Next ==
  \/ \E p \in Processes : Start(p) \/ Boot(p) \/ Stop(p) \/ Die(p)
  \/ \E m \in Messages : Publish(m) \/ Handle(m)
  \/ Outage

Spec == Init /\ [][Next]_vars

\* A process that starts is not suspended for ever; nobody has to start it.
FairSpec == Spec /\ \A p \in Processes : WF_vars(Boot(p))

-----------------------------------------------------------------------------
(* Safety                                                                  *)

Lost == {m \in Messages : place[m] = "lost"}

\* Replacing the queue of an earlier version costs the messages it holds, those
\* published while another process has been refused and has not deleted yet
\* (that second deletion hits the new queue), and those published before the
\* queue is declared again.  Nothing else is ever lost, and nothing at all where
\* no earlier version left a queue, however many processes start side by side
\* and again.
OnlyConflictsLoseMessages ==
  Lost \subseteq IF born = "old" THEN first \cup exposed ELSE {}

\* What a process that is up relies on: the queue is there, except between its
\* deletion and its new declaration by another one, or after that one has died
\* there; a message rejected after its last retry is kept, because what the
\* queue's arguments name is declared and bound; and a worker consumes, unless
\* a conflict has cost it its subscription.
UpMeansReady ==
  /\ Exists("up") /\ ~Exists("deleted") /\ ~cut => queue = "current"
  /\ queue = "current" => dlq
  /\ born # "old" => \A p \in Workers : at[p] = "up" => p \in consumers

\* Workers started together on an empty database compete for the tables, and
\* the losers end with an error; nobody loses twice, so starting a worker
\* again is enough.
TablesAreContestedOnce == \A p \in Processes : beaten[p] <= 1

(* Liveness                                                                *)

\* Whatever fails, a process that is started comes up or ends.
StartsSettle ==
  \A p \in Processes : at[p] \in Starting ~> at[p] \in {"up", "down"}

=============================================================================
