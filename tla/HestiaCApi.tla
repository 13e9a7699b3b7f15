----------------------------- MODULE HestiaCApi -----------------------------
(***************************************************************************)
(* The C API of hestia (src/src/hestia/hestia.cc): the globals g_client   *)
(* and g_server, and the threads of the embedding program that call the  *)
(* API.  Each call is split at the points where it reads or writes a      *)
(* global, because nothing serialises the calls: a call is a check of the *)
(* global, then one or more steps that use it.                            *)
(*                                                                         *)
(* g_client is Null or a HestiaClient [gen, st]: gen tells clients apart *)
(* (a use of a destroyed client is one whose gen is gone), st is "new"   *)
(* (constructed, HestiaClient::initialize not yet run), "ready" or        *)
(* "broken" (HestiaApplication::initialize threw; HestiaClient::initialize *)
(* caught it and returned an error status).  g_server is Null or a        *)
(* HestiaServer [gen, st, web_app, listening]: gen tells servers apart as *)
(* it does clients, the web app object HestiaServer::run made, and        *)
(* whether the BasicHttpServer it started is serving.  Undefined          *)
(* behaviour a step commits is recorded in `ub`.                          *)
(***************************************************************************)
EXTENDS Naturals, FiniteSets

CONSTANTS
    Threads,        \* threads calling the API
    MaxInits,       \* bound on HestiaClients and HestiaServers constructed
    Null            \* an empty std::unique_ptr

VARIABLES
    g_client,
    g_server,
    nextGen,        \* gen of the next HestiaClient constructed
    pc,             \* per thread: the step of its call in progress
    ret,            \* per thread: what its last call returned
    ub              \* kinds of undefined behaviour committed so far

vars == <<g_client, g_server, nextGen, pc, ret, ub>>

Idle == [step |-> "idle"]

\* hestia_error_e values the model tells apart; "ok" is 0.
Codes == {"ok", "CLIENT_STATE", "BAD_INPUT_ID", "BAD_INPUT_BUFFER", "BAD_STREAM",
          "ERROR"}

\* What a call returned, with what the properties need to know of it: the
\* state the client was left in by initialize, whether a data call wrote
\* the activity id ("set") or a length of 0 ("zero"), whether a CRUD call
\* wrote *len_response, whether start_server made g_server.
Ret(call, rc) == [call |-> call, rc |-> rc, client |-> "none",
                  activity |-> "none", out |-> "none", made |-> FALSE]

Finish(t, r) ==
    /\ pc' = [pc EXCEPT ![t] = Idle]
    /\ ret' = [ret EXCEPT ![t] = r]

\* A step that dereferences g_client for a call that found client gen:
\* a null or replaced client is a use after free (or a null dereference).
ClientGone(gen) == g_client = Null \/ g_client.gen # gen

UseClient(gen) == ub' = IF ClientGone(gen) THEN ub \cup {"client_freed"} ELSE ub

(***************************************************************************)
(* hestia_initialize: if g_client is set, CLIENT_STATE; the extra config  *)
(* JSON may fail to parse (CLIENT_STATE); then g_client = make_unique     *)
(* and g_client->initialize(..), whose returned OpStatus is dropped.      *)
(***************************************************************************)
initialize_check(t) ==
    /\ pc[t] = Idle
    /\ nextGen <= MaxInits
    /\ \E parsed \in BOOLEAN :
        CASE g_client # Null ->
                /\ pc' = [pc EXCEPT ![t] = [step |-> "initialize_set_error",
                                             gen |-> g_client.gen]]
                /\ UNCHANGED ret
          [] ~parsed -> Finish(t, Ret("initialize", "CLIENT_STATE"))
          [] OTHER ->
                /\ pc' = [pc EXCEPT ![t] = [step |-> "initialize_construct"]]
                /\ UNCHANGED ret
    /\ UNCHANGED <<g_client, g_server, nextGen, ub>>

\* A client was found: g_client->set_last_error(..), then CLIENT_STATE.
initialize_set_error(t) ==
    /\ pc[t].step = "initialize_set_error"
    /\ UseClient(pc[t].gen)
    /\ Finish(t, Ret("initialize", "CLIENT_STATE"))
    /\ UNCHANGED <<g_client, g_server, nextGen>>

initialize_construct(t) ==
    /\ pc[t].step = "initialize_construct"
    /\ g_client' = [gen |-> nextGen, st |-> "new"]
    /\ nextGen' = nextGen + 1
    /\ pc' = [pc EXCEPT ![t] = [step |-> "initialize_run"]]
    /\ UNCHANGED <<g_server, ret, ub>>

\* HestiaClient::initialize: HestiaApplication::initialize, whose exception
\* is caught and turned into an error status (the client is then broken).
HestiaClientInitialize == {"ready", "broken"}

initialize_run(t) ==
    /\ pc[t].step = "initialize_run"
    /\ IF g_client = Null
       THEN /\ ub' = ub \cup {"client_freed"}
            /\ UNCHANGED g_client
            /\ Finish(t, Ret("initialize", "ok"))
       ELSE \E st \in HestiaClientInitialize :
            /\ g_client' = [g_client EXCEPT !.st = st]
            /\ Finish(t, [Ret("initialize", "ok") EXCEPT !.client = st])
            /\ UNCHANGED ub
    /\ UNCHANGED <<g_server, nextGen>>

(***************************************************************************)
(* hestia_finish: if g_client is not set, CLIENT_STATE; else reset it.    *)
(***************************************************************************)
finish_check(t) ==
    /\ pc[t] = Idle
    /\ IF g_client = Null
       THEN Finish(t, Ret("finish", "CLIENT_STATE"))
       ELSE /\ pc' = [pc EXCEPT ![t] = [step |-> "finish_reset"]]
            /\ UNCHANGED ret
    /\ UNCHANGED <<g_client, g_server, nextGen, ub>>

finish_reset(t) ==
    /\ pc[t].step = "finish_reset"
    /\ g_client' = Null
    /\ Finish(t, Ret("finish", "ok"))
    /\ UNCHANGED <<g_server, nextGen, ub>>

(***************************************************************************)
(* HestiaPrivate::override_client (used by tests): g_client is replaced   *)
(* by a given client with no check, destroying the one it held.           *)
(***************************************************************************)
override_client(t) ==
    /\ pc[t] = Idle
    /\ nextGen <= MaxInits
    /\ g_client' = [gen |-> nextGen, st |-> "ready"]
    /\ nextGen' = nextGen + 1
    /\ UNCHANGED <<g_server, pc, ret, ub>>

\* hestia_identify ignores its arguments and returns -1.
hestia_identify(t) ==
    /\ pc[t] = Idle
    /\ Finish(t, Ret("identify", "ERROR"))
    /\ UNCHANGED <<g_client, g_server, nextGen, ub>>

(***************************************************************************)
(* The CRUD calls create_or_update (hestia_create, hestia_update),        *)
(* hestia_read and hestia_remove: check_initialized, then the null test   *)
(* of the input, then g_client->method(..), then process_results.  What  *)
(* the services of the client do is not in the repository, so its result  *)
(* is either code.                                                        *)
(***************************************************************************)
CrudCalls == {"create", "update", "read", "remove"}

\* HESTIA_IO_* output formats the control tells apart (KEY_VALUE is as JSON).
IoFormats == {"none", "ids", "json"}

\* process_results: whether *len_response is written.  For HESTIA_IO_NONE
\* it assigns 0 to the parameter len_response itself, not to *len_response.
process_results(output_format) ==
    IF output_format = "none" THEN "unwritten" ELSE "written"

\* A faulty variant: the call goes ahead without check_initialized.
crud_check_unchecked(t) ==
    /\ pc[t] = Idle
    /\ \E call \in CrudCalls :
        pc' = [pc EXCEPT ![t] = [step |-> "crud_call", call |-> call,
                                 gen |-> IF g_client = Null THEN 0 ELSE g_client.gen]]
    /\ UNCHANGED <<g_client, g_server, nextGen, ub, ret>>

crud_check(t) ==
    /\ pc[t] = Idle
    /\ \E call \in CrudCalls :
        IF g_client = Null
        THEN Finish(t, Ret(call, "CLIENT_STATE"))
        ELSE /\ pc' = [pc EXCEPT ![t] = [step |-> "crud_call", call |-> call,
                                         gen |-> g_client.gen]]
             /\ UNCHANGED ret
    /\ UNCHANGED <<g_client, g_server, nextGen, ub>>

\* hestia_item_t values the control tells apart: an HSM item (object,
\* tier, dataset, action, metadata), HESTIA_USER, HESTIA_NODE, and
\* HESTIA_ITEM_TYPE_COUNT.
Subjects == {"object", "user", "node", "count"}

\* to_subject: the kind of HestiaType made for the subject; an unknown one
\* becomes the HSM type UNKNOWN.
to_subject(subject) ==
    CASE subject = "user" -> "user"
      [] subject = "node" -> "system"
      [] OTHER            -> "hsm"

\* HestiaClient::create, ::update and ::remove: the user service for a
\* USER subject, the hsm service for an HSM one, and otherwise none.
WriteService(kind) ==
    CASE kind = "user" -> "user"
      [] kind = "hsm"  -> "hsm"
      [] OTHER         -> "none"

\* HestiaClient::read: the user service for USER, else the hsm service.
ReadService(kind) == IF kind = "user" THEN "user" ELSE "hsm"

\* ERROR_CHECK and rc::error: a failed response gives an error status
\* (HESTIA_ERROR_UNKNOWN); with no service nothing is requested and the
\* method returns success.
client_status(service) == IF service = "none" THEN {"ok"} ELSE {"ok", "ERROR"}

\* g_client->create/update/read/remove, and the output it leads to.
ClientCall(t, service, out) ==
    /\ UseClient(pc[t].gen)
    /\ \E rc \in client_status(service) :
        Finish(t, [Ret(pc[t].call, rc) EXCEPT !.out = IF rc = "ok" THEN out ELSE "none"])

BadInput(t) ==
    /\ Finish(t, Ret(pc[t].call, "BAD_INPUT_ID"))
    /\ UNCHANGED ub

create_or_update(t) ==
    /\ pc[t].step = "crud_call"
    /\ pc[t].call \in {"create", "update"}
    /\ \E input_format, output_format \in IoFormats, input_null \in BOOLEAN,
          subject \in Subjects :
        IF input_format # "none" /\ input_null
        THEN BadInput(t)
        ELSE ClientCall(t, WriteService(to_subject(subject)),
                        process_results(output_format))
    /\ UNCHANGED <<g_client, g_server, nextGen>>

hestia_read(t) ==
    /\ pc[t].step = "crud_call"
    /\ pc[t].call = "read"
    /\ \E query_format \in {"none", "ids", "filter"}, query_null \in BOOLEAN,
          output_format \in IoFormats, subject \in Subjects :
        IF query_format # "none" /\ query_null
        THEN BadInput(t)
        ELSE ClientCall(t, ReadService(to_subject(subject)),
                        process_results(output_format))
    /\ UNCHANGED <<g_client, g_server, nextGen>>

hestia_remove(t) ==
    /\ pc[t].step = "crud_call"
    /\ pc[t].call = "remove"
    /\ \E input_null \in BOOLEAN, subject \in Subjects :
        IF input_null THEN BadInput(t)
        ELSE ClientCall(t, WriteService(to_subject(subject)), "none")
    /\ UNCHANGED <<g_client, g_server, nextGen>>

(***************************************************************************)
(* The data calls.  Each starts with ID_AND_STATE_CHECK (a null oid is    *)
(* BAD_INPUT_ID, then check_initialized), some after a null test of their *)
(* buffer, path or length (BAD_INPUT_BUFFER).  The data I/O calls then    *)
(* run g_client->do_data_io_action(action, &stream, completion_cb) and a  *)
(* stream step, and return status.m_error_code: completion_cb writes      *)
(* `status`, and the activity id and its length (0 on failure); it runs   *)
(* inside do_data_io_action or while the stream is flushed.  A transfer   *)
(* whose completion is pending waits on the stream, so only a flush       *)
(* finishes it.  Each call is described by the null test it makes first  *)
(* and the stream steps that may follow the I/O.                          *)
(***************************************************************************)
\* flush if stream.waiting_for_content(), else stream.reset()
hestia_data_put == [buffer_arg |-> TRUE, after |-> {"flush", "reset"}]

hestia_data_put_path == [buffer_arg |-> TRUE, after |-> {"flush"}]

hestia_data_put_descriptor == [buffer_arg |-> FALSE, after |-> {"flush"}]

\* flush if stream.has_source(), else only the transferred count is read
hestia_data_get == [buffer_arg |-> TRUE, after |-> {"flush", "none"}]

hestia_data_get_descriptor == [buffer_arg |-> FALSE, after |-> {"flush"}]

hestia_data_get_path == [buffer_arg |-> FALSE, after |-> {"flush"}]

DataIo == [data_put |-> hestia_data_put, data_put_path |-> hestia_data_put_path,
           data_put_descriptor |-> hestia_data_put_descriptor,
           data_get |-> hestia_data_get,
           data_get_descriptor |-> hestia_data_get_descriptor,
           data_get_path |-> hestia_data_get_path]

\* hestia_data_copy, hestia_data_move, hestia_data_release: after the
\* check, g_client->do_data_movement_action(action); on success the
\* activity id and its length are written.
MovementCalls == {"data_copy", "data_move", "data_release"}

DataCalls == DOMAIN DataIo \cup MovementCalls

data_check(t) ==
    /\ pc[t] = Idle
    /\ \E call \in DataCalls, buf_null, oid_null \in BOOLEAN :
        CASE buf_null /\ call \in DOMAIN DataIo /\ DataIo[call].buffer_arg ->
                Finish(t, Ret(call, "BAD_INPUT_BUFFER"))
          [] oid_null -> Finish(t, Ret(call, "BAD_INPUT_ID"))
          [] g_client = Null -> Finish(t, Ret(call, "CLIENT_STATE"))
          [] OTHER ->
                /\ pc' = [pc EXCEPT ![t] =
                            [step |-> IF call \in MovementCalls THEN "data_movement"
                                      ELSE "data_io",
                             call |-> call, gen |-> g_client.gen]]
                /\ UNCHANGED ret
    /\ UNCHANGED <<g_client, g_server, nextGen, ub>>

\* HestiaClient::do_data_movement_action: one request to the hsm service;
\* a failed response is rc::error, else the action is taken from it.
do_data_movement_action == {"ok", "ERROR"}

data_movement(t) ==
    /\ pc[t].step = "data_movement"
    /\ UseClient(pc[t].gen)
    /\ \E rc \in do_data_movement_action :
        Finish(t, [Ret(pc[t].call, rc)
                      EXCEPT !.activity = IF rc = "ok" THEN "set" ELSE "none"])
    /\ UNCHANGED <<g_client, g_server, nextGen>>

\* HestiaClient::do_data_io_action: the hsm service runs the action and
\* calls the completion with success or rc::error, before it returns or
\* later, while the stream is driven.
do_data_io_action == {"ok", "ERROR", "pending"}

\* status starts as a default OpStatus (ok) and is what the callback set.
data_io(t) ==
    /\ pc[t].step = "data_io"
    /\ UseClient(pc[t].gen)
    /\ \E cb \in do_data_io_action :
        pc' = [pc EXCEPT ![t] = [step |-> "data_stream", call |-> pc[t].call,
                                 gen |-> pc[t].gen,
                                 status |-> IF cb = "ERROR" THEN "ERROR" ELSE "ok",
                                 reported |-> cb]]
    /\ UNCHANGED <<g_client, g_server, nextGen, ret>>

\* What the callback left in *len_activity_id.
Activity(reported) == IF reported = "ok" THEN "set" ELSE "zero"

\* The stream step: stream.flush() (a pending completion runs in it) or
\* stream.reset(), either of which may fail (BAD_STREAM), or for
\* hestia_data_get without a source no stream call.  Then the status the
\* callback set is returned.
data_stream(t) ==
    /\ pc[t].step = "data_stream"
    /\ UseClient(pc[t].gen)
    /\ \E after \in DataIo[pc[t].call].after, ok \in BOOLEAN, late \in {"ok", "ERROR"} :
        /\ after # "flush" => pc[t].reported # "pending"
        /\ after = "none" => ok
        /\ LET reported == IF pc[t].reported = "pending" THEN late ELSE pc[t].reported
               status   == IF pc[t].reported = "pending" THEN late ELSE pc[t].status
           IN  Finish(t, [Ret(pc[t].call, IF ok THEN status ELSE "BAD_STREAM")
                             EXCEPT !.activity = Activity(reported)])
    /\ UNCHANGED <<g_client, g_server, nextGen>>
(***************************************************************************)
(* hestia_start_server: if g_server is set, CLIENT_STATE; the config JSON *)
(* may fail to parse; then g_server = make_unique (destroying a server    *)
(* another thread set since the check) and g_server->initialize (a throw *)
(* returns CLIENT_STATE and leaves g_server set), then g_server->run().  *)
(* run (HestiaServer.cc) makes the web app as a local unique_ptr, gives   *)
(* BasicHttpServer its raw pointer and starts it.  With a non-blocking    *)
(* launch it waits until the server is bound and returns: the web app is *)
(* destroyed, the server keeps serving.  With a blocking launch start()   *)
(* serves until the server stops, then run resets m_server and returns.  *)
(* Every step after make_unique runs on the HestiaServer it made: if that *)
(* one was destroyed meanwhile, the step is a use after free.            *)
(***************************************************************************)
ServerGone(gen) == g_server = Null \/ g_server.gen # gen

UseServer(gen) == ub' = IF ServerGone(gen) THEN ub \cup {"server_freed"} ELSE ub

\* The status run gave, caught if it threw, and returned as 0 or -1.
RunStatus(ok) == IF ok THEN "ok" ELSE "ERROR"

start_server_check(t) ==
    /\ pc[t] = Idle
    /\ nextGen <= MaxInits
    /\ \E parsed \in BOOLEAN :
        IF g_server # Null \/ ~parsed
        THEN Finish(t, Ret("start_server", "CLIENT_STATE"))
        ELSE /\ pc' = [pc EXCEPT ![t] = [step |-> "start_server_make"]]
             /\ UNCHANGED ret
    /\ UNCHANGED <<g_client, g_server, nextGen, ub>>

start_server_make(t) ==
    /\ pc[t].step = "start_server_make"
    /\ g_server' = [gen |-> nextGen, st |-> "new", web_app |-> FALSE,
                    listening |-> FALSE]
    /\ nextGen' = nextGen + 1
    /\ pc' = [pc EXCEPT ![t] = [step |-> "start_server_initialize", gen |-> nextGen]]
    /\ UNCHANGED <<g_client, ret, ub>>

start_server_initialize(t) ==
    /\ pc[t].step = "start_server_initialize"
    /\ UseServer(pc[t].gen)
    /\ \E ok \in BOOLEAN :
        /\ g_server' = IF ok /\ ~ServerGone(pc[t].gen)
                       THEN [g_server EXCEPT !.st = "initialized"] ELSE g_server
        /\ IF ok THEN /\ pc' = [pc EXCEPT ![t] = [step |-> "start_server_run",
                                                  gen |-> pc[t].gen]]
                      /\ UNCHANGED ret
                 ELSE Finish(t, [Ret("start_server", "CLIENT_STATE")
                                 EXCEPT !.made = TRUE])
    /\ UNCHANGED <<g_client, nextGen>>

\* run() up to m_server->start(): the web app is made and the server
\* started, with a blocking or a non-blocking launch as the configuration
\* says (a throw from run returns -1, the web app destroyed with it).
start_server_run(t) ==
    /\ pc[t].step = "start_server_run"
    /\ UseServer(pc[t].gen)
    /\ \E ok, block \in BOOLEAN :
        IF ok
        THEN /\ g_server' = IF ServerGone(pc[t].gen) THEN g_server
                            ELSE [g_server EXCEPT !.st = "running",
                                     !.web_app = TRUE, !.listening = TRUE]
             /\ pc' = [pc EXCEPT ![t] = [step |-> IF block THEN "start_server_serving"
                                                  ELSE "start_server_return",
                                         gen |-> pc[t].gen]]
             /\ UNCHANGED ret
        ELSE /\ UNCHANGED g_server
             /\ Finish(t, Ret("start_server", RunStatus(FALSE)))
    /\ UNCHANGED <<g_client, nextGen>>

\* Non-blocking: wait_until_bound, then the return from run; the local
\* web_app goes.
start_server_return(t) ==
    /\ pc[t].step = "start_server_return"
    /\ UseServer(pc[t].gen)
    /\ g_server' = IF ServerGone(pc[t].gen) THEN g_server
                   ELSE [g_server EXCEPT !.web_app = FALSE]
    /\ Finish(t, Ret("start_server", RunStatus(TRUE)))
    /\ UNCHANGED <<g_client, nextGen>>

\* Blocking: start() returns when the server stops, on its own or because
\* ~HestiaServer destroyed it; run then resets m_server, and the local
\* web_app goes after it.
start_server_served(t) ==
    /\ pc[t].step = "start_server_serving"
    /\ UseServer(pc[t].gen)
    /\ g_server' = IF ServerGone(pc[t].gen) THEN g_server
                   ELSE [g_server EXCEPT !.listening = FALSE, !.web_app = FALSE]
    /\ Finish(t, Ret("start_server", RunStatus(TRUE)))
    /\ UNCHANGED <<g_client, nextGen>>

\* hestia_stop_server: if g_server is not set, CLIENT_STATE; else reset it
\* (~HestiaServer destroys the BasicHttpServer, which stops serving).
stop_server_check(t) ==
    /\ pc[t] = Idle
    /\ IF g_server = Null
       THEN Finish(t, Ret("stop_server", "CLIENT_STATE"))
       ELSE /\ pc' = [pc EXCEPT ![t] = [step |-> "stop_server_reset"]]
            /\ UNCHANGED ret
    /\ UNCHANGED <<g_client, g_server, nextGen, ub>>

\* A faulty variant: the server is stopped but g_server is not reset.
stop_server_keep(t) ==
    /\ pc[t].step = "stop_server_reset"
    /\ g_server' = [g_server EXCEPT !.st = "stopped", !.listening = FALSE]
    /\ Finish(t, Ret("stop_server", "ok"))
    /\ UNCHANGED <<g_client, nextGen, ub>>

stop_server_reset(t) ==
    /\ pc[t].step = "stop_server_reset"
    /\ g_server' = Null
    /\ Finish(t, Ret("stop_server", "ok"))
    /\ UNCHANGED <<g_client, nextGen, ub>>

\* An HTTP request reaches the BasicHttpServer, which hands it to the web
\* app through the pointer run gave it.
serve ==
    /\ g_server # Null
    /\ g_server.listening
    /\ ub' = IF g_server.web_app THEN ub ELSE ub \cup {"web_app_freed"}
    /\ UNCHANGED <<g_client, g_server, nextGen, pc, ret>>

(***************************************************************************)
(* The system.                                                            *)
(***************************************************************************)
Init ==
    /\ g_client = Null
    /\ g_server = Null
    /\ nextGen = 1
    /\ pc = [t \in Threads |-> Idle]
    /\ ret = [t \in Threads |-> Ret("none", "ok")]
    /\ ub = {}

Next ==
    \/ \E t \in Threads :
        \/ initialize_check(t) \/ initialize_set_error(t) \/ initialize_construct(t) \/ initialize_run(t)
        \/ finish_check(t) \/ finish_reset(t)
        \/ override_client(t) \/ hestia_identify(t)
        \/ crud_check(t) \/ create_or_update(t) \/ hestia_read(t) \/ hestia_remove(t)
        \/ data_check(t) \/ data_movement(t) \/ data_io(t) \/ data_stream(t)
        \/ start_server_check(t) \/ start_server_make(t) \/ start_server_initialize(t)
        \/ start_server_run(t) \/ start_server_return(t) \/ start_server_served(t)
        \/ stop_server_check(t) \/ stop_server_reset(t)
    \/ serve

Spec == Init /\ [][Next]_vars

(***************************************************************************)
(* Properties.                                                            *)
(***************************************************************************)
Steps == {"idle", "initialize_set_error", "initialize_construct", "initialize_run", "finish_reset",
          "crud_call", "data_movement", "data_io", "data_stream", "start_server_make",
          "start_server_initialize", "start_server_run", "start_server_return",
          "start_server_serving", "stop_server_reset"}

TypeOK ==
    /\ g_client \in {Null} \cup [gen : 1 .. MaxInits + Cardinality(Threads),
                                 st : {"new", "ready", "broken"}]
    /\ g_server \in {Null} \cup [gen : 1 .. MaxInits + Cardinality(Threads),
                                 st : {"new", "initialized", "running"},
                                 web_app : BOOLEAN, listening : BOOLEAN]
    /\ \A t \in Threads : pc[t].step \in Steps /\ ret[t].rc \in Codes
    /\ ub \subseteq {"client_freed", "server_freed", "web_app_freed"}

\* No call dereferences a g_client that hestia_finish (or a second
\* hestia_initialize) reset between the call's check_initialized and its
\* use of the client.
NoClientUseAfterFree == "client_freed" \notin ub

\* No step of hestia_start_server runs on a HestiaServer that was destroyed
\* after make_unique: neither g_server->initialize, g_server->run, nor
\* run's wait_until_bound or, with a blocking launch, its m_server.reset()
\* once start() returns, while hestia_stop_server (or another start) on
\* another thread resets or replaces g_server.
NoServerUseAfterFree == "server_freed" \notin ub

\* Every request the HTTP server serves reaches a live web app.
NoDanglingWebApp == "web_app_freed" \notin ub

=============================================================================
