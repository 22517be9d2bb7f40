----------------------------- MODULE McpClient -----------------------------
(***************************************************************************)
(* MCP servers (src/mcp/mcp_client.c, src/mcp/mcp_stdio.c, src/mcp/        *)
(* mcp_http.c, src/runtime/mcp.c, src/runtime/mcp_service.c): one client,  *)
(* used by the threads of tool calls, which connect it when they need it,  *)
(* and by the owner of the runtime, who discovers what it offers and       *)
(* disconnects it.                                                         *)
(*                                                                         *)
(* A stdio server is a child process with two pipes.  An answer carries    *)
(* the id of its request, which the client does not look at: it takes the  *)
(* next line.  A line is the number of the request it answers, or 0 for    *)
(* anything the server says unasked.  Over HTTP the answer is the body of  *)
(* the POST, so that only the connection matters.                          *)
(***************************************************************************)
EXTENDS Integers, Sequences, FiniteSets

CONSTANTS
  Threads,      \* the threads of tool calls
  Http,         \* the transport is HTTP
  MaxForks,     \* bound on the connections made
  MaxFaults,    \* bound on the lines servers send unasked and on their exits
  MaxCalls,     \* bound on the calls of a thread
  MaxRequests   \* bound on the requests made

VARIABLES
  connected, connecting,
  lock,         \* client->lock: "", or the thread that has it
  child,        \* the connection the client has: its number, or 0
  alive,        \* the servers that run (the sessions that exist)
  forked,       \* connections made
  ready,        \* connections whose initialize was answered
  inbox, outbox,\* connection -> requests to be answered, lines to be read
  next_req_id,
  registered,   \* what was discovered: subset of Kinds
  thread,       \* thread -> what it does
  stray,        \* history: connections that timed out or spoke unasked
  dropped,      \* history: connections whose initialize failed
  faults,       \* the ones so far
  raced         \* history: a thread went on beside a connect or a disconnect

Kinds == {"tools", "resources", "prompts"}
Owner == "owner"
All == Threads \cup {Owner}
Connections == 1..MaxForks

vars == <<connected, connecting, lock, child, alive, forked, ready, inbox, outbox, next_req_id,
          registered, thread, stray, dropped, faults, raced>>
link == <<connected, connecting, child, alive, forked, ready, registered>>
wire == <<inbox, outbox, next_req_id>>
past == <<stray, dropped, faults, raced>>

\* todo: the requests of the job still to be made; conn: the connection asked; got: the
\* line that was taken for the answer, -1 for none.
Idle == [pc |-> "idle", todo |-> <<>>, id |-> 0, conn |-> 0, got |-> -1, left |-> 0]

Init ==
  /\ connected = FALSE /\ connecting = FALSE /\ lock = "" /\ child = 0
  /\ alive = {} /\ forked = 0 /\ ready = {} /\ next_req_id = 1 /\ registered = {}
  /\ inbox = [k \in Connections |-> <<>>] /\ outbox = [k \in Connections |-> <<>>]
  /\ thread = [t \in All |-> [Idle EXCEPT !.left = MaxCalls]]
  /\ stray = {} /\ dropped = {} /\ faults = 0 /\ raced = FALSE

At(t, pc) == thread[t].pc = pc
Goes(t, pc) == thread' = [thread EXCEPT ![t].pc = pc]

\* A job is over.
Returned(t) == [Idle EXCEPT !.left = thread[t].left]

\* The next request of the job, or the end of it.
Following(t) == IF Len(thread[t].todo) > 1
                THEN [Returned(t) EXCEPT !.pc = "ensure", !.todo = Tail(thread[t].todo)]
                ELSE Returned(t)

----------------------------------------------------------------------------
(* Jobs. *)

\* A tool call makes one request.
Job(t, request) ==
  /\ At(t, "idle") /\ thread[t].left > 0 /\ t # Owner
  /\ thread' = [thread EXCEPT ![t].pc = "ensure", ![t].todo = <<request>>, ![t].left = @ - 1,
                              ![t].got = -1]
  /\ UNCHANGED <<link, wire, lock, past>>

mcp_tool_exec(t) == Job(t, "call")
mcp_resource_exec(t) == Job(t, "read")
mcp_prompt_exec(t) == Job(t, "get")

\* runtime_mcp_client_discover: the three lists, each after mcp_ensure_connected; one that
\* fails does not stop the next.
runtime_mcp_client_discover ==
  /\ At(Owner, "idle") /\ thread[Owner].left > 0
  /\ thread' = [thread EXCEPT ![Owner].pc = "ensure", ![Owner].left = @ - 1, ![Owner].got = -1,
                              ![Owner].todo = <<"tools", "resources", "prompts">>]
  /\ UNCHANGED <<link, wire, lock, past>>

\* mcp_disconnect takes no lock: the pipes are closed, the server is killed and reaped.
mcp_disconnect ==
  /\ At(Owner, "idle") /\ child # 0
  /\ alive' = alive \ {child} /\ child' = 0 /\ connected' = FALSE
  /\ raced' = (raced \/ connecting \/ lock # "" \/ \E t \in Threads : ~At(t, "idle"))
  /\ UNCHANGED <<connecting, forked, ready, registered, wire, lock, thread, stray, dropped, faults>>

----------------------------------------------------------------------------
(* mcp_ensure_connected. *)

EnsureChecks(t) ==
  /\ At(t, "ensure") /\ lock = ""
  /\ IF connected \/ connecting THEN Goes(t, "decide") /\ UNCHANGED connecting
     ELSE connecting' = TRUE /\ Goes(t, "connect")
  /\ UNCHANGED <<connected, child, alive, forked, ready, registered, wire, lock, past>>

\* "connecting" is read again without the lock: 0 goes on, and the connect that was
\* waited for may have failed.
EnsureDecides(t) ==
  /\ At(t, "decide")
  /\ IF connecting THEN thread' = [thread EXCEPT ![t] = Following(t)] /\ UNCHANGED raced
     ELSE Goes(t, "request") /\ raced' = (raced \/ ~connected)
  /\ UNCHANGED <<link, wire, lock, stray, dropped, faults>>

\* mcp_stdio_connect: a child and its pipes.  mcp_http_connect: a session.
Connect(t) ==
  /\ At(t, "connect")
  /\ \/ /\ forked < MaxForks /\ forked' = forked + 1 /\ child' = forked + 1
        /\ alive' = alive \cup {forked + 1}
        /\ Goes(t, "initialize")
        /\ UNCHANGED <<connected, connecting, ready, registered>>
     \/ Goes(t, "failed") /\ UNCHANGED link
  /\ UNCHANGED <<wire, lock, past>>

\* The answer to initialize was read (or was not), and its capabilities are noted; the
\* child of a failed one is left to itself.
Initialized(t) ==
  /\ At(t, "initialized")
  /\ IF thread[t].got >= 0
     THEN /\ ready' = ready \cup {thread[t].conn} /\ connected' = TRUE /\ Goes(t, "connected")
          /\ UNCHANGED dropped
     ELSE /\ dropped' = dropped \cup {thread[t].conn} /\ Goes(t, "failed")
          /\ UNCHANGED <<ready, connected>>
  /\ UNCHANGED <<connecting, child, alive, forked, registered, wire, lock, stray, faults, raced>>

\* The flags are set under the lock.
EnsureEnds(t) ==
  /\ thread[t].pc \in {"connected", "failed"} /\ lock = ""
  /\ connecting' = FALSE /\ connected' = (connected \/ At(t, "connected"))
  /\ IF At(t, "connected") THEN Goes(t, "request") ELSE thread' = [thread EXCEPT ![t] = Following(t)]
  /\ UNCHANGED <<child, alive, forked, ready, registered, wire, lock, past>>

----------------------------------------------------------------------------
(* A request: mcp_stdio_request, mcp_http_request. *)

\* Mutant: a request is sent and read without the lock.
Sends_unlocked(t) ==
  /\ thread[t].pc \in {"request", "initialize"} /\ next_req_id <= MaxRequests
  /\ next_req_id' = next_req_id + 1
  /\ UNCHANGED lock
  /\ IF child \in alive
     THEN /\ inbox' = [inbox EXCEPT ![child] = Append(@, next_req_id)]
          /\ thread' = [thread EXCEPT ![t].pc = IF @ = "request" THEN "read" ELSE "hello",
                                      ![t].id = next_req_id, ![t].conn = child, ![t].got = -1]
     ELSE /\ thread' = [thread EXCEPT ![t].pc = IF @ = "request" THEN "answered" ELSE "initialized",
                                      ![t].conn = child, ![t].got = -1]
          /\ UNCHANGED inbox
  /\ UNCHANGED <<link, outbox, past>>

\* The lock is taken and the request written; a closed pipe or a dead server fails it.
Sends(t) ==
  /\ thread[t].pc \in {"request", "initialize"} /\ lock = "" /\ next_req_id <= MaxRequests
  /\ next_req_id' = next_req_id + 1
  /\ IF child \in alive
     THEN /\ inbox' = [inbox EXCEPT ![child] = Append(@, next_req_id)]
          /\ lock' = t
          /\ thread' = [thread EXCEPT ![t].pc = IF @ = "request" THEN "read" ELSE "hello",
                                      ![t].id = next_req_id, ![t].conn = child, ![t].got = -1]
     ELSE /\ thread' = [thread EXCEPT ![t].pc = IF @ = "request" THEN "answered" ELSE "initialized",
                                      ![t].conn = child, ![t].got = -1]
          /\ UNCHANGED <<inbox, lock>>
  /\ UNCHANGED <<link, outbox, past>>

Reading(t) == thread[t].pc \in {"read", "hello"}
Took(t, line) ==
  /\ thread' = [thread EXCEPT ![t].pc = IF @ = "read" THEN "answered" ELSE "initialized",
                              ![t].got = line]
  /\ lock' = IF lock = t THEN "" ELSE lock

\* mcp_stdio_recv takes the first line of what it has read and drops the rest of it.
\* Over HTTP the body is the answer to the request of the thread.
Reads(t) ==
  LET k == thread[t].conn IN
  /\ Reading(t) /\ child = k /\ outbox[k] # <<>>
  /\ IF Http
     THEN /\ \E i \in DOMAIN outbox[k] : outbox[k][i] = thread[t].id
          /\ Took(t, thread[t].id)
          /\ outbox' = [outbox EXCEPT ![k] = SelectSeq(@, LAMBDA l : l # thread[t].id)]
     ELSE \E n \in 1..Len(outbox[k]) :
            /\ outbox' = [outbox EXCEPT ![k] = SubSeq(@, n + 1, Len(@))]
            /\ Took(t, Head(outbox[k]))
  /\ UNCHANGED <<link, inbox, next_req_id, past>>

\* No line in time, or the pipe is closed, or the server has exited: the client stays
\* connected, and an answer may still come.
ReadFails(t) ==
  LET k == thread[t].conn IN
  /\ Reading(t) /\ (outbox[k] = <<>> \/ child # k)
  /\ Took(t, -1)
  /\ stray' = stray \cup {k}
  /\ UNCHANGED <<link, wire, dropped, faults, raced>>

\* The request is over; what a list held becomes tools, once each.
Answered(t, request) ==
  /\ At(t, "answered") /\ Head(thread[t].todo) = request
  /\ registered' = IF thread[t].got >= 0 /\ request \in Kinds
                   THEN registered \cup {request} ELSE registered
  /\ thread' = [thread EXCEPT ![t] = Following(t)]
  /\ UNCHANGED <<connected, connecting, child, alive, forked, ready, wire, lock, past>>

mcp_call_tool(t) == Answered(t, "call")
mcp_read_resource(t) == Answered(t, "read")
mcp_get_prompt(t) == Answered(t, "get")
mcp_list_tools(t) == Answered(t, "tools")
mcp_list_resources(t) == Answered(t, "resources")
mcp_list_prompts(t) == Answered(t, "prompts")
mcp_register_server_tools(t) == mcp_list_tools(t)
mcp_register_server_resources(t) == mcp_list_resources(t)
mcp_register_server_prompts(t) == mcp_list_prompts(t)

----------------------------------------------------------------------------
(* A server. *)

Answers(k) ==
  /\ k \in alive /\ inbox[k] # <<>>
  /\ outbox' = [outbox EXCEPT ![k] = Append(@, Head(inbox[k]))]
  /\ inbox' = [inbox EXCEPT ![k] = Tail(@)]
  /\ UNCHANGED <<link, next_req_id, lock, thread, past>>

Speaks(k) ==
  /\ k \in alive /\ ~Http /\ faults < MaxFaults /\ faults' = faults + 1
  /\ outbox' = [outbox EXCEPT ![k] = Append(@, 0)] /\ stray' = stray \cup {k}
  /\ UNCHANGED <<link, inbox, next_req_id, lock, thread, dropped, raced>>

Exits(k) ==
  /\ k \in alive /\ alive' = alive \ {k} /\ faults < MaxFaults /\ faults' = faults + 1
  /\ UNCHANGED <<connected, connecting, child, forked, ready, registered, wire, lock, thread,
                 stray, dropped, raced>>

ThreadStep(t) ==
  \/ EnsureChecks(t) \/ EnsureDecides(t) \/ Connect(t) \/ Initialized(t) \/ EnsureEnds(t)
  \/ Sends(t) \/ Reads(t) \/ ReadFails(t)
  \/ mcp_call_tool(t) \/ mcp_read_resource(t) \/ mcp_get_prompt(t)
  \/ mcp_register_server_tools(t) \/ mcp_register_server_resources(t)
  \/ mcp_register_server_prompts(t)

Next ==
  \/ \E t \in Threads : mcp_tool_exec(t) \/ mcp_resource_exec(t) \/ mcp_prompt_exec(t)
  \/ runtime_mcp_client_discover \/ mcp_disconnect
  \/ \E t \in All : ThreadStep(t)
  \/ \E k \in Connections : Answers(k) \/ Speaks(k) \/ Exits(k)

Spec == Init /\ [][Next]_vars
----------------------------------------------------------------------------
\* Pairing: although ids are not compared, the line a request takes is its own answer,
\* as long as the connection neither timed out before nor spoke unasked; and a tool is
\* called only on a connection that was initialized, unless the thread went on beside a
\* connect that failed or a disconnect.
AnswersMatch ==
  \A t \in All :
    /\ thread[t].got >= 0 /\ thread[t].conn \notin stray => thread[t].got = thread[t].id
    /\ At(t, "read") /\ ~raced => thread[t].conn \in ready

\* Servers: however threads connect at once, a server that runs is the one the client has
\* and will disconnect, or one whose initialize failed and that was forgotten.
ServersAccounted ==
  ~raced => alive \subseteq {child} \cup dropped
============================================================================
