------------------------------ MODULE ModelCall ------------------------------
(***************************************************************************)
(* A call of the language model: models/llm/llm.c (requests, retries and   *)
(* the assembly of a streamed response), http/sse.c (the event stream),    *)
(* http/client.c (the transfer and its cancellation) and the part of       *)
(* agent/react.c that shows the stream and replays the answer in the next  *)
(* request.                                                                *)
(*                                                                         *)
(* The server answers an attempt with a status and a script of events; the *)
(* bytes of an event are three units (the beginning of its line, the rest  *)
(* with the newline, the blank line), and the transfer cuts them anywhere. *)
(* A text is a sequence of tokens; "h1" "h2" are the halves of a character *)
(* and <<"in{", ..., "}">> is a JSON object with the field "input".        *)
(***************************************************************************)
EXTENDS Integers, Sequences, SequencesExt, FiniteSets

CONSTANTS
    Scripts,      \* adapter -> the event streams a server may send
    Statuses,     \* the HTTP statuses tried
    RetryCount,   \* model->retry_count
    MaxRounds     \* requests of a turn

VARIABLES
    request,      \* "chat", "image", "tools" or "generate"
    adapter,      \* "chat", "deepseek" or "responses"
    extra,        \* extra_body_json: "none", "fields" or "reserved"
    phase,        \* the step of the call
    attempt,      \* attempts made
    answered,     \* [status, script]: the server's answer to this attempt
    wire,         \* units still to arrive
    parser,       \* struct sse_parser: [buf, data]
    stream,       \* struct llm_stream_ctx: [content, reasoning, calls, emitted, usage]
    view,         \* struct react_stream_data: [acc, shown]
    result,       \* what the call returned
    response,     \* struct chat_response
    reports,      \* usage reports of the call, by source
    messages,     \* the conversation
    body,         \* the items of the request
    cancelled,    \* http_cancelled()
    rounds        \* requests made

callVars == <<request, adapter, extra, phase, attempt, answered, wire, parser, stream,
              view, result, response, reports, messages, body, cancelled, rounds>>

Empty == [content |-> <<>>, reasoning |-> <<>>, calls |-> <<>>]
Fresh == [content |-> <<>>, reasoning |-> <<>>, calls |-> <<>>, emitted |-> FALSE,
          usage |-> "none"]
NewParser == [buf |-> <<>>, data |-> <<>>]
NewView == [acc |-> <<>>, shown |-> <<>>, thought |-> <<>>]
NoAnswer == [status |-> 0, script |-> <<>>]
User == [role |-> "user", calls |-> <<>>, of |-> "", reasoning |-> <<>>]

CallInit ==
    /\ request \in {"chat", "image", "tools", "generate"}
    /\ adapter \in DOMAIN Scripts
    /\ extra \in {"none", "fields", "reserved"}
    /\ phase = "idle" /\ attempt = 0 /\ answered = NoAnswer /\ wire = <<>>
    /\ parser = NewParser /\ stream = Fresh /\ view = NewView
    /\ result = "none" /\ response = Empty /\ reports = <<>>
    /\ messages = <<User>> /\ body = <<>> /\ cancelled = FALSE /\ rounds = 0

-----------------------------------------------------------------------------
(* Tools, arguments and the request's items.                               *)

InputKind(name) == IF name = "apply_patch" THEN "text" ELSE "json"

Object == <<"{", "}">>
HasInput(args) == Len(args) >= 2 /\ args[1] = "in{" /\ args[Len(args)] = "}"
Parses(args) == args = Object \/ HasInput(args)

(* {"input": ...} *)
build_text_tool_arguments_json(args) == <<"in{">> \o args \o <<"}">>

agent_history_normalize_tool_arguments(args) ==
    IF Parses(args) THEN args ELSE Object

Item(type, id, args, reasoning) ==
    [type |-> type, id |-> id, args |-> args, reasoning |-> reasoning]

(* Texts of a plain request alternate between the two sides. *)
build_simple_messages_cjson(n) ==
    [i \in 1..n |-> Item(IF i % 2 = 1 THEN "user" ELSE "assistant", "", <<>>, <<>>)]

(* Chat completions: every call is a function call with JSON arguments. *)
build_structured_messages_cjson(ms) ==
    LET Calls(m) ==
          [j \in DOMAIN m.calls |->
             LET c == m.calls[j]
             IN Item("function_call", c.id,
                     IF c.kind = "text" THEN build_text_tool_arguments_json(c.args)
                     ELSE c.args,
                     IF adapter = "deepseek" THEN m.reasoning ELSE <<>>)]
        Items(m) ==
          CASE m.calls # <<>>  -> Calls(m)
            [] m.role = "tool" -> <<Item("function_call_output", m.of, <<>>, <<>>)>>
            [] OTHER           -> <<Item(m.role, "", <<>>, <<>>)>>
    IN FlattenSeq([i \in DOMAIN ms |-> Items(ms[i])])

(* The kind of the latest call before a message that has the id. *)
responses_call_kind(ms, before, id) ==
    LET found == {<<i, j>> \in (1..(before - 1)) \X (1..4) :
                    j \in DOMAIN ms[i].calls /\ ms[i].calls[j].id = id}
        last  == CHOOSE p \in found : \A q \in found : q[1] <= p[1]
    IN IF found = {} THEN "json" ELSE ms[last[1]].calls[last[2]].kind

(* Responses: calls and outputs are items of their own, custom for text.   *)
build_responses_input_cjson(ms) ==
    LET Call(c) == Item(IF c.kind = "text" THEN "custom_tool_call" ELSE "function_call",
                        c.id, c.args, <<>>)
        Output(i) == Item(IF responses_call_kind(ms, i, ms[i].of) = "text"
                          THEN "custom_tool_call_output" ELSE "function_call_output",
                          ms[i].of, <<>>, <<>>)
        Items(i) ==
          CASE ms[i].calls # <<>> -> [j \in DOMAIN ms[i].calls |-> Call(ms[i].calls[j])]
            [] ms[i].of # "" -> <<Output(i)>>
            [] OTHER -> <<Item(ms[i].role, "", <<>>, <<>>)>>
    IN FlattenSeq([i \in DOMAIN ms |-> Items(i)])

(* Fields of the configuration are added to the body; a reserved one, or   *)
(* no JSON object, refuses the request.                                    *)
add_extra_body_json == extra # "reserved"

-----------------------------------------------------------------------------
(* The response as its events arrive.  "st" carries what a chunk changes:  *)
(* the parser, the stream, the view and the return code.                   *)

NoCall == [id |-> "", name |-> "", kind |-> "json", args |-> <<>>, given |-> FALSE]

(* Room for the call with this number (from 1). *)
llm_stream_ensure_tool_call(calls, n) ==
    [i \in 1..(IF n > Len(calls) THEN n ELSE Len(calls)) |->
        IF i <= Len(calls) THEN calls[i] ELSE NoCall]

(* The longest beginning that ends with a whole character. *)
react_utf8_safe_len(text) ==
    IF text # <<>> /\ text[Len(text)] = "h1" THEN Len(text) - 1 ELSE Len(text)

(* What is new and whole is shown as a thought. *)
react_stream_parse_emit(v) == [v EXCEPT !.shown = SubSeq(v.acc, 1, react_utf8_safe_len(v.acc))]

(* The callback of a turn keeps the text, stops a cancelled turn, and      *)
(* shows the rest; the others collect the text.                            *)
react_stream_cb(st, token) ==
    LET kept == [st EXCEPT !.view.acc = Append(@, token)]
    IN IF cancelled THEN [kept EXCEPT !.rc = "eintr"]
       ELSE [kept EXCEPT !.view = react_stream_parse_emit(@)]

react_typed_stream_cb(st, kind, token) ==
    IF kind = "content" THEN react_stream_cb(st, token)
    ELSE IF cancelled THEN [st EXCEPT !.rc = "eintr"]
    ELSE [st EXCEPT !.view.thought = Append(@, token)]

llm_stream_emit(st, kind, token) ==
    LET out == [st EXCEPT !.stream.emitted = TRUE]
    IN CASE request = "tools"     -> react_typed_stream_cb(out, kind, token)
         [] kind = "content" -> [out EXCEPT !.view.acc = Append(@, token)]
         [] OTHER            -> out

(* The provider's own count. *)
llm_stream_parse_usage(s) == [s EXCEPT !.usage = "provider"]

(* Pieces of a call, by its number: the id and the name when given, the    *)
(* arguments appended.                                                     *)
CallPiece(calls, e) ==
    LET room == llm_stream_ensure_tool_call(calls, e.index)
    IN [room EXCEPT ![e.index] =
          [@ EXCEPT !.id   = IF e.id # "" THEN e.id ELSE @,
                    !.name = IF e.name # "" THEN e.name ELSE @,
                    !.args = @ \o e.args]]

(* An event of chat completions.  What does not parse is left out.         *)
llm_sse_event_cb(st, e) ==
    CASE e.k = "content"   -> llm_stream_emit([st EXCEPT !.stream.content = Append(@, e.t)],
                                              "content", e.t)
      [] e.k = "reasoning" -> llm_stream_emit([st EXCEPT !.stream.reasoning = Append(@, e.t)],
                                              "reasoning", e.t)
      [] e.k = "call"      -> [st EXCEPT !.stream.calls = CallPiece(@, e)]
      [] e.k = "usage"     -> [st EXCEPT !.stream = llm_stream_parse_usage(@)]
      [] OTHER             -> st

(* The number of the call an item belongs to: the one with its id, else    *)
(* the last one; 0 when there is none.                                     *)
responses_find_tool_call(calls, id) ==
    LET same == {i \in DOMAIN calls : calls[i].id = id}
    IN IF same # {} THEN CHOOSE i \in same : \A j \in same : i <= j ELSE Len(calls)

responses_append_call_input(calls, n, args) ==
    IF n = 0 THEN calls ELSE [calls EXCEPT ![n].args = @ \o args, ![n].given = TRUE]

(* An item added or done: a done one takes the id its output refers to,    *)
(* and its input when none arrived in pieces.                              *)
responses_parse_output_item(calls, e, complete) ==
    LET found == responses_find_tool_call(calls, e.id)
        new   == found = 0 \/ (calls[found].id # "" /\ calls[found].id # e.id)
        n     == IF new THEN Len(calls) + 1 ELSE found
        room  == llm_stream_ensure_tool_call(calls, n)
    IN [room EXCEPT ![n] =
          [@ EXCEPT !.id    = IF complete THEN e.call ELSE e.id,
                    !.name  = e.name,
                    !.kind  = IF e.custom THEN "text" ELSE "json",
                    !.args  = IF complete /\ ~room[n].given THEN e.args ELSE @,
                    !.given = @ \/ complete]]

(* An event of the Responses interface. *)
llm_responses_sse_event_cb(st, e) ==
    CASE e.k = "content"   -> llm_stream_emit([st EXCEPT !.stream.content = Append(@, e.t)],
                                              "content", e.t)
      [] e.k = "reasoning" -> llm_stream_emit(st, "reasoning", e.t)
      [] e.k \in {"added", "done"} ->
           [st EXCEPT !.stream.calls = responses_parse_output_item(@, e, e.k = "done")]
      [] e.k = "delta"     ->
           [st EXCEPT !.stream.calls =
              responses_append_call_input(@, responses_find_tool_call(@, e.id), e.args)]
      [] e.k = "usage"     -> [st EXCEPT !.stream = llm_stream_parse_usage(@)]
      [] OTHER             -> st

(* A blank line hands the event over; the rest of the chunk waits for a    *)
(* callback that fails.                                                    *)
sse_dispatch(st) ==
    LET reset == [st EXCEPT !.parser.data = <<>>]
    IN IF st.parser.data = <<>> THEN reset
       ELSE IF request = "tools" /\ adapter = "responses"
       THEN llm_responses_sse_event_cb(reset, st.parser.data[1])
       ELSE llm_sse_event_cb(reset, st.parser.data[1])

(* One unit: a line is processed when its newline is there. *)
process_buffer(st, u) ==
    CASE st.rc # "ok"   -> st
      [] u.u = "head"   -> [st EXCEPT !.parser.buf = <<u>>]
      [] u.u = "tail"   -> [st EXCEPT !.parser.buf = <<>>,
                                      !.parser.data = IF st.parser.buf = <<>> THEN @
                                                      ELSE Append(@, u.e)]
      [] u.u = "blank"  -> sse_dispatch(st)
      [] OTHER          -> st

(* A parser that starts each chunk with an empty buffer. *)
sse_parser_feed_unbuffered(st, chunk) ==
    FoldLeft(process_buffer, [st EXCEPT !.parser.buf = <<>>], chunk)
sse_parser_feed(st, chunk) == FoldLeft(process_buffer, st, chunk)

Units(script) ==
    FlattenSeq([i \in DOMAIN script |->
        LET e == script[i]
        IN IF e.k = "comment" THEN <<[u |-> "comment", e |-> e]>>
           ELSE <<[u |-> "head", e |-> e], [u |-> "tail", e |-> e],
                  [u |-> "blank", e |-> e]>>])

-----------------------------------------------------------------------------
(* The call.                                                               *)

Returns(r) == phase' = "returned" /\ result' = r

(* The request is ready for its first attempt. *)
Sends(items) ==
    /\ phase' = "send" /\ attempt' = 0 /\ body' = items /\ rounds' = rounds + 1
    /\ result' = "none" /\ view' = NewView /\ reports' = <<>>
    /\ UNCHANGED <<request, adapter, extra, answered, wire, parser, stream, response,
                   messages, cancelled>>

Refuses(r) ==
    /\ Returns(r)
    /\ UNCHANGED <<request, adapter, extra, attempt, answered, wire, parser, stream, view,
                   response, reports, messages, body, cancelled, rounds>>

(* Text in, text out: no model key or a bad configuration refuses. *)
llm_chat ==
    /\ phase = "idle" /\ request = "chat"
    /\ \/ Refuses("not configured")
       \/ ~add_extra_body_json /\ Refuses("config")
       \/ add_extra_body_json /\ Sends(build_simple_messages_cjson(1))

(* The same with an image, which must be readable. *)
llm_chat_with_image ==
    /\ phase = "idle" /\ request = "image"
    /\ \/ Refuses("not configured") \/ Refuses("unreadable")
       \/ ~add_extra_body_json /\ Refuses("config")
       \/ add_extra_body_json /\ Sends(build_simple_messages_cjson(1))

llm_chat_with_tools_impl ==
    /\ phase = "idle" /\ request = "tools" /\ adapter # "responses"
    /\ \/ ~add_extra_body_json /\ Refuses("config")
       \/ add_extra_body_json /\ Sends(build_structured_messages_cjson(messages))

llm_responses_with_tools_impl ==
    /\ phase = "idle" /\ request = "tools" /\ adapter = "responses"
    /\ \/ ~add_extra_body_json /\ Refuses("config")
       \/ add_extra_body_json /\ Sends(build_responses_input_cjson(messages))

(* The outcomes of a request that is not a stream: a status, or no answer. *)
do_request == {"ok", "api", "timeout", "network", "cancelled"}

(* One plain request, whose body is written to a file. *)
llm_generate ==
    /\ phase = "idle" /\ request = "generate"
    /\ \/ ~add_extra_body_json /\ Refuses("config")
       \/ add_extra_body_json /\ \E r \in do_request \cup {"unwritten"} : Refuses(r)

(* An attempt: a new stream and parser, and the server's answer. *)
do_sse_request ==
    /\ phase = "send"
    /\ \E st \in Statuses, sc \in Scripts[IF request = "tools" THEN adapter ELSE "chat"] :
         /\ answered' = [status |-> st, script |-> sc]
         /\ wire' = Units(sc)
    /\ phase' = "stream" /\ attempt' = attempt + 1
    /\ stream' = Fresh /\ parser' = NewParser
    /\ UNCHANGED <<request, adapter, extra, view, result, response, reports, messages, body,
                   cancelled, rounds>>

(* The transfer ends with this code. *)
Ended(r) ==
    /\ phase' = "answered" /\ result' = r
    /\ UNCHANGED <<request, adapter, extra, attempt, answered, response, reports, messages,
                   body, cancelled, rounds>>

(* A chunk arrives: a cancelled transfer takes no more, and a callback     *)
(* that fails ends it with its code.                                       *)
sse_write_cb ==
    /\ phase = "stream" /\ wire # <<>>
    /\ \E n \in 1..(IF Len(wire) < 4 THEN Len(wire) ELSE 4) :
        LET st == sse_parser_feed([parser |-> parser, stream |-> stream, view |-> view,
                                   rc |-> "ok"], SubSeq(wire, 1, n))
        IN IF cancelled THEN Ended("cancelled") /\ UNCHANGED <<wire, parser, stream, view>>
           ELSE /\ wire' = SubSeq(wire, n + 1, Len(wire))
                /\ parser' = st.parser /\ stream' = st.stream /\ view' = st.view
                /\ IF st.rc # "ok" THEN Ended(st.rc)
                   ELSE UNCHANGED <<request, adapter, extra, phase, attempt, answered, result,
                                    response, reports, messages, body, cancelled, rounds>>

(* The server may close before it has sent everything. *)
StreamEnds ==
    /\ phase = "stream"
    /\ Ended(IF answered.status >= 400 THEN "api" ELSE "ok")
    /\ UNCHANGED <<wire, parser, stream, view>>

(* A reset, a silence longer than the idle timeout, or the progress        *)
(* callback of a cancelled transfer.                                       *)
sse_map_curl_error ==
    /\ phase = "stream"
    /\ \E r \in {"timeout", "network"} : Ended(IF cancelled THEN "cancelled" ELSE r)
    /\ UNCHANGED <<wire, parser, stream, view>>

llm_retryable_status(st) == st \in {408, 429, 500, 502, 503, 504}
llm_stream_started == stream.emitted \/ stream.content # <<>> \/ stream.calls # <<>>

Again == result = "api" /\ llm_retryable_status(answered.status)
         /\ attempt <= RetryCount

Retries == Again /\ ~llm_stream_started

(* The attempt's result: another one after a wait, or the call returns.    *)
llm_post_sse_with_retry ==
    /\ phase = "answered"
    /\ phase' = IF Retries THEN "wait" ELSE "report"
    /\ UNCHANGED <<request, adapter, extra, attempt, answered, wire, parser, stream, view,
                   result, response, reports, messages, body, cancelled, rounds>>

http_wait_cancelable ==
    /\ phase = "wait"
    /\ IF cancelled THEN Returns("cancelled") ELSE phase' = "send" /\ UNCHANGED result
    /\ UNCHANGED <<request, adapter, extra, attempt, answered, wire, parser, stream, view,
                   response, reports, messages, body, cancelled, rounds>>

llm_stream_transfer_tool_calls ==
    [i \in DOMAIN stream.calls |->
        [f \in {"id", "name", "kind", "args"} |-> stream.calls[i][f]]]

(* What the provider counted, else an estimate from the sizes. *)
llm_usage_finalize == IF stream.usage = "none" THEN "estimated" ELSE stream.usage

(* A response for the caller, with its usage, or the error. *)
llm_usage_report ==
    /\ phase = "report"
    /\ phase' = "returned"
    /\ reports' = IF result = "ok" THEN Append(reports, llm_usage_finalize) ELSE reports
    /\ response' = IF result # "ok" \/ request # "tools" THEN Empty
                   ELSE [content |-> stream.content,
                         reasoning |-> IF adapter = "deepseek" THEN stream.reasoning ELSE <<>>,
                         calls |-> llm_stream_transfer_tool_calls]
    /\ UNCHANGED <<request, adapter, extra, attempt, answered, wire, parser, stream, view,
                   result, messages, body, cancelled, rounds>>

-----------------------------------------------------------------------------
(* The turn: what is left of the stream is shown, the calls get ids and    *)
(* inputs of their tool's kind, and with their results they go into the    *)
(* next request.                                                           *)

react_prepare_tool_call_ids(calls) ==
    [i \in DOMAIN calls |->
        IF calls[i].id # "" THEN calls[i]
        ELSE [calls[i] EXCEPT !.id = "pc" \o ToString(10 * rounds + i)]]

react_normalize_tool_inputs(calls) ==
    [i \in DOMAIN calls |->
        LET c == calls[i]
        IN CASE InputKind(c.name) = "json" -> [c EXCEPT !.kind = "json"]
             [] c.kind = "text"            -> c
             [] HasInput(c.args) -> [c EXCEPT !.kind = "text",
                                              !.args = SubSeq(c.args, 2, Len(c.args) - 1)]
             [] OTHER            -> [c EXCEPT !.kind = "text"]]

react_append_assistant_tool_call_message(calls) ==
    [role |-> "assistant", of |-> "", reasoning |-> response.reasoning,
     calls |-> [i \in DOMAIN calls |->
                  IF calls[i].kind = "text" THEN calls[i]
                  ELSE [calls[i] EXCEPT !.args = agent_history_normalize_tool_arguments(@)]]]

react_append_tool_message(id) ==
    [role |-> "tool", of |-> id, calls |-> <<>>, reasoning |-> <<>>]

react_chat_once ==
    /\ phase = "returned"
    /\ LET calls == react_normalize_tool_inputs(react_prepare_tool_call_ids(response.calls))
       IN IF result = "ok" /\ ~cancelled /\ calls # <<>> /\ rounds < MaxRounds
          THEN /\ phase' = "idle"
               /\ messages' = messages
                    \o <<react_append_assistant_tool_call_message(calls)>>
                    \o [i \in DOMAIN calls |-> react_append_tool_message(calls[i].id)]
          ELSE phase' = "end" /\ UNCHANGED messages
    /\ UNCHANGED <<request, adapter, extra, attempt, answered, wire, parser, stream, view,
                   result, response, reports, body, cancelled, rounds>>

(* A signal, the cancel token, or a prompt typed meanwhile. *)
Cancels ==
    /\ ~cancelled /\ phase \in {"send", "stream", "answered", "wait", "report"}
    /\ cancelled' = TRUE
    /\ UNCHANGED <<request, adapter, extra, phase, attempt, answered, wire, parser, stream, view,
                   result, response, reports, messages, body, rounds>>

CallNext ==
    \/ llm_chat \/ llm_chat_with_image \/ llm_chat_with_tools_impl
    \/ llm_responses_with_tools_impl \/ llm_generate
    \/ do_sse_request \/ sse_write_cb \/ StreamEnds \/ sse_map_curl_error
    \/ llm_post_sse_with_retry \/ http_wait_cancelable \/ llm_usage_report
    \/ react_chat_once \/ Cancels

-----------------------------------------------------------------------------
(* What was sent, and what was meant by it.                                *)

Delivered ==
    LET got == Len(Units(answered.script)) - Len(wire)
        n   == CHOOSE k \in 0..Len(answered.script) :
                 /\ Len(Units(SubSeq(answered.script, 1, k))) <= got
                 /\ k < Len(answered.script) =>
                      Len(Units(SubSeq(answered.script, 1, k + 1))) > got
    IN SubSeq(answered.script, 1, n)

Of(es, Test(_)) == SelectSeq(es, Test)
TextOf(es) == LET t == Of(es, LAMBDA e : e.k = "content") IN [i \in DOMAIN t |-> t[i].t]
ArgsOf(es) == FlattenSeq([i \in DOMAIN es |-> es[i].args])

(* The calls of a chat stream are numbered; those of a Responses stream    *)
(* are its items, in order of appearance.                                  *)
CallsMeant(es) ==
    IF adapter # "responses"
    THEN LET pieces == Of(es, LAMBDA e : e.k = "call")
             top    == Cardinality({pieces[i].index : i \in DOMAIN pieces})
         IN [n \in 1..top |->
               LET own == Of(pieces, LAMBDA e : e.index = n)
               IN [id |-> own[1].id, args |-> ArgsOf(own)]]
    ELSE LET of    == Of(es, LAMBDA e : e.k \in {"added", "delta", "done"})
             first == {i \in DOMAIN of : \A j \in 1..(i - 1) : of[j].id # of[i].id}
         IN [n \in 1..Cardinality(first) |->
               LET f     == CHOOSE i \in first : Cardinality({j \in first : j <= i}) = n
                   own   == Of(of, LAMBDA e : e.id = of[f].id)
                   delta == Of(own, LAMBDA e : e.k = "delta")
                   done  == Of(own, LAMBDA e : e.k = "done")
               IN [id |-> IF done # <<>> THEN done[1].call ELSE of[f].id,
                   args |-> IF delta # <<>> THEN ArgsOf(delta) ELSE ArgsOf(done)]]

(* Every output follows a call with its id and of its type, and every      *)
(* function call has a JSON object.                                        *)
Paired(items) ==
    \A j \in DOMAIN items :
        /\ items[j].type = "function_call" => Parses(items[j].args)
        /\ items[j].type \in {"function_call_output", "custom_tool_call_output"} =>
            LET before == {i \in 1..(j - 1) :
                             items[i].type \in {"function_call", "custom_tool_call"}
                             /\ items[i].id = items[j].id}
                call   == items[CHOOSE i \in before : \A k \in before : k <= i]
            IN before # {} /\ (call.type = "function_call" <=>
                               items[j].type = "function_call_output")

(* However the stream is cut, retried, interrupted or cancelled: a         *)
(* response that is returned holds the text and the calls the server sent, *)
(* with their whole arguments and ids; text is shown once and in order,    *)
(* never from two attempts; usage is reported once for each answer and for *)
(* nothing else; and a request replays calls and outputs in matching pairs *)
(* (llm_post_sse_with_retry, process_buffer, llm_sse_event_cb,             *)
(* responses_parse_output_item, build_responses_input_cjson).              *)
ResponseFaithful ==
    /\ phase = "returned" /\ request = "tools" /\ result = "ok" =>
        /\ response.content = TextOf(Delivered)
        /\ LET meant == CallsMeant(Delivered)
           IN /\ Len(response.calls) = Len(meant)
              /\ \A i \in DOMAIN meant : response.calls[i].id = meant[i].id
                                        /\ response.calls[i].args = meant[i].args
    /\ request = "tools" => IsPrefix(view.shown, TextOf(answered.script))
    /\ request = "tools" /\ phase = "returned" /\ result = "ok" =>
        Len(view.shown) = react_utf8_safe_len(TextOf(Delivered))
    /\ request \in {"chat", "image"} => IsPrefix(view.acc, TextOf(answered.script))
    /\ phase = "returned" =>
        reports = IF result # "ok" \/ request = "generate" THEN <<>>
                  ELSE <<IF \E i \in DOMAIN Delivered : Delivered[i].k = "usage"
                         THEN "provider" ELSE "estimated">>
    /\ attempt <= RetryCount + 1
    /\ Paired(body)
=============================================================================
