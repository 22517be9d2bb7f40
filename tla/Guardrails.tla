----------------------------- MODULE Guardrails -----------------------------
(***************************************************************************)
(* The quality checks of a turn (agent/guardrail.c): rules, built in, asked *)
(* of a model or run as a program, that are put to the user's input, to    *)
(* the result of every tool and to the answer the model proposes, and what *)
(* the loop does with a failed check (agent/react.c).  A rule that cannot  *)
(* be put (no model, a failed call, a reply that does not parse) passes.   *)
(***************************************************************************)
EXTENDS Integers, Sequences, FiniteSets, SequencesExt

CONSTANTS
  Enabled,          \* guardrail.enabled
  Rules,            \* the configured rules after the built-in ones: [name, hook, type]
  Disabled,         \* guardrail_disabled_rules
  RULES_MAX, MaxRetries, MaxEmptyRounds,
  Proposals,        \* the answers a model may propose: sequences of links; "" for none
  Batches,          \* the tool calls a model may ask for: sequences of [tool, result]
  MaxRounds         \* bound: replies of the model

VARIABLES
  phase,            \* "input", "thinking" or "done"
  steps,            \* ctx->steps
  retries, empty,   \* guardrail_retry_count, empty_round_count
  answer, outcome,  \* the final answer and how the turn ended
  said,             \* what each rule that is not built in last said, and of what
  calls,            \* the calls made, as the tools know them
  rounds            \* replies so far

guardVars == <<phase, steps, retries, empty, answer, outcome, said, calls, rounds>>

-----------------------------------------------------------------------------
(* The rules. *)

Rule(name, hook, type) == [name |-> name, hook |-> hook, type |-> type]

\* A rule of a name that is taken, or for which there is no room, is not registered.
guardrail_rule_register(rules, r) ==
  IF Len(rules) >= RULES_MAX \/ r.name \in {rules[i].name : i \in DOMAIN rules} THEN rules
  ELSE Append(rules, r)

guardrail_register_builtin_rules ==
  << Rule("consecutive_empty", "output", "C"), Rule("empty_answer", "output", "C"),
     Rule("tools_all_failed", "output", "C"), Rule("creative_no_media", "output", "C"),
     Rule("creative_file_missing", "tool_output", "C"),
     Rule("final_local_file_missing", "output", "C") >>

\* The rules of the configuration follow; the disabled ones are those named.
runtime_apply_guardrails == FoldLeft(guardrail_rule_register, guardrail_register_builtin_rules, Rules)

rule_enabled(r) == r.name \notin Disabled

is_creative_tool(tool) == tool \in {"img_gen", "vid_gen"}

Actions(s) == SelectSeq(s, LAMBDA step : step.type = "action")
Observations(s) == SelectSeq(s, LAMBDA step : step.type = "observation")
Outcome(action, obs) ==
  [creative |-> is_creative_tool(action.tool), succeeded |-> obs.error_code >= 0,
   has_file_output |-> obs.error_code >= 0 /\ obs.artifacts > 0]

\* Mutant: every action is given the first observation.
outcomes_of_first(s) ==
  [i \in DOMAIN Actions(s) |-> Outcome(Actions(s)[i], Observations(s)[1])]
\* The n-th action and the n-th observation, wherever they stand among the steps.
build_tool_outcomes(s) ==
  [i \in DOMAIN Actions(s) |-> Outcome(Actions(s)[i], Observations(s)[i])]

gr_empty_answer(a) == a # ""
gr_consecutive_empty(n) == ~(MaxEmptyRounds > 0 /\ n >= MaxEmptyRounds)
gr_tools_all_failed(s) ==
  LET o == build_tool_outcomes(s) IN o = <<>> \/ \E i \in DOMAIN o : o[i].succeeded
gr_creative_no_media(s) ==
  LET creative == SelectSeq(build_tool_outcomes(s), LAMBDA x : x.creative) IN
  creative = <<>> \/ \E i \in DOMAIN creative : creative[i].has_file_output
gr_creative_file_missing(tool, error_code, missing) ==
  ~(is_creative_tool(tool) /\ error_code >= 0 /\ missing)

\* A link's target: an anchor, a path of the network, a URL with a scheme, or a path.
markdown_url_is_local(url) == url.form = "path" \/ (url.form = "url" /\ url.scheme = "file")
gr_final_local_file_missing(a) ==
  a = "" \/ \A i \in DOMAIN a : markdown_url_is_local(a[i]) => a[i].exists

\* What is left of a reply: only {"pass": false} fails, whatever else it says.
Replies == {"pass", "fail", "none"}
guardrail_parse_check_result(reply) == reply # "fail"
\* The model is not asked about an empty text.
guardrail_llm_check(text, reply) == text = "" \/ guardrail_parse_check_result(reply)
\* A program is, and may exit, answer with an error, or answer nothing.
guardrail_ext_check(reply) == guardrail_parse_check_result(reply)

\* One rule's verdict on what is being checked.
Passes(r, e, reply) ==
  CASE r.type = "llm" -> guardrail_llm_check(e.text, reply[r.name])
    [] r.type = "ext" -> guardrail_ext_check(reply[r.name])
    [] r.name = "consecutive_empty" -> gr_consecutive_empty(e.empty)
    [] r.name = "empty_answer" -> gr_empty_answer(e.text)
    [] r.name = "tools_all_failed" -> gr_tools_all_failed(steps)
    [] r.name = "creative_no_media" -> gr_creative_no_media(steps)
    [] r.name = "creative_file_missing" -> gr_creative_file_missing(e.tool, e.error_code, e.missing)
    [] r.name = "final_local_file_missing" -> gr_final_local_file_missing(e.text)

\* The first enabled rule of the hook that fails; 0: the check is passed.
guardrail_run_hook(hook, e, reply) ==
  IF ~Enabled THEN 0
  ELSE SelectInSeq(runtime_apply_guardrails,
                   LAMBDA r : rule_enabled(r) /\ r.hook = hook /\ ~Passes(r, e, reply))

-----------------------------------------------------------------------------
(* The turn. *)

Asked == {Rules[i].name : i \in {j \in DOMAIN Rules : Rules[j].type \in {"llm", "ext"}}}

GuardInit ==
  /\ phase = "input" /\ steps = <<>> /\ retries = 0 /\ empty = 0
  /\ answer = "" /\ outcome = "none" /\ calls = <<>> /\ rounds = 0
  /\ said = [n \in Asked |-> "pass"]

Reflection == [type |-> "reflection"]
Action(tool) == [type |-> "action", tool |-> tool]
Observation(error_code, artifacts) ==
  [type |-> "observation", error_code |-> error_code, artifacts |-> artifacts]

react_check_input_guardrail ==
  /\ phase = "input"
  /\ \E reply \in [Asked -> Replies] :
       /\ said' = reply
       /\ IF guardrail_run_hook("input", [text |-> "input"], reply) = 0
          THEN phase' = "thinking" /\ UNCHANGED <<steps, outcome>>
          ELSE /\ phase' = "done" /\ outcome' = "guardrail_denied"
               /\ steps' = Append(steps, Reflection)
  /\ UNCHANGED <<retries, empty, answer, calls, rounds>>

\* A denied call is observed at once, without an error code.
hitl_steps(batch) ==
  FlattenSeq([i \in DOMAIN batch |->
    IF batch[i].result = "denied" THEN <<Action(batch[i].tool), Observation(0, 0)>> ELSE <<>>])
\* The others are all started before the first is joined.
submit_steps(batch) ==
  FlattenSeq([i \in DOMAIN batch |->
    IF batch[i].result # "denied" THEN <<Action(batch[i].tool)>> ELSE <<>>])

ErrorCode(result) == CASE result = "failed" -> -5 [] result = "timeout" -> -110 [] OTHER -> 0
Artifacts(result) == IF result \in {"file", "missing"} THEN 1 ELSE 0

\* A check of the result may put a reflection, and its own text, before the observation.
react_apply_tool_output_guardrail(call, reply) ==
  LET e == [text |-> "result", tool |-> call.tool, error_code |-> ErrorCode(call.result),
            missing |-> call.result = "missing"]
  IN IF call.result # "timeout" /\ guardrail_run_hook("tool_output", e, reply) # 0
     THEN <<Reflection>> ELSE <<>>
join_steps(batch, reply) ==
  FlattenSeq([i \in DOMAIN batch |->
    IF batch[i].result = "denied" THEN <<>>
    ELSE Append(react_apply_tool_output_guardrail(batch[i], reply),
                Observation(ErrorCode(batch[i].result), Artifacts(batch[i].result)))])

ToolCalls ==
  /\ phase = "thinking" /\ rounds < MaxRounds /\ rounds' = rounds + 1
  /\ \E batch \in Batches, reply \in [Asked -> {"pass", "fail"}] :
       /\ steps' = steps \o hitl_steps(batch) \o submit_steps(batch) \o join_steps(batch, reply)
       /\ calls' = calls \o batch
  /\ UNCHANGED <<phase, retries, empty, answer, outcome, said>>

\* The model's answer: accepted, sent back with the reason, or given up on.
react_handle_guardrail_retry ==
  /\ phase = "thinking" /\ rounds < MaxRounds /\ rounds' = rounds + 1
  /\ \E proposed \in Proposals, reply \in [Asked -> Replies] :
       LET is_empty == proposed = ""
           unchecked == ~is_empty /\ (~Enabled \/ retries >= MaxRetries)
           rounds_empty == IF is_empty THEN empty + 1 ELSE 0
           failed == guardrail_run_hook("output", [text |-> proposed, empty |-> rounds_empty], reply)
           given_up == is_empty /\ (retries >= MaxRetries
                                    \/ (MaxEmptyRounds > 0 /\ rounds_empty >= MaxEmptyRounds))
       IN /\ empty' = IF ~Enabled /\ ~is_empty THEN empty ELSE rounds_empty
          /\ said' = reply
          /\ CASE unchecked \/ (~is_empty /\ failed = 0) ->
                    /\ phase' = "done" /\ outcome' = "success" /\ answer' = proposed
                    /\ UNCHANGED <<retries, steps>>
               [] given_up ->
                    /\ phase' = "done" /\ outcome' = "empty_response"
                    /\ UNCHANGED <<retries, steps, answer>>
               [] OTHER ->
                    /\ retries' = retries + 1 /\ steps' = Append(steps, Reflection)
                    /\ UNCHANGED <<phase, outcome, answer>>
  /\ UNCHANGED calls

GuardNext == react_check_input_guardrail \/ ToolCalls \/ react_handle_guardrail_retry

-----------------------------------------------------------------------------
On(name) == \E i \in DOMAIN runtime_apply_guardrails :
              runtime_apply_guardrails[i].name = name /\ rule_enabled(runtime_apply_guardrails[i])
Failed(call) == call.result \in {"failed", "timeout"}

\* An answer that is accepted is never empty, and, while sending answers back
\* is still allowed, it is one no enabled rule objects to: not when every call
\* of the turn failed, in whatever order calls were denied, started, checked
\* and joined, nor when the tools that make media made none, nor with a link
\* to a file that is not there, nor against what a model or a program said of
\* it.  An answer is sent back at most MaxRetries times, and after an input
\* that was refused nothing is called or answered.  (A call the user denied
\* counts as one that did not fail.)
AnswersChecked ==
  /\ outcome = "success" => answer # ""
  /\ retries <= MaxRetries
  /\ outcome = "guardrail_denied" => calls = <<>> /\ answer = ""
  /\ (outcome = "success" /\ Enabled /\ retries < MaxRetries) =>
       /\ On("tools_all_failed") => (calls = <<>> \/ \E i \in DOMAIN calls : ~Failed(calls[i]))
       /\ On("creative_no_media") =>
            LET creative == {i \in DOMAIN calls : is_creative_tool(calls[i].tool)} IN
            creative = {} \/ \E i \in creative : calls[i].result \in {"file", "missing"}
       /\ On("final_local_file_missing") =>
            \A i \in DOMAIN answer : answer[i].form = "path" => answer[i].exists
       /\ \A i \in DOMAIN Rules :
            Rules[i].hook = "output" /\ On(Rules[i].name) => said[Rules[i].name] # "fail"
=============================================================================
