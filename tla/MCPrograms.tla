----------------------------- MODULE MCPrograms -----------------------------
(***************************************************************************)
(* Small instances of what a turn calls: the model, the checks of its      *)
(* answers, the patch engine, the generation of images and videos, the     *)
(* count of tokens, and what lets the agent run programs: dynamic tools,   *)
(* the extensions directory and the sandbox.  "which" names the part a     *)
(* behaviour follows; the others rest.                                     *)
(***************************************************************************)
EXTENDS Integers, Sequences, FiniteSets

VARIABLES which,
    entry, files, hist, pdir, session, kind, op, faults, crashed, skewed,
    step, package, dirs, of, torn, loads, tool,
    sbcfg, kernel, layer, env, limits, fs, calls, unmatched,
    request, adapter, extra, phase, attempt, answered, wire, parser, stream, view,
    result, response, reports, messages, body, cancelled, rounds,
    input, tree, hunks, at, pstep, updated, dest, temps, changed, before,
    turn, steps, retries, empty, proposed, outcome, said, made, replies,
    scope, clock, work, outputs, credit_events,
    encoding, file, stage, read, ht, text, pieces, parts, tokens, total

Dynamic == INSTANCE DynamicTools WITH Sessions <- {"s1", "s2"}, MaxVersion <- 2,
              MaxFaults <- 1, HistoryLimit <- 1

Manifest(named, numeric, paths, purpose) ==
    [named |-> named, numeric |-> numeric, paths |-> paths, build |-> paths,
     front |-> TRUE, purpose |-> purpose]
Ext == INSTANCE Extensions WITH Installers <- {1, 2}, MaxLoads <- 1,
          Manifests <- {Manifest({"filesystem"}, {"exec"}, TRUE, "guardrail"),
                        Manifest({"filesystem"}, {}, FALSE, "tool")}

(* Every permission of an extension, and every path policy of bash_exec. *)
Named == {"network", "exec", "pty", "process_info", "ipc", "temp"}
Extension ==
    [policy : {FALSE}, perms : SUBSET (Named \cup {"filesys", "env"}),
     allowed : {{}, {"ws"}}, read_all : {FALSE}, read : {{}}, write : {{}},
     delete : {{}}, env : BOOLEAN]
Policy ==
    [policy : {TRUE}, perms : {{}, Named} \cup {{n} : n \in Named}, allowed : {{}}, read_all : BOOLEAN,
     read : {{}, {"ws"}}, write : {{}, {"ws"}}, delete : {{}, {"ws"}},
     env : BOOLEAN]
Box(configs) == INSTANCE Sandbox WITH Configs <- configs, Kernels <- {0, 1, 2, 3, 5}

(* Event streams of the two interfaces: text whose last character arrives  *)
(* in halves, calls in pieces, interleaved and with input that is no JSON. *)
Event(k) == [k |-> k, t |-> "", index |-> 0, id |-> "", call |-> "", name |-> "",
             args |-> <<>>, custom |-> FALSE]
Text(t) == [Event("content") EXCEPT !.t = t]
Piece(n, id, name, args) ==
    [Event("call") EXCEPT !.index = n, !.id = id, !.name = name, !.args = args]
Output(k, id, name, args) ==
    [Event(k) EXCEPT !.id = id, !.name = name, !.args = args, !.custom = name = "apply_patch",
                     !.call = IF id = "i1" THEN "c1" ELSE "c2"]
Delta(id, args) == [Event("delta") EXCEPT !.id = id, !.args = args]
ChatScripts == {
    <<Event("comment"), Text("a"), Text("h1"), Text("h2"), Event("usage"), Event("end")>>,
    <<[Event("reasoning") EXCEPT !.t = "r"], Piece(1, "c1", "apply_patch", <<"in{", "p">>),
      Piece(2, "c2", "read", <<"{">>), Piece(1, "", "", <<"}">>), Piece(2, "", "", <<"}">>)>>,
    <<Text("a"), Piece(1, "c1", "read", <<"raw">>), Event("usage")>>,
    <<Event("bad")>>}
ResponseScripts == {
    <<Text("a"), Output("added", "i1", "read", <<>>), Delta("i1", <<"{">>), Delta("i1", <<"}">>),
      Output("done", "i1", "read", <<"{", "}">>), Event("usage")>>,
    <<Output("added", "i1", "read", <<>>), Output("added", "i2", "apply_patch", <<>>),
      Delta("i2", <<"p">>), Delta("i1", <<"{">>), Output("done", "i2", "apply_patch", <<"p">>),
      Delta("i1", <<"}">>), Output("done", "i1", "read", <<"{", "}">>)>>,
    <<Output("done", "i1", "apply_patch", <<"p">>), Output("done", "i2", "read", <<"raw">>)>>}
Model == INSTANCE ModelCall WITH Statuses <- {200, 429, 400}, RetryCount <- 1, MaxRounds <- 2,
            Scripts <- [a \in {"chat", "deepseek", "responses"} |->
                          IF a = "responses" THEN ResponseScripts ELSE ChatScripts]

(* Updates of one or two chunks with and without anchors, moves followed   *)
(* by another section, and patches that are refused.                       *)
Line(k, path, line) == [k |-> k, path |-> path, line |-> line]
Header(k, path) == Line(k, path, <<>>)
A == <<"a", "">>
B == <<"b", "">>
PatchOf(sections) == <<Header("begin", "")>> \o sections \o <<Header("end", "")>>
Change == [k : {" ", "+", "-"}, path : {""}, line : {A, B}] \cup {Header("blank", "")}
Chunk == {<<Line("-", "", A), Line("+", "", B)>>, <<Line("-", "", B)>>, <<Line("+", "", B)>>,
          <<Line(" ", "", A), Line("-", "", B)>>, <<Line("-", "", B), Header("eof", "")>>,
          <<Line("-", "", A), Line("+", "", A), Line("+", "", B)>>}
OneChunk == {anchor \o c \o end : anchor \in {<<>>, <<Line("at", "", <<B>>)>>},
               end \in {<<>>, <<Header("eof", ""), Header("blank", "")>>},
               c \in [1..1 -> Change] \cup [1..2 -> Change]}
TwoChunks == {c \o <<Line("at", "", anchor)>> \o d :
                c \in Chunk, d \in Chunk, anchor \in {<<>>, <<A>>}}
Sections == {<<>>, <<Header("delete", "g")>>, <<Header("add", "f"), Line("+", "", B)>>,
             <<Header("update", "g"), Line("-", "", A)>>, <<Header("junk", "")>>}
Patches ==
    {PatchOf(<<Header("update", "f")>> \o c) : c \in OneChunk \cup TwoChunks}
    \cup {PatchOf(<<Header("update", "f"), Header("move", to)>> \o c \o more) :
            to \in {"g", "bad", "f"}, c \in Chunk, more \in Sections}
    \cup {<<>>, PatchOf(<<Header("add", "f")>>),
          <<Header("here", "")>> \o PatchOf(<<Header("env", ""), Header("delete", "dir")>>)
            \o <<Header("there", "")>>,
          PatchOf(<<Header("add", "g"), Line("+", "", A), Header("delete", "f"),
                    Header("delete", "f")>>)}
Plain(s, mode) == [is |-> "file", lines |-> s, mode |-> mode]
None == [is |-> "none", lines |-> <<>>, mode |-> 0]
Workspaces ==
    {[p \in {"f", "g", "dir", "bad"} |->
        CASE p = "f" -> Plain(s, 755) [] p = "g" -> g
          [] p = "dir" -> [None EXCEPT !.is = "other"] [] OTHER -> None] :
       s \in UNION {[1..n -> {A, <<"a", "t">>, B}] : n \in 0..2} \cup [1..3 -> {A, B}],
       g \in {None, Plain(<<A>>, 600)}}
Edit(inputs, trees) == INSTANCE Patch WITH Inputs <- inputs, Trees <- trees, BadPaths <- {"bad"}

(* Rules of both kinds, one of a taken name and a disabled one; answers    *)
(* with links to files that exist or not, and calls that fail.             *)
Rule(name, hook, type) == [name |-> name, hook |-> hook, type |-> type]
Link(form, scheme, exists) == [form |-> form, scheme |-> scheme, exists |-> exists]
Call(t, r) == [tool |-> t, result |-> r]
Results == {"file", "missing", "failed", "timeout", "denied"}
Guard == INSTANCE Guardrails WITH
    Enabled <- TRUE, Disabled <- {"consecutive_empty"}, RULES_MAX <- 8, MaxRetries <- 2,
    MaxEmptyRounds <- 2, MaxRounds <- 3,
    Rules <- <<Rule("tone", "output", "llm"), Rule("scan", "input", "ext"),
               Rule("tone", "input", "llm")>>,
    Proposals <- {"", <<>>, <<Link("path", "", TRUE), Link("path", "", FALSE)>>,
                  <<Link("anchor", "", FALSE), Link("url", "https", FALSE), Link("path", "", TRUE)>>},
    Batches <- {<<Call("img_gen", r)>> : r \in Results}
               \cup {<<Call("read", "file")>>,
                     <<Call("read", "failed"), Call("read", "denied"), Call("img_gen", "failed")>>,
                     <<Call("img_gen", "failed"), Call("read", "text")>>},
    phase <- turn, calls <- made, rounds <- replies, answer <- proposed

(* Images with and without references and videos with all three kinds, of  *)
(* which the models take some; two sessions of two users.                  *)
Img(single, images, size) ==
    [tool |-> "img_gen", prompt |-> TRUE, single |-> single, images |-> images, videos |-> <<>>,
     audios |-> <<>>, size |-> size, generate_audio |-> -1, duration |-> 0]
Vid(images, videos, audios, generate) ==
    [tool |-> "vid_gen", prompt |-> TRUE, single |-> <<>>, images |-> images, videos |-> videos,
     audios |-> audios, size |-> <<>>, generate_audio |-> generate, duration |-> 0]
Image(a, i, key) == [adapter |-> a, id |-> i, api_key |-> key]
Price(k, in, cached, out, image) ==
    [kind |-> k, input |-> in, cached_configured |-> TRUE, cached |-> cached, output |-> out,
     image |-> image, second |-> 0]
Generation == INSTANCE Media WITH
    Calls <- {1, 2}, MaxImages <- 2, MaxVideos <- 1, MaxAudios <- 1,
    ImageModels <- {Image("openai-images", "gpt-image-1", TRUE),
                    Image("volcengine-images", "seedream", TRUE),
                    Image("openai-images", "dall-e-2", TRUE), Image("", "gpt-image-1", TRUE),
                    Image("openai-images", "gpt-image-1", FALSE)},
    VideoModels <- [model_id : {TRUE}, adapter : {TRUE}, api_key : {TRUE}, api_base : {TRUE},
                    version : {<<0, 0>>, <<1, 5>>, <<2, 0>>}],
    Requests <- {Img(<<>>, <<>>, <<>>), Img(<<>>, <<"ok", "broken">>, <<"4k">>),
                 Img(<<"ok">>, <<>>, <<3840, 2160>>), Img(<<"ok">>, <<"ok">>, <<>>),
                 Img(<<>>, <<"ok", "missing">>, <<"2k">>), Img(<<>>, <<>>, <<4096, 4096>>),
                 Vid(<<>>, <<>>, <<>>, -1), Vid(<<"broken", "ok">>, <<"url">>, <<"ok">>, -1),
                 Vid(<<"number", "ok">>, <<>>, <<>>, 0), Vid(<<>>, <<>>, <<"ok">>, 1),
                 Vid(<<"ok", "ok">>, <<>>, <<"ok">>, 0)},
    Usages <- {[kind |-> "model_text", input |-> 10, cached |-> 20, output |-> 0, images |-> 0,
                seconds |-> 0]},
    OutputTokens <- {900}, Current <- "s1",
    Turns <- {[session |-> "s1", user |-> "local"], [session |-> "s2", user |-> "u2"]},
    Prices <- <<Price("model_text", 2000, 500, 8000, 0), Price("model_image", 0, 0, 0, 40000)>>,
    CostCoef <- 10, Coefs <- [input |-> 1, output |-> 2, image |-> 500, second |-> 1500],
    Dims <- {<<2048, 2048>>}, Extensions <- {"png"},
    PollInterval <- 1, PollTimeout <- 2, Day <- 2, MaxClock <- 2

(* All texts of two characters, longer ones of blanks, words and           *)
(* contractions, and a vocabulary with a line that is no good, a key that  *)
(* comes twice and ranks that do not go from left to right.                *)
Upto(n, S) == UNION {[1..k -> S] : k \in 0..n}
Entry(key, rank) == [ok |-> TRUE, key |-> key, rank |-> rank]
Vocabulary ==
    <<Entry(<<"a", "s">>, 7), Entry(<<"l", "l">>, 3), Entry(<<"s", "l">>, 2),
      [ok |-> FALSE, key |-> <<"a", "a">>, rank |-> 1], Entry(<<" ", "a">>, 6),
      Entry(<<"w1", "w2">>, 5), Entry(<<"a", "s">>, 1), Entry(<<"a", "s", "l">>, 8),
      Entry(<<"l", "s">>, 0), Entry(<<"a", "l">>, 4)>>
Count == INSTANCE Tokens WITH
    Texts <- Upto(2, {"A", "a", "s", "l", "W", "1", " ", "n", "'", ".", "/", "x"})
             \cup [1..3 -> {"A", "a", "s", "l", "1", " ", "n", "'", "."}]
             \cup [1..4 -> {" ", "n", "a", "."}] \cup [1..4 -> {"A", "a", "'", "l"}]
             \cup {<<"1", "1", "1", "1">>, <<"a", "s", "l", "s", "l">>,
                   <<" ", "a", "s", "s", "l", "l">>, <<".", "a", "/", ".", "s", "/">>,
                   <<"a", "a", "a", "a", " ", "a", "n">>},
    Vocabularies <- {Vocabulary}, Cap <- 11, MaxPieces <- 3, MaxPieceBytes <- 3

dynamic == <<entry, files, hist, pdir, session, kind, op, faults, crashed, skewed>>
ext == <<step, package, dirs, of, torn, loads, tool>>
box == <<sbcfg, kernel, layer, env, limits, fs, calls, unmatched>>

model == <<request, adapter, extra, phase, attempt, answered, wire, parser, stream, view,
           result, response, reports, messages, body, cancelled, rounds>>
edit == <<input, tree, hunks, at, pstep, updated, dest, temps, changed, before>>
guard == <<turn, steps, retries, empty, proposed, outcome, said, made, replies>>
media == <<scope, clock, work, outputs, credit_events>>
count == <<encoding, file, stage, read, ht, text, pieces, parts, tokens, total>>
Parts == <<dynamic, ext, box, model, edit, guard, media, count>>

Least == CHOOSE c \in Policy : TRUE

Init ==
    /\ which \in {"dynamic", "ext", "box", "model", "edit", "guard", "media", "count"}
    /\ Dynamic!Init
    /\ which # "dynamic" => session = "s1"
    /\ Ext!Init
    /\ IF which = "box" THEN Box(Extension \cup Policy)!SandboxInit
       ELSE Box({Least})!SandboxInit /\ ~kernel.macos /\ kernel.abi = 0
    /\ Model!CallInit
    /\ which # "model" => request = "chat" /\ adapter = "chat"
    /\ extra # "none" => which = "model" /\ request = "chat"
    /\ IF which = "edit" THEN Edit(Patches, Workspaces)!PatchInit
       ELSE Edit({<<>>}, {<<>>})!PatchInit
    /\ Guard!GuardInit /\ Generation!MediaInit
    /\ Count!TokensInit /\ (which # "count" => encoding = "cl100k")

Next ==
    \/ /\ which = "dynamic" /\ Dynamic!Next
       /\ UNCHANGED <<which, ext, box, model, edit, guard, media, count>>
    \/ /\ which = "ext" /\ Ext!ExtNext
       /\ UNCHANGED <<which, dynamic, box, model, edit, guard, media, count>>
    \/ /\ which = "box" /\ Box({})!SandboxNext
       /\ UNCHANGED <<which, dynamic, ext, model, edit, guard, media, count>>
    \/ /\ which = "model" /\ Model!CallNext
       /\ UNCHANGED <<which, dynamic, ext, box, edit, guard, media, count>>
    \/ /\ which = "edit" /\ Edit({}, {})!PatchNext
       /\ UNCHANGED <<which, dynamic, ext, box, model, guard, media, count>>
    \/ /\ which = "guard" /\ Guard!GuardNext
       /\ UNCHANGED <<which, dynamic, ext, box, model, edit, media, count>>
    \/ /\ which = "media" /\ Generation!MediaNext
       /\ UNCHANGED <<which, dynamic, ext, box, model, edit, guard, count>>
    \/ /\ which = "count" /\ Count!TokensNext
       /\ UNCHANGED <<which, dynamic, ext, box, model, edit, guard, media>>

Spec == Init /\ [][Next]_<<which, Parts>>

(* The sandbox for a program that may execute others and nothing more: the *)
(* configuration of the test LinuxProcessInfoControlsOtherProcEntries.     *)
ExecOnly == {[policy |-> TRUE, perms |-> {"exec"}, allowed |-> {},
              read_all |-> FALSE, read |-> {}, write |-> {}, delete |-> {},
              env |-> FALSE]}
ExecInit ==
    /\ which = "box" /\ Dynamic!Init /\ session = "s1"
    /\ Ext!Init /\ Box(ExecOnly)!SandboxInit /\ Model!CallInit
    /\ request = "chat" /\ adapter = "chat" /\ extra = "none"
    /\ Edit({<<>>}, {<<>>})!PatchInit /\ Guard!GuardInit /\ Generation!MediaInit
    /\ Count!TokensInit /\ encoding = "cl100k"
ExecSpec == ExecInit /\ [][Next]_<<which, Parts>>

(* A failed or interrupted change of a dynamic tool is undone or can be    *)
(* undone (agent/tools/dynamic_tools.c).                                   *)
ChangesUndoable == which = "dynamic" => Dynamic!ChangesUndoable

(* An extension's directory is whole, whatever installers do               *)
(* (ext/install.c).                                                        *)
InstalledWhole == which = "ext" => Ext!InstalledWhole

(* A sandboxed program can do what docs/sandbox.md says and nothing else   *)
(* (sandbox/sandbox.c).                                                    *)
RunsAsDocumented == which = "box" => Box({})!RunsAsDocumented

(* A response is what the server sent, shown once and replayed in pairs    *)
(* (models/llm/llm.c, http/sse.c, agent/react.c).                          *)
ResponseFaithful == which = "model" => Model!ResponseFaithful

(* A patch is applied hunk by hunk, each in full or not at all             *)
(* (agent/patch.c).                                                        *)
PatchFaithful == which = "edit" => Edit({}, {})!PatchFaithful

(* An answer that breaks a rule is not given while the turn may try again  *)
(* (agent/guardrail.c, agent/react.c).                                     *)
AnswersChecked == which = "guard" => Guard!AnswersChecked

(* What is generated is there and charged once, to the turn that asked     *)
(* (models/image_gen.c, models/video_gen.c, credits.c).                    *)
MediaAccounted == which = "media" => Generation!MediaAccounted

(* The tokens of a text are those the vocabulary gives it                  *)
(* (util/bpe.c, agent/tokenizer.c).                                        *)
TokensCounted == which = "count" => Count!TokensCounted

(* A sandbox whose every system call the kernel supports is entered        *)
(* (sandbox_enter; tests/test_sandbox.cpp:471 expects it of ExecOnly).     *)
SandboxStarts == Box({})!SandboxStarts
=============================================================================
