------------------------------- MODULE Media -------------------------------
(***************************************************************************)
(* The generation of images and videos and what it costs: the tools        *)
(* img_gen and vid_gen (agent/tools), the adapters of the providers and    *)
(* the polling of a video (models), and the charge of every use of a model *)
(* (runtime/usage.c, credits.c, persistence/credit_store.c).               *)
(*                                                                         *)
(* The calls of a turn run in parallel, on threads the turn gives up       *)
(* waiting for when they time out or it is cancelled: such a call goes on. *)
(* A reference is the kind of path it is: "ok", "broken" (it cannot be     *)
(* read as what it should be), "missing", "outside" (reading it is         *)
(* denied), "url", "empty" or "number" (no string).  A size is "", "auto", *)
(* "2k", "4k" or a pair <<width, height>>.                                 *)
(***************************************************************************)
EXTENDS Integers, Sequences, FiniteSets, FiniteSetsExt, SequencesExt, TLC

CONSTANTS
  Calls,                      \* the tool calls of a behaviour
  ImageModels, VideoModels,   \* the models that may be configured
  Requests,                   \* the arguments of calls
  Usages, OutputTokens,       \* the usages of text models, the tokens of an image
  Turns, Current,             \* turns: [session, user]; the runtime's current session
  Prices, CostCoef, Coefs,    \* [credits]: coefficients are in thousandths
  Dims, Extensions,           \* of images; one of <<0, 0>> cannot be decoded
  MaxImages, MaxVideos, MaxAudios,
  PollInterval, PollTimeout, Day, MaxClock

VARIABLES
  scope,                      \* the turn scope: [bound, session, user]
  clock,                      \* time(NULL)
  work,                       \* the calls
  outputs,                    \* the output directory
  credit_events

mediaVars == <<scope, clock, work, outputs, credit_events>>

-----------------------------------------------------------------------------
(* What a model m can do, and which sizes it takes. *)

openai_is_gpt_image(m) == m.id = "gpt-image-1"

image_gen_adapter_supported(m) == m.adapter \in {"openai-images", "volcengine-images"}

image_capabilities(m) == openai_is_gpt_image(m) \/ m.adapter = "volcengine-images"

Pixels(size) == size[1] * size[2]
Custom(size) == size \notin {<<>>, <<"auto">>, <<"2k">>, <<"4k">>}

image_gen_validate_size(size) ==
  /\ size # <<"auto">>
  /\ Custom(size) => Pixels(size) \in (2560 * 1440)..(4096 * 4096)

openai_normalize_gpt_size(size) ==
  Custom(size) =>
    /\ \A edge \in {size[1], size[2]} : edge <= 3840 /\ edge % 16 = 0
    /\ Pixels(size) \in 655360..8294400
    /\ Max({size[1], size[2]}) <= 3 * Min({size[1], size[2]})

openai_normalize_dalle_size(m, size) ==
  Custom(size) =>
    size \in IF m.id = "dall-e-2" THEN {<<256, 256>>, <<512, 512>>, <<1024, 1024>>}
             ELSE {<<1024, 1024>>, <<1024, 1792>>, <<1792, 1024>>}

image_gen_validate_size_for_model(m, size) ==
  /\ image_gen_adapter_supported(m)
  /\ CASE m.adapter = "volcengine-images" -> image_gen_validate_size(size)
       [] openai_is_gpt_image(m) -> openai_normalize_gpt_size(size)
       [] OTHER -> openai_normalize_dalle_size(m, size)

img_gen_validate_public_size(m, size) ==
  /\ size \notin {<<>>, <<"auto">>}
  /\ image_gen_validate_size(size) /\ image_gen_validate_size_for_model(m, size)

\* The version of a Seedance model, <<0, 0>> for any other one.
seedance_from(m, major, minor) ==
  \/ m.version[1] > major
  \/ m.version[1] = major /\ m.version[2] >= minor

volcengine_video_capabilities(m) ==
  (IF seedance_from(m, 1, 5) THEN {"generate_audio"} ELSE {})
  \cup (IF seedance_from(m, 2, 0) THEN {"multi_reference", "videos", "audios"} ELSE {})

-----------------------------------------------------------------------------
(* The arguments of a call. *)

Strings(refs) == SelectSeq([i \in DOMAIN refs |-> [at |-> i, is |-> refs[i]]],
                           LAMBDA r : r.is # "number")
Kinds(refs) == {r.is : r \in ToSet(refs)}
At(refs, Sendable) == LET sent == SelectSeq(refs, LAMBDA r : r.is \in Sendable)
                      IN  [i \in DOMAIN sent |-> sent[i].at]

\* Only paths are authorised for reading, and an image is always a path.
authorize(kinds) == kinds \cap {"missing", "outside"} = {}

img_gen_references(req) == IF req.single # <<>> THEN req.single ELSE req.images

reference_error(req) ==
  \/ req.single # <<>> /\ req.images # <<>>
  \/ Len(req.images) > MaxImages
  \/ \E i \in DOMAIN img_gen_references(req) : img_gen_references(req)[i] \in {"empty", "number"}

image_gen_create(m, refs) ==
  /\ m.api_key
  /\ refs # <<>> => image_capabilities(m)
  /\ m.adapter = "volcengine-images" => "broken" \notin Kinds(refs)

img_gen_exec(m, req) ==
  LET refs == Strings(img_gen_references(req)) IN
  /\ req.prompt /\ ~reference_error(req)
  /\ img_gen_validate_public_size(m, IF req.size = <<>> THEN <<"2k">> ELSE req.size)
  /\ authorize(Kinds(refs)) /\ "url" \notin Kinds(refs)
  /\ image_gen_create(m, refs)

video_gen_create(m, images, videos, audios, generate_audio) ==
  LET caps == volcengine_video_capabilities(m) IN
  /\ m.model_id /\ m.adapter
  /\ "empty" \notin Kinds(images) \cup Kinds(videos)
  /\ Len(images) > 1 => "multi_reference" \in caps
  /\ videos # <<>> => "videos" \in caps
  /\ audios # <<>> => /\ "audios" \in caps /\ images \o videos # <<>>
                      /\ generate_audio # 0
  /\ generate_audio = 1 => "generate_audio" \in caps
  /\ m.api_key /\ m.api_base
  /\ "broken" \notin Kinds(audios)

vid_gen_exec(m, req) ==
  LET images == Strings(req.images) videos == Strings(req.videos) audios == Strings(req.audios) IN
  /\ Len(req.images) <= MaxImages /\ Len(req.videos) <= MaxVideos /\ Len(req.audios) <= MaxAudios
  /\ req.prompt
  /\ authorize(Kinds(images) \cup Kinds(videos) \cup Kinds(audios)) /\ "url" \notin Kinds(images)
  /\ "empty" \notin Kinds(audios)
  /\ video_gen_create(m, images, videos, audios, req.generate_audio)

\* The references that reach the provider: a video's image or video that
\* cannot be read is left out, and the others keep their order.
image_request(req) ==
  [images |-> At(Strings(img_gen_references(req)), {"ok", "broken"}), videos |-> <<>>, audios |-> <<>>]
video_request(req) ==
  [images |-> At(Strings(req.images), {"ok"}), videos |-> At(Strings(req.videos), {"ok", "url"}),
   audios |-> At(Strings(req.audios), {"ok", "url"})]

-----------------------------------------------------------------------------
(* What a use of a model costs. *)

Usage(kind, images, seconds) ==
  [kind |-> kind, input |-> 0, cached |-> 0, output |-> 0, images |-> images, seconds |-> seconds]

image_units_from_dims(d) == IF d[1] <= 0 \/ d[2] <= 0 THEN 1 ELSE (Pixels(d) + 999999) \div 1000000

runtime_model_usage_is_billable(u) == u.input > 0 \/ u.output > 0 \/ u.images > 0 \/ u.seconds > 0

\* The first price that fits; a price without a kind fits every kind.
credit_find_price(u) == SelectInSeq(Prices, LAMBDA p : p.kind \in {"", u.kind})

credit_ceil_nonnegative(amount, unit) == IF amount <= 0 THEN 0 ELSE (amount + unit - 1) \div unit

\* In millionths.
Cost(p, u) ==
  LET cached == Max({0, Min({u.cached, u.input})}) IN
  (IF p.cached_configured THEN (u.input - cached) * p.input + cached * p.cached
   ELSE u.input * p.input)
  + u.output * p.output + u.images * p.image + u.seconds * p.second

Direct(u) ==
  u.input * Coefs.input + u.output * Coefs.output + u.images * Coefs.image + u.seconds * Coefs.second

credit_calculate(u) ==
  LET i == credit_find_price(u) IN
  IF i # 0 THEN credit_ceil_nonnegative(Cost(Prices[i], u) * CostCoef, 1000000)
  ELSE credit_ceil_nonnegative(Direct(u), 1000)

\* The session and the user of the scope as it is when the usage is reported.
credit_session_key == IF scope.bound THEN scope.session ELSE Current
credit_user == IF scope.bound THEN scope.user ELSE "local"

credit_event(c, u) ==
  [call |-> c, session |-> credit_session_key, user |-> credit_user, usage |-> u,
   credits |-> credit_calculate(u), created_at |-> clock]

Summary(events) ==
  [count |-> Cardinality(events), credits |-> MapThenSumSet(LAMBDA e : e.credits, events)]
credit_summary_session(s) == Summary({e \in credit_events : e.session = s})
credit_summary_total(u) == Summary({e \in credit_events : e.user = u})
credit_summary_today(u) ==
  Summary({e \in credit_events : e.user = u /\ e.created_at \div Day = clock \div Day})

-----------------------------------------------------------------------------
(* The calls. *)

Idle == [pc |-> "idle", tool |-> "", duration |-> 0, turn |-> "", deadline |-> 0, wake |-> 0,
         path |-> <<>>, usage |-> Usage("", 0, 0), made |-> <<0, 0>>, given_up |-> FALSE,
         lost |-> FALSE, outcome |-> ""]

MediaInit ==
  /\ scope = [bound |-> FALSE, session |-> "", user |-> ""]
  /\ clock = 0 /\ work = [c \in Calls |-> Idle]
  /\ outputs = <<>> /\ credit_events = {}

Goes(c, fields) == work' = [work EXCEPT ![c] = fields @@ @]
Fails(c) == work' = [work EXCEPT ![c] = [Idle EXCEPT !.pc = "done", !.outcome = "error"]]
Elsewhere == UNCHANGED <<scope, clock>>
Kept == UNCHANGED <<outputs, credit_events>> /\ Elsewhere

\* The loop starts the calls of a turn in their order.
Starts(c) == /\ work[c].pc = "idle" /\ scope.bound
             /\ \A d \in Calls : d < c => work[d].pc # "idle"

ImgStarts(c) ==
  /\ Starts(c)
  /\ \E req \in {r \in Requests : r.tool = "img_gen"}, m \in ImageModels :
       IF img_gen_exec(m, req)
       THEN Goes(c, [pc |-> "img_post", tool |-> "img_gen", turn |-> scope])
       ELSE Fails(c)
  /\ Kept

VidStarts(c) ==
  /\ Starts(c)
  /\ \E req \in {r \in Requests : r.tool = "vid_gen"}, m \in VideoModels :
       IF vid_gen_exec(m, req)
       THEN Goes(c, [pc |-> "vid_post", tool |-> "vid_gen", duration |-> req.duration, turn |-> scope])
       ELSE Fails(c)
  /\ Kept

TextStarts(c) == \E u \in Usages :
  /\ Starts(c)
  /\ Goes(c, [pc |-> "report", tool |-> "text", turn |-> scope, usage |-> u])
  /\ Kept

Written(path, c, d) == outputs' = (path :> [by |-> c, dims |-> d]) @@ outputs

\* The reply to the request holds the image or where it is, and may count its
\* tokens; the name of the file is of the second in which it is written.
image_materialize(c) == \E d \in Dims, ext \in Extensions, n \in OutputTokens :
  /\ Goes(c, [pc |-> "img_measure", path |-> <<"img", clock, ext>>, made |-> d,
             usage |-> [Usage("model_image", 0, 0) EXCEPT !.output = n]])
  /\ Written(<<"img", clock, ext>>, c, d)

ImgPosts(c) ==
  /\ work[c].pc = "img_post" /\ Elsewhere /\ UNCHANGED credit_events
  /\ \/ image_materialize(c)
     \/ Fails(c) /\ UNCHANGED outputs

\* The dimensions are read back from the file.
ImgMeasures(c) ==
  /\ work[c].pc = "img_measure"
  /\ Goes(c, [pc |-> "report", usage |-> [work[c].usage EXCEPT !.images =
                image_units_from_dims(outputs[work[c].path].dims)]])
  /\ Kept

\* A video's name is of the second in which it was ready, before it is fetched.
VidReady(c) == Goes(c, [pc |-> "vid_get", path |-> <<"vid", clock, "mp4">>, deadline |-> 0, wake |-> 0])

\* The head of the loop.
VidLoops(c, deadline) ==
  IF clock < deadline
  THEN Goes(c, [pc |-> "vid_sleep", deadline |-> deadline, wake |-> clock + PollInterval])
  ELSE Fails(c)

\* The reply has no id, an id, or an id and the place of the video.
VidPosts(c) ==
  /\ work[c].pc = "vid_post"
  /\ \/ Fails(c)
     \/ VidReady(c)
     \/ VidLoops(c, clock + PollTimeout)
  /\ Kept

\* A failed query, a reply that does not parse and a task under way are
\* asked for again; a task that ended without a video has timed out.
VidQueries(c) ==
  /\ work[c].pc = "vid_sleep" /\ clock >= work[c].wake
  /\ Fails(c) \/ VidLoops(c, work[c].deadline) \/ VidReady(c)
  /\ Kept

video_seconds(duration) == IF duration > 0 THEN duration ELSE 5
video_report_usage(c) ==
  Goes(c, [pc |-> "report", usage |-> Usage("model_video", 0, video_seconds(work[c].duration))])

\* Mutant: a video that could not be fetched is charged for.
VidGets_charged(c) ==
  /\ work[c].pc = "vid_get" /\ Elsewhere /\ UNCHANGED credit_events
  /\ video_report_usage(c)
  /\ UNCHANGED outputs \/ Written(work[c].path, c, <<0, 0>>)

VidGets(c) ==
  /\ work[c].pc = "vid_get" /\ Elsewhere /\ UNCHANGED credit_events
  /\ \/ Fails(c) /\ UNCHANGED outputs
     \/ video_report_usage(c) /\ Written(work[c].path, c, <<0, 0>>)

\* A row that cannot be inserted is lost, and the call does not hear of it.
runtime_record_usage(c) ==
  /\ work[c].pc = "report" /\ Elsewhere /\ UNCHANGED outputs
  /\ \/ /\ Goes(c, [pc |-> "done", outcome |-> "ok"])
        /\ credit_events' = IF runtime_model_usage_is_billable(work[c].usage)
                            THEN credit_events \cup {credit_event(c, work[c].usage)}
                            ELSE credit_events
     \/ Goes(c, [pc |-> "done", outcome |-> "ok", lost |-> TRUE]) /\ UNCHANGED credit_events

\* The turn stops waiting for a call that timed out or was cancelled.
GivesUp(c) ==
  /\ work[c].pc \notin {"idle", "done"} /\ ~work[c].given_up
  /\ Goes(c, [given_up |-> TRUE])
  /\ Kept

runtime_turn_scope_begin == \E t \in Turns :
  /\ ~scope.bound
  /\ scope' = [bound |-> TRUE, session |-> t.session, user |-> t.user]
  /\ UNCHANGED <<clock, work, outputs, credit_events>>

\* A turn ends when it waits for none of its calls.
runtime_turn_scope_finish ==
  /\ scope.bound
  /\ \A c \in Calls : work[c].pc \in {"idle", "done"} \/ work[c].given_up
  /\ scope' = [bound |-> FALSE, session |-> "", user |-> ""]
  /\ UNCHANGED <<clock, work, outputs, credit_events>>

Tick ==
  /\ clock < MaxClock /\ clock' = clock + 1
  /\ UNCHANGED <<scope, work, outputs, credit_events>>

MediaNext ==
  \/ \E c \in Calls :
       \/ ImgStarts(c) \/ VidStarts(c) \/ TextStarts(c)
       \/ ImgPosts(c) \/ ImgMeasures(c)
       \/ VidPosts(c) \/ VidQueries(c) \/ VidGets(c)
       \/ runtime_record_usage(c) \/ GivesUp(c)
  \/ runtime_turn_scope_begin \/ runtime_turn_scope_finish
  \/ Tick

-----------------------------------------------------------------------------
(* Properties. *)

Events(c) == {e \in credit_events : e.call = c}
Media(c) == work[c].tool \in {"img_gen", "vid_gen"}

\* Two files of one kind made in the same second have the same name.
Collides(c) == \E d \in Calls \ {c} : work[d].path = work[c].path

\* A call that succeeded left the file it names, its own.
FileThere(c) ==
  work[c].outcome = "ok" /\ Media(c) =>
    /\ work[c].path \in DOMAIN outputs
    /\ outputs[work[c].path].by = c \/ Collides(c)

\* It is charged once, for what it made and to the turn that made it; a
\* failed one is not charged.
Charged(c) ==
  work[c].pc = "done" =>
    /\ Cardinality(Events(c)) =
         IF work[c].outcome = "ok" /\ ~work[c].lost /\ runtime_model_usage_is_billable(work[c].usage)
         THEN 1 ELSE 0
    /\ \A e \in Events(c) :
         /\ ~work[c].given_up => e.session = work[c].turn.session /\ e.user = work[c].turn.user
         /\ Media(c) /\ ~Collides(c) =>
              IF work[c].tool = "vid_gen"
              THEN e.usage = Usage("model_video", 0, video_seconds(work[c].duration))
              ELSE e.usage.images = image_units_from_dims(work[c].made)

\* The charge is the least whole number that covers the cost, and tokens read
\* from the provider's cache never raise it.
CreditsCover(u) ==
  LET n == credit_calculate(u) i == credit_find_price(u)
      owed == IF i # 0 THEN Cost(Prices[i], u) * CostCoef ELSE Direct(u) * 1000 IN
  /\ n * 1000000 >= owed /\ (n > 0 => (n - 1) * 1000000 < owed)
  /\ n <= credit_calculate([u EXCEPT !.cached = 0])

\* The k-th reference the provider gets is the k-th that was given, so that
\* its label in the prompt means it, unless vid_gen left one out.
LabelsMean(req) ==
  LET given == [images |-> IF req.tool = "img_gen" THEN img_gen_references(req) ELSE req.images,
                videos |-> req.videos, audios |-> req.audios]
      sent == IF req.tool = "img_gen" THEN image_request(req) ELSE video_request(req)
      accepted == IF req.tool = "img_gen" THEN \E m \in ImageModels : img_gen_exec(m, req)
                  ELSE \E m \in VideoModels : vid_gen_exec(m, req) IN
  accepted => \A kind \in {"images", "videos", "audios"} :
    \/ sent[kind] = [i \in DOMAIN given[kind] |-> i]
    \/ req.tool = "vid_gen" /\ ToSet(given[kind]) \cap {"broken", "number"} # {}

\* The ledger shows a session what its calls made, and a day no more than
\* all days.
SummariesAgree ==
  /\ \A t \in Turns :
       (\A c \in Calls : ~work[c].given_up) =>
         credit_summary_session(t.session).count =
           Cardinality({c \in Calls : Events(c) # {} /\ work[c].turn.session = t.session})
  /\ \A u \in {t.user : t \in Turns} \cup {"local"} :
       /\ credit_summary_today(u).count <= credit_summary_total(u).count
       /\ credit_summary_today(u).credits <= credit_summary_total(u).credits

\* Of parallel generations, some of which their turn has given up: each that
\* succeeds leaves its file and is charged once for it, to its turn, and each
\* that fails costs nothing (img_gen_exec, vid_gen_exec, video_gen_create,
\* runtime_record_usage).  Excepted are files of one kind made in the same
\* second, which share a name, and calls given up, which are charged to the
\* turn that is then bound.
MediaAccounted ==
  /\ \A c \in Calls : FileThere(c) /\ Charged(c)
  /\ work = [c \in Calls |-> Idle] => \A req \in Requests : LabelsMean(req)
  /\ \A e \in credit_events : CreditsCover(e.usage)
  /\ SummariesAgree
=============================================================================
