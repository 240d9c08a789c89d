--------------------------- MODULE InputProperties ---------------------------
(***************************************************************************)
(* What the operators on a user's input promise: pages, throttles, command *)
(* lines and buttons.  Each promise is stated on its own terms, without    *)
(* the operators' own steps, for one input.                                *)
(***************************************************************************)
EXTENDS Inputs, Pagination, RateLimiter, CommandArgs, CallbackCodec, FiniteSets

(***************************************************************************)
(* Pagination.                                                             *)
(***************************************************************************)

\* The items seen by pressing Next from the first page on, as long as the row
\* offers it (once more than there are items, at most).
Walked(items, perPage) ==
    LET walk[n \in 1 .. Len(items) + 2] ==
            LET page == Page(items, items, perPage, n)
                next == NavRow(page)[3]
            IN IF next \in DOMAIN walk THEN page.items \o walk[next] ELSE page.items
    IN walk[1]

\* A list that changes between count and fetch: the page stays one of those that
\* were counted, and so does every page the row leads to.
StaysInRange(counted, fetched, perPage, number) ==
    LET page == Page(counted, fetched, perPage, number)
        inRange == 1 .. Pages(Len(counted), perPage)
    IN /\ page.number \in inRange
       /\ Len(page.items) <= perPage
       /\ \A i \in DOMAIN page.items :
             page.items[i] = fetched[(page.number - 1) * perPage + i]
       /\ \A i \in 1 .. 3 : NavRow(page)[i] \in (inRange \ {page.number}) \cup {Noop}

\* Pressing Next from the first page on shows every item of a list, once; and a page
\* and its row stay in the range that was counted, whatever number a stale button
\* asks for and however the list changes before it is fetched.
PagerShowsEverything ==
    input.kind = "page" =>
        /\ StaysInRange(input.counted, input.fetched, input.perPage, input.number)
        /\ input.counted = input.fetched =>
              Walked(input.counted, input.perPage) = input.counted

(***************************************************************************)
(* Throttles.                                                              *)
(***************************************************************************)

\* The calls of the key that were let through within the window that ends now.
Counted(log, i, now) ==
    {j \in 1 .. i - 1 : /\ log[j].call.key = log[i].call.key
                        /\ log[j].retry = 0
                        /\ now - log[j].at < log[i].call.per}

\* A call is let through exactly when its window has room, and a refused one is
\* told the first time at which it has.
IsSlidingWindow(log) ==
    \A i \in DOMAIN log :
        LET room(now) == Cardinality(Counted(log, i, now)) < log[i].call.limit
        IN /\ (log[i].retry = 0) = room(log[i].at)
           /\ log[i].retry # 0 => /\ log[i].retry > 0
                                  /\ room(log[i].at + log[i].retry)
                                  /\ ~room(log[i].at + log[i].retry - 1)

\* When a key serves two windows the shorter one forgets calls of the longer: too
\* many may pass, but only after a call with a shorter window, and none is
\* refused that had room.
SharedKeyErrsOpen(log) ==
    \A i \in DOMAIN log :
        LET full == Cardinality(Counted(log, i, log[i].at)) >= log[i].call.limit
        IN /\ log[i].retry # 0 => full
           /\ (log[i].retry = 0 /\ full) =>
                 \E j \in 1 .. i - 1 : /\ log[j].call.key = log[i].call.key
                                       /\ log[j].call.per < log[i].call.per

\* Each key has one throttle.
OwnWindows(calls) ==
    \A i, j \in DOMAIN calls : calls[i].key = calls[j].key =>
        calls[i].limit = calls[j].limit /\ calls[i].per = calls[j].per

\* A throttle lets a call through exactly when its sliding window has room, though
\* idle keys are dropped now and then; throttles that share a key never refuse a
\* call that had room.
WindowIsExact ==
    input.kind = "schedule" =>
        /\ SharedKeyErrsOpen(Verdicts(input.calls))
        /\ OwnWindows(input.calls) => IsSlidingWindow(Verdicts(input.calls))

(***************************************************************************)
(* Command lines.                                                          *)
(***************************************************************************)

\* Two words have a separator between them.
Apart(text) == \A i \in 1 .. Len(text) - 1 : {text[i], text[i + 1]} \cap Separators # {}

\* The words of the line fit the usage: one for each argument in turn, each of
\* its type, the rest for the greedy one; what has no word is optional.
Fits(specs, words) ==
    LET greedy == specs # <<>> /\ Last(specs).greedy
        singles == IF greedy THEN Len(specs) - 1 ELSE Len(specs)
    IN /\ Len(words) <= singles \/ greedy
       /\ \A i \in DOMAIN specs : i > Len(words) => ~specs[i].required
       /\ \A i \in 1 .. singles :
             (i <= Len(words) /\ specs[i].type = "number") => words[i] \in Numbers

\* A line without line breaks is accepted exactly when it fits, and then every
\* argument has its word and none is lost.
ParsesItsUsage(params, message) ==
    LET signature == Signature(params)
        words == WordsOf(message)
        parsed == ParseArgs(signature.specs, CommandArgText(message))
    IN signature.ok =>
        /\ parsed.ok = Fits(signature.specs, words)
        /\ parsed.ok =>
              /\ WordsOf(FlattenSeq(parsed.values)) = words
              /\ \A i \in DOMAIN signature.specs : ~signature.specs[i].greedy =>
                    WordsOf(parsed.values[i]) =
                    IF i <= Len(words) THEN <<words[i]>> ELSE <<>>

\* A command line is accepted exactly when it fits the usage that is shown for it.
AcceptedIffUsageFits == input.kind = "line" => ParsesItsUsage(input.params, input.rest)

(***************************************************************************)
(* Buttons.                                                                *)
(***************************************************************************)

\* Whether a value comes back as what it was.  A number in a field that takes texts too
\* comes back as the text, bytes come back as the text that Python shows for them, and
\* what is no text, number or choice makes a button that has expired at once.
KeepsItsType(f, value) ==
    f.type \in {"str", "int", "member"} \/ (f.type = "int_or_str" /\ value.is = "str")

\* Whether a field comes back: a positional button writes nothing for None, which is
\* read as the default; a keyed one writes no default at all.
Returns(model, f, value) ==
    IF value = None THEN model.keyed \/ f.default = None
    ELSE (model.keyed /\ value = f.default) \/ KeepsItsType(f, value)

\* A button gives back the payload it was packed from exactly when each field comes back.
ComesBack(model, payload) ==
    LET packed == Pack(model, payload)
        back == Unpack(model, packed.wire)
    IN packed.ok => ((back.ok /\ back.payload = payload)
                     = \A f \in ToSet(model.fields) : Returns(model, f, payload[f.name]))

\* A button of an old model, pressed after the model has changed: the fields that
\* are in both keep their values if they come back at all, provided the new ones have
\* defaults.  A keyed button allows fields to come, go and move; a positional one only
\* to be added at the end.
Survives(old, new, payload) ==
    LET packed == Pack(old, payload)
        back == Unpack(new, packed.wire)
        kept == {f \in ToSet(old.fields) : f.name \in Names(new)}
        added == {f \in ToSet(new.fields) : f.name \notin Names(old)}
    IN (/\ packed.ok
        /\ \A f \in added : f.default # Required
        /\ \A f \in kept : Returns(old, f, payload[f.name])
        /\ old.keyed \/ IsPrefix(old.fields, new.fields))
       => /\ back.ok
          /\ \A f \in kept : back.payload[f.name] = payload[f.name]

\* A button gives back what it was packed from, but for the losses that a format or a
\* type of field brings, also when it was packed for an older model that changed the way
\* its format allows.
ButtonsComeBack ==
    /\ input.kind = "button" => ComesBack(input.model, input.payload)
    /\ input.kind = "old button" => Survives(input.old, input.new, input.payload)
=============================================================================
