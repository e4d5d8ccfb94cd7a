------------------------------ MODULE Translation ------------------------------
(***************************************************************************)
(* The translation of one article: its body is parsed (Segmenter), planned *)
(* (planner.py), translated over the shared translation memory             *)
(* (pipeline.execute_plan, memory.py) and validated (preservation.py), and *)
(* tried again when it did not become complete.  Other articles write the  *)
(* same memory at any moment.                                              *)
(*                                                                         *)
(* What a provider returns for a masked segment is reduced to the order of *)
(* the placeholders in it; 0 stands for a tag, number or URL of its own.   *)
(* Title and lead, texts without markup, are left out.                     *)
(***************************************************************************)
EXTENDS Segmenter, Languages

CONSTANTS
    Declared,    \* original_language of the article: a language or "none"
    Verdicts,    \* what the classifier may say of a text
    ShortChars,  \* short_segment_chars, in atoms
    MaxPlanned,  \* bound on the length of the documents that are planned
    MaxRuns      \* bound on the executions of the plan

VARIABLES
    at,         \* "parse", "plan", "lookup", "translate", "store", "done"
    doc,        \* the segmented document
    language,   \* per segment: the language of its LanguageDecision
    required,   \* ~not_required
    memory,     \* the translation memory: a function from keys to responses
    hits,       \* what get_many returned
    fresh,      \* what the provider returned, per key; NoText where it was cut short
    outcome,    \* complete, and per segment the response its text came from
    runs

vars == <<src, p, at, doc, language, required, memory, hits, fresh, outcome, runs>>
planVars == <<language, required>>

NoOutcome == [complete |-> FALSE, finals |-> <<>>]
NoText == <<-1>>
Empty == <<>>            \* the function with an empty domain

Init ==
    /\ SegmenterInit
    /\ at = "parse" /\ doc = p
    /\ language = <<>> /\ required = FALSE
    /\ memory = Empty /\ hits = Empty /\ fresh = Empty
    /\ outcome = NoOutcome /\ runs = 0

(***************************************************************************)
(* Planning.                                                               *)
(***************************************************************************)
Segs == DOMAIN doc.segments
Short(k) ==
    LET text == Raw(SelectSeq(doc.segments[k].tokens, LAMBDA t : t.kind = "text"))
    IN  Len(text) < ShortChars \/ ~\E i \in DOMAIN text : KindOfAtom(text[i]) \in {"word", "end"}

\* The root's lang is the language of the article, not of a segment.
OwnLang(k) == LET l == doc.segments[k].lang IN IF l = doc.root_lang THEN "none" ELSE l

\* close(), and the plan of the finished document; the verdicts are the classifier's.
close ==
    /\ at = "parse" /\ src # <<>>
    /\ doc' = Closed
    /\ at' = "plan"
    /\ UNCHANGED <<src, p, planVars, memory, hits, fresh, outcome, runs>>

\* Nothing to do: a Ukrainian original in which every segment is Ukrainian.
not_required(article, lang) ==
    /\ article.language = TARGET_LANGUAGE
    /\ ~doc.unterminated
    /\ \A k \in Segs : _action(lang[k]) = "keep"

\* The flag of quality_flags that stands in the way of a version.
language_unsupported == \E k \in Segs : _action(language[k]) = "unsupported"

plan_article_translation(declared, verdict, of) ==
    LET article == detect_article_language(declared, doc.root_lang, Segs = {}, verdict)
        d == [k \in Segs |-> detect_segment_language(OwnLang(k), Short(k), article, of[k])]
    IN  /\ at = "plan" /\ Len(src) <= MaxPlanned
        /\ language' = [k \in Segs |-> d[k].language]
        /\ required' = ~not_required(article, language')
        /\ at' = IF required' THEN "lookup" ELSE "done"
        /\ outcome' = [outcome EXCEPT !.complete = ~required']
        /\ UNCHANGED <<src, p, doc, memory, hits, fresh, runs>>

(***************************************************************************)
(* mask_segment: tags, protected blocks and numbers become placeholders.   *)
(***************************************************************************)
\* _mask_text: of a text only the numbers (and what is masked like them: URLs, e-mails).
MaskText(raw) ==
    [j \in DOMAIN raw |-> [x |-> KindOfAtom(raw[j]) = "num", raw |-> <<raw[j]>>,
                           token |-> 0, word |-> KindOfAtom(raw[j])]]

Items(k) ==
    LET tokens == doc.segments[k].tokens
    IN  FlattenSeq([i \in DOMAIN tokens |->
            IF tokens[i].kind = "text" THEN MaskText(tokens[i].raw)
            ELSE << [x |-> TRUE, raw |-> tokens[i].raw, token |-> i, word |-> "x"] >>])
PlaceholdersOf(items) == SelectSeq(items, LAMBDA t : t.x)
Placeholders(k) == PlaceholdersOf(Items(k))
IndexOf(placeholders, token) == SelectInSeq(placeholders, LAMBDA t : t.token = token)
IdOf(k, token) == IndexOf(Placeholders(k), token)
tag_pairs(k) == {<<IdOf(k, pair[1]), IdOf(k, pair[2])>> : pair \in matched_tag_pairs(doc.segments[k].tokens)}

\* normalize_text: runs of white space are one space.  The hash is of this.
normalized_segment_hash(items) ==
    LET Twice(i) == i > 1 /\ items[i].word = "ws" /\ items[i - 1].word = "ws"
        kept  == {i \in DOMAIN items : ~Twice(i)}
    IN  [n \in 1 .. Cardinality(kept) |->
            LET i == CHOOSE i \in kept : Cardinality({h \in kept : h <= i}) = n
            IN  IF items[i].x THEN "x" ELSE items[i].word]

\* The languages, the hash and the provider: neither the kinds of the placeholders nor the
\* pairs.  Target, provider and glossary are the same for all.
translation_memory_key(source_language, hash) == <<source_language, hash>>

Key(k) == translation_memory_key(language[k], normalized_segment_hash(Items(k)))

Jobs == {k \in Segs : _action(language[k]) = "translate"}

(***************************************************************************)
(* validate_preservation.                                                  *)
(***************************************************************************)
\* _tags_reordered: a pair is turned round, or two pairs cross.
Reordered(pairs, found) ==
    LET Pos(id) == SelectLastInSeq(found, LAMBDA f : f = id)
        spans == {<<Pos(pair[1]), Pos(pair[2])>> :
                     pair \in {q \in pairs : Pos(q[1]) > 0 /\ Pos(q[2]) > 0}}
    IN  \/ \E s \in spans : s[1] > s[2]
        \/ \E a, b \in spans : a[1] < b[1] /\ b[1] < a[2] /\ a[2] < b[2]

\* tag_mismatch, number_mismatch, url_mismatch, email_mismatch: the answer has content of
\* its own of a kind the segment's placeholders stand for.
Mismatch(found) == \E i \in DOMAIN found : found[i] = 0

validate_preservation(k, found) ==
    /\ \A id \in DOMAIN Placeholders(k) : \E i \in DOMAIN found : found[i] = id
    /\ \A i, j \in DOMAIN found : found[i] = found[j] => i = j
    /\ \A i \in DOMAIN found : found[i] \in DOMAIN Placeholders(k) \cup {0}
    /\ ~Reordered(tag_pairs(k), found)
    /\ ~Mismatch(found)

(***************************************************************************)
(* execute_plan.                                                           *)
(***************************************************************************)
get_many ==
    /\ at = "lookup" /\ runs < MaxRuns
    /\ hits' = [key \in {Key(k) : k \in Jobs} \cap DOMAIN memory |-> memory[key]]
    /\ at' = "translate" /\ runs' = runs + 1
    /\ UNCHANGED <<src, p, doc, planVars, memory, fresh, outcome>>

\* The provider: one request per language, and one text per key however many segments have
\* it; a result that is too short spoils the whole request.
Pending == {Key(k) : k \in Jobs} \ DOMAIN hits
Count(key) == Cardinality({i \in DOMAIN key[2] : key[2][i] = "x"})
Orders(n) == {r \in [1 .. n -> 1 .. n] : IsInjective(r)}
\* In any order; or with one lost, one twice, or content of its own.
Answers(key) ==
    LET n == Count(key)
    IN  Orders(n) \cup {Append([i \in 1 .. n |-> i], j) : j \in {0, 1, n + 1}}
                  \cup {[i \in 1 .. n - 1 |-> i]}

translate ==
    /\ at = "translate"
    /\ \E truncated \in SUBSET {key[1] : key \in Pending} :
          /\ fresh' \in [Pending -> UNION {Answers(key) : key \in Pending} \cup {NoText}]
          /\ \A key \in Pending : fresh'[key] \in IF key[1] \in truncated THEN {NoText} ELSE Answers(key)
    /\ at' = "store"
    /\ UNCHANGED <<src, p, doc, planVars, memory, hits, outcome, runs>>

Translated(k) == IF Key(k) \in DOMAIN hits THEN hits[Key(k)] ELSE fresh[Key(k)]

Accepted_hits_trusted(k) ==
    Translated(k) # NoText /\ (Key(k) \in DOMAIN hits \/ validate_preservation(k, Translated(k)))

\* What comes from the memory is validated like what comes from the provider.
Accepted(k) == Translated(k) # NoText /\ validate_preservation(k, Translated(k))

Complete_without_count(final) ==
    /\ ~language_unsupported
    /\ \A key \in DOMAIN fresh : fresh[key] # NoText

\* All jobs have a text, and neither of the two flags that forbid a version is set.
Complete(final) ==
    /\ final = Jobs
    /\ ~language_unsupported
    /\ \A key \in DOMAIN fresh : fresh[key] # NoText

\* put_many: the first write wins.
put_many(entries) ==
    memory' = [key \in DOMAIN memory \cup DOMAIN entries |->
                  IF key \in DOMAIN memory THEN memory[key] ELSE entries[key]]

\* Validation, put_many of what passed it and was not a hit, and the outcome.
store ==
    LET final == {k \in Jobs : Accepted(k)}
        new   == {Key(k) : k \in {j \in final : Key(j) \notin DOMAIN hits}}
    IN  /\ at = "store"
        /\ put_many([key \in new |-> fresh[key]])
        /\ IF Complete(final)
           THEN /\ at' = "done"
                /\ outcome' = [complete |-> TRUE, finals |-> [k \in final |-> Translated(k)]]
           ELSE at' = "lookup" /\ UNCHANGED outcome
        /\ hits' = Empty /\ fresh' = Empty
        /\ UNCHANGED <<src, p, doc, planVars, runs>>

\* The provider or the memory raises: nothing of this execution is kept.
raises ==
    /\ at \in {"translate", "store"}
    /\ at' = "lookup" /\ hits' = Empty /\ fresh' = Empty
    /\ UNCHANGED <<src, p, doc, planVars, memory, outcome, runs>>

\* Another article has a segment with the same masked text, whose placeholders are not the
\* same tags: any order of them may have been valid for it.
other_article_stores(key) ==
    /\ at \in {"lookup", "translate", "store"} /\ key \notin DOMAIN memory
    /\ \E r \in Orders(Count(key)) : put_many([l \in {key} |-> r])
    /\ UNCHANGED <<src, p, at, doc, planVars, hits, fresh, outcome, runs>>

Next ==
    \/ at = "parse" /\ Feed /\ UNCHANGED <<at, doc, planVars, memory, hits, fresh, outcome, runs>>
    \/ close
    \/ \E d \in Declared, v \in Verdicts, of \in [Segs -> Verdicts] : plan_article_translation(d, v, of)
    \/ get_many \/ translate \/ store \/ raises
    \/ language # <<>> /\ \E k \in Jobs : other_article_stores(Key(k))

Spec == Init /\ [][Next]_vars

(***************************************************************************)
(* Properties.                                                             *)
(***************************************************************************)
\* Reassembling the untranslated segments gives back the source, every piece once and in
\* its place, whatever the nesting, the white space and the cuts
\* (segmenter.reassemble, _flush, _chunks, _emit).
RoundTrip == at = "plan" => reassemble(doc, Original(doc)) = Atoms

\* Matched inline tags are never separated: both ends are in one segment, or neither is in
\* any (segmenter._flush, _chunks).
PairsTogether ==
    at = "plan" =>
        \A pair \in matched_tag_pairs(p.run) :
            SegmentsWith(doc, p.run[pair[1]].raw) = SegmentsWith(doc, p.run[pair[2]].raw)

\* Visible text is not sent for translation while a protected element with nothing but text
\* and its own tags in it is open, and is sent once every protected element before it has
\* ended, by its own end tag, its parent's, or a block in an inline element: none of it is
\* silently left out, and text that an element without an end has swallowed marks the
\* document (segmenter._start, handle_endtag, close).
TextAccounted ==
    at = "plan" =>
        \A a \in ToSet(Atoms) : KindOfAtom(a) \notin {"markup", "ws"} =>
            /\ (\E i \in 1 .. a[1] : StillOpen(i, a[1])) => a \notin TextOf(doc)
            /\ (\A i \in 1 .. a[1] : Protects(i) => Ended(i, a[1])) => a \in TextOf(doc)
            /\ (\E i \in 1 .. a[1] : StillOpen(i, Len(src))) => doc.unterminated

Rendered(k) ==
    IF k \in DOMAIN outcome.finals
    THEN FlattenSeq([i \in DOMAIN outcome.finals[k] |->
            IF outcome.finals[k][i] \in DOMAIN Placeholders(k)
            THEN Placeholders(k)[outcome.finals[k][i]].raw ELSE << <<"stray", 1>> >>])
    ELSE Raw(doc.segments[k].tokens)
Output == reassemble(doc, [k \in Segs |-> Rendered(k)])
Positions(a) == {i \in DOMAIN Output : Output[i] = a}
Where(a) == CHOOSE i \in Positions(a) : TRUE

\* A version that is published has every tag, protected block and number of the original
\* exactly once, and matched tags still open before they close and do not cross, also when
\* its texts came from a memory entry that another article wrote (pipeline.execute_plan,
\* preservation.validate_preservation).
MarkupKept ==
    at = "done" /\ required =>
        /\ \A a \in ToSet(Atoms) : KindOfAtom(a) \in {"markup", "num"} => Cardinality(Positions(a)) = 1
        /\ \A k \in Segs :
              LET t == doc.segments[k].tokens
                  Span(pair) == <<Where(t[pair[1]].raw[1]), Where(t[pair[2]].raw[1])>>
                  spans == {Span(pair) : pair \in matched_tag_pairs(t)}
              IN  \A a, b \in spans : a[1] < a[2] /\ ~(a[1] < b[1] /\ b[1] < a[2] /\ a[2] < b[2])

\* A version that is published leaves no segment in a language other than Ukrainian: the
\* original that stands in for a missing translation is used only for segments to keep
\* (pipeline.execute_plan, planner.not_required).
NothingLeftForeign ==
    at = "done" =>
        \A k \in Segs : language[k] = TARGET_LANGUAGE \/ k \in DOMAIN outcome.finals
================================================================================
