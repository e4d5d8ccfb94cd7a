------------------------------- MODULE Segmenter -------------------------------
(***************************************************************************)
(* The HTML segmenter (translation/segmenter.py) as the machine it is: the *)
(* events of html.parser arrive one by one and each moves source text into *)
(* the immutable parts, the current run of inline tokens, or the buffer of *)
(* a protected element.                                                    *)
(*                                                                         *)
(* Source text is a sequence of atoms <<event, position>>: a tag is one    *)
(* atom, text is a few, of the kinds "ws" (white space), "word", "num"     *)
(* and "end" (a word that ends a sentence).  `translate_attributes` is empty, which  *)
(* is its default.                                                         *)
(***************************************************************************)
EXTENDS Integers, Sequences, FiniteSets, SequencesExt

CONSTANTS
    Starts,      \* start tags that may arrive: [tag, no, lang]; no: translate="no"
    Empties,     \* tags that may arrive closed at once, <b/>
    Ends,        \* end tags that may arrive
    Texts,       \* texts that may arrive: sequences of kinds
    MaxChars,    \* max_segment_chars in atoms; 0: None
    MaxEvents    \* bound on the length of a document

\* White space, a word, a number (a URL, an address), a word that ends a sentence.
TextKinds == {"ws", "word", "num", "end"}

ASSUME TextsAssumption == Texts \subseteq Seq(TextKinds) \ {<<>>}

VARIABLES src, p
    \* src: the events so far.  p: the fields of _Segmenter.

INLINE_TAGS           == {"a", "b", "br", "em", "i", "img", "span", "strong", "sub", "sup", "wbr"}
PROTECTED_INLINE_TAGS == {"code", "kbd", "samp", "var"}
SKIPPED_TAGS          == {"head", "pre", "script", "style", "svg", "textarea"}
VOID_TAGS             == {"br", "hr", "img", "input", "wbr"}
IMPLIED_END_SCAN      == 256

\* _IMPLIED_END: what the start of a tag closes, and how far it looks.
Implied(closes, boundary) == [closes |-> closes, boundary |-> boundary]
IMPLIED_END(tag) ==
    CASE tag = "li"            -> Implied({"li"}, {"ul", "ol", "menu"})
      [] tag \in {"dt", "dd"}  -> Implied({"dt", "dd"}, {"dl"})
      [] tag \in {"td", "th"}  -> Implied({"td", "th"}, {"tr", "table"})
      [] tag = "tr"            -> Implied({"tr", "td", "th"}, {"table", "thead", "tbody", "tfoot"})
      [] OTHER                 -> Implied({}, {})

Tok(kind, raw, name, closing) == [kind |-> kind, raw |-> raw, name |-> name, closing |-> closing]
NoSkip == [on |-> FALSE, name |-> "", to_run |-> FALSE, buffer |-> <<>>, depth |-> 0,
           inner |-> <<>>, closers |-> {}]

SegmenterInit ==
    /\ src = <<>>
    /\ p = [parts |-> <<>>, segments |-> <<>>, stack |-> <<>>, run |-> <<>>, context |-> "none",
            skip |-> NoSkip, root_lang |-> "none", top_level |-> 0, unterminated |-> FALSE]

KindOfAtom(a) == LET e == src[a[1]] IN IF e.type = "text" THEN e.text[a[2]] ELSE "markup"
Raw(tokens) == FlattenSeq([i \in DOMAIN tokens |-> tokens[i].raw])
Visible(raw) == \E i \in DOMAIN raw : KindOfAtom(raw[i]) # "ws"        \* .strip()
Unchanged(raws) == [i \in DOMAIN raws |-> [slot |-> 0, raw |-> raws[i]]]
Part(q, raw) == [q EXCEPT !.parts = Append(@, [slot |-> 0, raw |-> raw])]

(***************************************************************************)
(* matched_tag_pairs.                                                      *)
(***************************************************************************)
IsTag(t) == t.kind = "tag" /\ t.name \notin VOID_TAGS

matched_tag_pairs(tokens) ==
    LET step(acc, i) ==
            LET t == tokens[i] IN
            IF ~IsTag(t) THEN acc
            ELSE IF ~t.closing THEN [acc EXCEPT !.stack = Append(@, i)]
            ELSE IF acc.stack # <<>> /\ tokens[Last(acc.stack)].name = t.name
                 THEN [stack |-> Front(acc.stack), pairs |-> acc.pairs \cup {<<Last(acc.stack), i>>}]
                 ELSE acc
    IN  FoldLeftDomain(step, [stack |-> <<>>, pairs |-> {}], tokens).pairs

(***************************************************************************)
(* _flush: the run becomes segments.                                       *)
(***************************************************************************)
\* _emit: white space at the edges stays outside the segment.
Words(raw) == {i \in DOMAIN raw : KindOfAtom(raw[i]) # "ws"}
LStrip(raw) == IF Words(raw) = {} THEN Len(raw) ELSE (CHOOSE i \in Words(raw) : \A j \in Words(raw) : i <= j) - 1
RStrip(raw) == IF Words(raw) = {} THEN 0 ELSE CHOOSE i \in Words(raw) : \A j \in Words(raw) : i >= j

\* [token for token in tokens if token.raw]
KeepToken(kept, t) == IF t.raw = <<>> THEN kept ELSE Append(kept, t)
NonEmpty(tokens) ==
    LET kept[i \in 0 .. Len(tokens)] ==
            IF i = 0 THEN <<>> ELSE KeepToken(kept[i - 1], tokens[i])
    IN  kept[Len(tokens)]

_emit(q, all) ==
    LET tokens == NonEmpty(all)
        n      == Len(tokens)
        head   == IF tokens[1].kind = "text" THEN LStrip(tokens[1].raw) ELSE 0
        first  == [tokens EXCEPT ![1].raw = SubSeq(@, head + 1, Len(@))]
        tail   == IF first[n].kind = "text" THEN RStrip(first[n].raw) ELSE Len(first[n].raw)
        both   == [first EXCEPT ![n].raw = SubSeq(@, 1, tail)]
        slot   == Len(q.segments) + 1
    IN  IF ~\E i \in 1 .. n : tokens[i].kind = "text" /\ Visible(tokens[i].raw)
        THEN [q EXCEPT !.parts = @ \o Unchanged([i \in 1 .. n |-> tokens[i].raw])]
        ELSE [q EXCEPT
                !.segments = Append(@, [tokens |-> NonEmpty(both), lang |-> q.context]),
                !.parts = @ \o <<[slot |-> 0, raw |-> SubSeq(tokens[1].raw, 1, head)],
                                 [slot |-> slot, raw |-> <<>>],
                                 [slot |-> 0, raw |-> SubSeq(first[n].raw, tail + 1, Len(first[n].raw))]>>]

EmitAll(q, chunks) ==
    LET emitted[k \in 0 .. Len(chunks)] ==
            IF k = 0 THEN q ELSE _emit(emitted[k - 1], chunks[k])
    IN  emitted[Len(chunks)]

PlainLength(tokens) == Len(Raw(SelectSeq(tokens, LAMBDA t : t.kind = "text")))

\* lists[-1].append(x)
AddToLast(lists, x) == Append(Front(lists), Append(Last(lists), x))

\* _split_keeping_whitespace: cuts where white space follows the end of a sentence.
AddAtom(pieces, raw, i) ==
    IF i > 1 /\ KindOfAtom(raw[i]) = "ws" /\ KindOfAtom(raw[i - 1]) = "end"
    THEN Append(pieces, <<raw[i]>>)
    ELSE AddToLast(pieces, raw[i])
Sentences(raw) ==
    LET pieces[i \in 0 .. Len(raw)] ==
            IF i = 0 THEN << <<>> >> ELSE AddAtom(pieces[i - 1], raw, i)
    IN  pieces[Len(raw)]

Nested_never(pairs, i) == FALSE

\* depth_change: only matched pairs nest.
Nested(pairs, i) == \E pair \in pairs : pair[1] <= i /\ i < pair[2]

\* _chunks: too long a run is cut after sentences that end outside every matched pair.
AddSentence(units, raw) ==
    LET longer == AddToLast(units, Tok("text", raw, "", FALSE))
    IN  IF KindOfAtom(Last(raw)) = "end" THEN Append(longer, <<>>) ELSE longer
AddSentences(units, sentences) ==
    LET longer[k \in 0 .. Len(sentences)] ==
            IF k = 0 THEN units ELSE AddSentence(longer[k - 1], sentences[k])
    IN  longer[Len(sentences)]
AddToken(units, tokens, i) ==
    IF tokens[i].kind # "text" \/ Nested(matched_tag_pairs(tokens), i) THEN AddToLast(units, tokens[i])
    ELSE AddSentences(units, Sentences(tokens[i].raw))
Units(tokens) ==
    LET units[i \in 0 .. Len(tokens)] ==
            IF i = 0 THEN << <<>> >> ELSE AddToken(units[i - 1], tokens, i)
    IN  units[Len(tokens)]
Join(chunks, unit) ==
    IF chunks # <<>> /\ PlainLength(Last(chunks)) + PlainLength(unit) <= MaxChars
    THEN Append(Front(chunks), Last(chunks) \o unit)
    ELSE IF unit # <<>> THEN Append(chunks, unit) ELSE chunks
Joined(units) ==
    LET chunks[k \in 0 .. Len(units)] ==
            IF k = 0 THEN <<>> ELSE Join(chunks[k - 1], units[k])
    IN  chunks[Len(units)]
_chunks(tokens) ==
    IF MaxChars = 0 \/ PlainLength(tokens) <= MaxChars THEN <<tokens>> ELSE Joined(Units(tokens))

\* _flush: unmatched tags at the edges of the run stay outside, the rest is emitted.
_flush(q) ==
    LET run     == q.run
        matched == UNION {{pair[1], pair[2]} : pair \in matched_tag_pairs(run)}
        Edge(i) == run[i].kind = "tag" /\ i \notin matched
        inside  == {i \in DOMAIN run : ~Edge(i)}
        start   == IF inside = {} THEN Len(run) + 1 ELSE CHOOSE i \in inside : \A j \in inside : i <= j
        end     == IF inside = {} THEN Len(run) ELSE CHOOSE i \in inside : \A j \in inside : i >= j
        Raws(a, b) == [i \in 1 .. b - a + 1 |-> run[a + i - 1].raw]
        before  == [q EXCEPT !.run = <<>>, !.parts = @ \o Unchanged(Raws(1, start - 1))]
        emitted == IF start > end THEN before
                   ELSE EmitAll(before, _chunks(SubSeq(run, start, end)))
    IN  IF run = <<>> THEN q
        ELSE [emitted EXCEPT !.parts = @ \o Unchanged(Raws(end + 1, Len(run)))]

(***************************************************************************)
(* Tokens and skipped elements.                                            *)
(***************************************************************************)
ContextOf(stack) == IF stack = <<>> THEN "none" ELSE Last(stack).lang
_context(q) == ContextOf(q.stack)
_append(q, t) == [q EXCEPT !.context = IF q.run = <<>> THEN _context(q) ELSE @, !.run = Append(@, t)]

Buffered(q, raw) == [q EXCEPT !.skip.buffer = @ \o raw]

_text(q, raw) ==
    IF q.skip.on THEN Buffered(q, raw)
    ELSE IF q.run # <<>> /\ Last(q.run).kind = "text" THEN [q EXCEPT !.run[Len(q.run)].raw = @ \o raw]
    ELSE _append(q, Tok("text", raw, "", FALSE))

_opaque_to_parts(q, raw) == IF q.skip.on THEN Buffered(q, raw) ELSE Part(q, raw)

_opaque(q, raw) ==
    IF q.skip.on THEN Buffered(q, raw)
    ELSE IF q.run # <<>> THEN _append(q, Tok("protected", raw, "", FALSE))
    ELSE Part(q, raw)

_end_skip(q) ==
    LET s == q.skip
        r == [q EXCEPT !.skip = NoSkip]
    IN  IF s.to_run THEN _append(r, Tok("protected", s.buffer, "", FALSE)) ELSE Part(r, s.buffer)

Ancestors(stack) == {stack[i].tag : i \in DOMAIN stack}

\* The inline tags that are open after the tokens, as a stack.
NextOpen(open, t) ==
    IF ~IsTag(t) THEN open
    ELSE IF ~t.closing THEN Append(open, t.name)
    ELSE IF open # <<>> /\ Last(open) = t.name THEN Front(open) ELSE open
OpenInline(tokens) ==
    LET open[i \in 0 .. Len(tokens)] ==
            IF i = 0 THEN <<>> ELSE NextOpen(open[i - 1], tokens[i])
    IN  open[Len(tokens)]

\* _open_ancestors: the block stack and the inline tags that are open in the run.
OpenAncestors(q) ==
    Ancestors(q.stack) \cup ToSet(OpenInline(q.run))

\* The block stack after an open paragraph, and what the tag closes by _IMPLIED_END.
WithoutP(stack) == IF stack # <<>> /\ Last(stack).tag = "p" THEN Front(stack) ELSE stack
Closes(stack, e) ==
    LET at == SelectLastInSeq(stack, LAMBDA f : f.tag \in e.closes \cup e.boundary)
    IN  IF at > Len(stack) - IMPLIED_END_SCAN /\ at > 0 /\ stack[at].tag \notin e.boundary
        THEN SubSeq(stack, 1, at - 1) ELSE stack

_block_start(q, tag, raw, lang, void) ==
    LET stack == Closes(WithoutP(q.stack), IMPLIED_END(tag))
        frame == [tag |-> tag, lang |-> IF lang = "none" THEN ContextOf(stack) ELSE lang]
    IN  [Part(_flush(q), raw) EXCEPT !.stack = IF void THEN stack ELSE Append(stack, frame)]

\* A start tag inside a protected element: an inline one is left at a block.
LeavesSkip(q, tag) == q.skip.to_run /\ tag \notin INLINE_TAGS \cup PROTECTED_INLINE_TAGS

NestedStart(q, tag, raw, void) ==
    IF void THEN Buffered(q, raw)
    ELSE IF tag = q.skip.name THEN [Buffered(q, raw) EXCEPT !.skip.depth = @ + 1]
    ELSE [Buffered(q, raw) EXCEPT !.skip.inner = Append(@, tag)]

\* The lang of a single top-level element is the document's.
Rooted(q, lang) ==
    IF q.stack # <<>> THEN q
    ELSE [q EXCEPT !.top_level = @ + 1,
                   !.root_lang = IF q.top_level = 0 THEN lang ELSE "none"]

\* _start, outside of a protected element.
StartOutside(q, e, raw, void) ==
    LET tag == e.tag
        inline == tag \in INLINE_TAGS \cup PROTECTED_INLINE_TAGS
        protect == tag \in SKIPPED_TAGS \cup PROTECTED_INLINE_TAGS \/ e.no
        opened == [on |-> TRUE, name |-> tag, to_run |-> inline, buffer |-> raw,
                   depth |-> 1, inner |-> <<>>, closers |-> OpenAncestors(q)]
    IN  CASE protect /\ void /\ inline -> _opaque(q, raw)
          [] protect /\ ~void /\ inline -> [q EXCEPT !.skip = opened]
          [] protect /\ ~void /\ ~inline ->
                [_flush(q) EXCEPT !.skip = [opened EXCEPT !.closers = Ancestors(q.stack)]]
          [] tag \in INLINE_TAGS /\ ~protect -> _append(q, Tok("tag", raw, tag, FALSE))
          [] OTHER -> _block_start(q, tag, raw, e.lang, void)

_start(q, e, raw, void) ==
    CASE ~q.skip.on -> StartOutside(Rooted(q, e.lang), e, raw, void)
      [] q.skip.on /\ LeavesSkip(q, e.tag) ->
            StartOutside(Rooted(_end_skip(q), e.lang), e, raw, void)
      [] OTHER -> NestedStart(q, e.tag, raw, void)

EndOutside(q, tag, raw) ==
    IF tag \in INLINE_TAGS THEN _append(q, Tok("tag", raw, tag, TRUE))
    ELSE LET r  == Part(_flush(q), raw)
             at == SelectLastInSeq(r.stack, LAMBDA f : f.tag = tag)
         IN  IF at = 0 THEN r ELSE [r EXCEPT !.stack = SubSeq(@, 1, at - 1)]

ClosesSkip_never(s, tag) == FALSE

\* The end tag of an element that was open around the protected one.
ClosesSkip(s, tag) == tag \in s.closers

_end(q, tag, raw) ==
    LET s == q.skip
        inner == SelectLastInSeq(s.inner, LAMBDA t : t = tag)
    IN  CASE ~s.on -> EndOutside(q, tag, raw)
          [] s.on /\ inner > 0 -> [Buffered(q, raw) EXCEPT !.skip.inner = RemoveAt(@, inner)]
          [] s.on /\ inner = 0 /\ tag = s.name ->
                LET r == [Buffered(q, raw) EXCEPT !.skip.depth = @ - 1]
                IN  IF s.depth = 1 THEN _end_skip(r) ELSE r
          [] s.on /\ inner = 0 /\ tag # s.name /\ ~ClosesSkip(s, tag) -> Buffered(q, raw)
          [] OTHER -> EndOutside(_end_skip(q), tag, raw)   \* an ancestor closes

(***************************************************************************)
(* The events of html.parser.                                              *)
(***************************************************************************)
Tag1 == << <<Len(src) + 1, 1>> >>            \* the raw text of a tag or comment
Event(e) == Len(src) < MaxEvents /\ src' = Append(src, e)

handle_starttag(e) ==
    /\ Event([type |-> "start", tag |-> e.tag, no |-> e.no, lang |-> e.lang])
    /\ p' = _start(p, e, Tag1, e.tag \in VOID_TAGS)

handle_startendtag(e) ==
    /\ Event([type |-> "empty", tag |-> e.tag, no |-> e.no, lang |-> e.lang])
    /\ p' = _start(p, e, Tag1, TRUE)

handle_endtag(tag) ==
    /\ Event([type |-> "end", tag |-> tag])
    /\ p' = _end(p, tag, Tag1)

handle_data(t) ==
    /\ Event([type |-> "text", text |-> t])
    /\ p' = _text(p, [i \in DOMAIN t |-> <<Len(src) + 1, i>>])

handle_comment ==
    /\ Event([type |-> "comment"])
    /\ p' = _opaque(p, Tag1)

\* close(): a protected element that is still open takes the rest of the document.
Closed ==
    _flush(IF p.skip.on THEN [_end_skip(p) EXCEPT !.unterminated = TRUE] ELSE p)

Feed ==
    \/ \E e \in Starts : handle_starttag(e)
    \/ \E e \in Empties : handle_startendtag(e)
    \/ \E t \in Ends : handle_endtag(t)
    \/ \E t \in Texts : handle_data(t)
    \/ handle_comment

\* reassemble(document, translations): the parts with a translation in each slot.
reassemble(q, translations) ==
    FlattenSeq([i \in DOMAIN q.parts |->
        IF q.parts[i].slot = 0 THEN q.parts[i].raw ELSE translations[q.parts[i].slot]])

Original(q) == [k \in DOMAIN q.segments |-> Raw(q.segments[k].tokens)]

(***************************************************************************)
(* What a segmented document d promises about the source.                  *)
(***************************************************************************)
Atoms == FlattenSeq([i \in DOMAIN src |->
    IF src[i].type = "text" THEN [j \in DOMAIN src[i].text |-> <<i, j>>] ELSE << <<i, 1>> >>])

SegmentsWith(d, raw) ==
    {k \in DOMAIN d.segments : \E t \in ToSet(d.segments[k].tokens) : t.raw = raw}

Protects(i) ==
    src[i].type = "start" /\ src[i].tag \notin VOID_TAGS
       /\ (src[i].no \/ src[i].tag \in SKIPPED_TAGS \cup PROTECTED_INLINE_TAGS)
Same(i, j, type) == {k \in i .. j : src[k].type = type /\ src[k].tag = src[i].tag}
\* The element of start tag i, with only text and its own tags after it, is open at n.
StillOpen(i, n) ==
    /\ Protects(i)
    /\ \A k \in i .. n : src[k].type \in {"text", "comment"} \/ src[k].tag = src[i].tag
    /\ \A k \in i .. n : Cardinality(Same(i, k, "start")) > Cardinality(Same(i, k, "end"))
\* The start tag h, with only text after it, is the parent of the element of start tag i.  No
\* inline element is open at a block.
IsInline(i) == src[i].tag \in INLINE_TAGS \cup PROTECTED_INLINE_TAGS
Parent(h, i) ==
    /\ src[h].type = "start" /\ src[h].tag \notin VOID_TAGS /\ ~Protects(h)
    /\ \A k \in h + 1 .. i - 1 : src[k].type \in {"text", "comment"}
    /\ IsInline(h) => IsInline(i)
\* The protected element of start tag i ends with event j: its last end tag, that of its
\* parent, or a block that starts in an inline element.
EndsAt(i, j) ==
    /\ StillOpen(i, j - 1)
    /\ \/ /\ src[j].type = "end" /\ src[j].tag = src[i].tag
          /\ Cardinality(Same(i, j, "start")) = Cardinality(Same(i, j, "end"))
       \/ /\ src[j].type = "end" /\ src[j].tag # src[i].tag
          /\ \E h \in 1 .. i - 1 : Parent(h, i) /\ src[h].tag = src[j].tag
       \/ /\ src[j].type \in {"start", "empty"}
          /\ IsInline(i) /\ ~IsInline(j)
\* Start tag k is in an element that has ended by event n.
Ended(k, n) == \E i \in 1 .. k, j \in k + 1 .. n : EndsAt(i, j)
TextOf(d) ==
    LET tokens == UNION {ToSet(d.segments[k].tokens) : k \in DOMAIN d.segments}
    IN  UNION {ToSet(t.raw) : t \in {t \in tokens : t.kind = "text"}}
================================================================================
