------------------------------- MODULE Languages -------------------------------
(***************************************************************************)
(* The language of an article and of its segments                          *)
(* (translation/detection.py, languages.py, planner._action).  Confidences *)
(* are percentages.  A verdict of the classifier is its ranked list of     *)
(* [lang, value], best first.                                              *)
(***************************************************************************)
EXTENDS Integers, Sequences, FiniteSetsExt, SequencesExt

CONSTANTS
    Extra,           \* the additional source languages of the environment
    Regional         \* tags that are not ISO 639-1 codes: their primary code, or "none"

TARGET_LANGUAGE == "uk"
CORE_SOURCE_LANGUAGES == {"de", "fr", "en", "lt", "lv", "et", "pl", "hu", "ro", "cs", "sk",
                          "sl", "hr", "it", "es", "nl"}

\* Accepted as a setting: not the target language, and nothing that is no code.
parse_extra_source_languages(codes) ==
    TARGET_LANGUAGE \notin codes /\ codes \cap DOMAIN Regional = {}

ASSUME ExtraAssumption == parse_extra_source_languages(Extra)

supported_source_languages == CORE_SOURCE_LANGUAGES \cup Extra

DEFAULT_MIN_CONFIDENCE == 60
DEFAULT_NEIGHBOUR_CONFIDENCE == 30

Decision(lang, confidence, uncertain, candidate) ==
    [language |-> lang, confidence |-> confidence, uncertain |-> uncertain, candidate |-> candidate]

\* de-AT is de; a tag without a code of two letters is no language at all.
normalize_language_tag(tag) == IF tag \in DOMAIN Regional THEN Regional[tag] ELSE tag

Known(lang) == lang = TARGET_LANGUAGE \/ lang \in supported_source_languages

\* _classify.  Among known languages the confidence is relative to what they got together;
\* an unknown language gives way to a known neighbour that is likely enough.
_classify(ranked) ==
    LET top   == ranked[1]
        known == {i \in DOMAIN ranked : Known(ranked[i].lang)}
        mass  == MapThenSumSet(LAMBDA i : ranked[i].value, known)
        share == (top.value * 100) \div mass
        near  == ranked[SelectInSeq(ranked, LAMBDA r : Known(r.lang))]
    IN  CASE Known(top.lang) -> Decision(top.lang, share, share < DEFAULT_MIN_CONFIDENCE, top.lang)
          [] ~Known(top.lang) /\ known # {} /\ near.value >= DEFAULT_NEIGHBOUR_CONFIDENCE
                             -> Decision(near.lang, near.value, TRUE, top.lang)
          [] OTHER -> Decision(top.lang, top.value, top.value < DEFAULT_MIN_CONFIDENCE, top.lang)

\* detect_article_language: metadata, then the root's lang, then the classifier.
detect_article_language(declared, root_lang, empty, ranked) ==
    LET by_metadata == normalize_language_tag(declared)
        by_root     == normalize_language_tag(root_lang)
    IN  CASE by_metadata # "none"                     -> Decision(by_metadata, 100, FALSE, "none")
          [] by_metadata = "none" /\ by_root # "none" -> Decision(by_root, 100, FALSE, "none")
          [] by_metadata = "none" /\ by_root = "none" /\ (empty \/ ranked = <<>>)
                                                      -> Decision("none", 0, TRUE, "none")
          [] OTHER                                    -> _classify(ranked)

\* detect_segment_language: the nearest lang attribute, then inheritance for short text,
\* then a classifier that is sure or has found a neighbour; else the article's language.
detect_segment_language(own_lang, short, article, ranked) ==
    LET own  == normalize_language_tag(own_lang)
        d    == _classify(ranked)
        sure == ranked # <<>> /\ (d.confidence >= DEFAULT_MIN_CONFIDENCE \/ d.candidate # d.language)
    IN  CASE own # "none"                  -> Decision(own, 100, FALSE, "none")
          [] own = "none" /\ short         -> article
          [] own = "none" /\ ~short /\ sure -> d
          [] own = "none" /\ ~short /\ ranked = <<>>
                                           -> Decision(article.language, 0, TRUE, "none")
          [] OTHER -> Decision(article.language, d.confidence, TRUE, d.candidate)

\* _action of the plan.
_action(language) ==
    CASE language = TARGET_LANGUAGE                -> "keep"
      [] language \in supported_source_languages   -> "translate"
      [] OTHER                                     -> "unsupported"
================================================================================
