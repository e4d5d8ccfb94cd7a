----------------------------- MODULE MCTranslation -----------------------------
(***************************************************************************)
(* Instance: documents of a few events over tags of every class, with      *)
(* segments of at most three atoms.                                        *)
(***************************************************************************)
EXTENDS Translation

Start(tag) == [tag |-> tag, no |-> FALSE, lang |-> "none"]
MCStarts ==
    {Start("b"), Start("code"), Start("p"), Start("br"),
     [tag |-> "div", no |-> TRUE, lang |-> "none"], [tag |-> "li", no |-> FALSE, lang |-> "de-AT"]}
MCEmpties == {Start("b")}
MCEnds  == {"b", "code", "div", "p"}
MCTexts == {<<"ws", "word", "num">>, <<"end", "ws", "word">>}

Likely(lang, value) == [lang |-> lang, value |-> value]
MCVerdicts == {<<Likely("de", 90)>>, <<Likely("pt", 60), Likely("de", 35)>>, 
               <<Likely("uk", 50), Likely("de", 45)>>, <<Likely("pt", 90)>>}
MCRegional == [tag \in {"de-AT"} |-> "de"]
================================================================================
