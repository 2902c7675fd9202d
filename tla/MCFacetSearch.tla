--------------------------- MODULE MCFacetSearch ---------------------------
(***************************************************************************)
(* The instance of FacetSearch for TLC: three products, two facet fields,  *)
(* a field of Solr that Product lacks, and a field that Solr lacks.        *)
(***************************************************************************)
EXTENDS FacetSearch, TLC

CONSTANTS laptop, mouse, radio, cat, manu_exact, stamp, foo,
          computers, electronics, apple, wordMark, word, broken, joined

\* wordMark is word, a '?' or '=' and more; it is also the manufacturer of a radio.
MCTexts == Numbers \cup {computers, electronics, apple, wordMark, word, broken, joined}
MCBefore == [t \in MCTexts |-> IF t = wordMark THEN word ELSE t]

Of(cats, manus) == cat :> cats @@ manu_exact :> manus @@ stamp :> {}

MCAttr == laptop :> Of({computers, electronics}, {apple})
       @@ mouse :> Of({computers}, {apple})
       @@ radio :> Of({electronics}, {wordMark})

MCFinds == [t \in MCTexts |-> CASE t = word -> {laptop, radio}
                                [] t = wordMark -> {laptop, mouse}
                                [] OTHER -> {}]

\* Selections of facets that are typed: none, one that fits, one that finds
\* nothing, one the view has no property for, one Solr refuses.
TypedFacets ==
  {NoFacets} \cup
  {[NoFacets EXCEPT ![fv[1]] = fv[2]] :
     fv \in {<<cat, computers>>, <<cat, apple>>, <<stamp, apple>>, <<foo, apple>>}}

\* Numbers that are typed: page 4 of 3 overflows to a negative start, page 7 of 3
\* to a positive one.
TypedNumbers == {<<None, None>>, <<word, 1>>, <<2, 1>>, <<2, -1>>, <<0, 3>>, <<4, 3>>, <<7, 3>>}

\* Addresses that are read in one way.
Straight ==
  {DictToQuerystring([k \in Keys |-> IF k = "q" THEN q ELSE IF k = "page" THEN ns[1]
                                     ELSE IF k = "pageSize" THEN ns[2] ELSE facets[k]]) :
     q \in {None, word}, ns \in TypedNumbers, facets \in TypedFacets}

Clean(t) == [text |-> t, raw |-> FALSE, beyond |-> FALSE]
Marked == [text |-> wordMark, raw |-> TRUE, beyond |-> FALSE]
Lost(t) == [text |-> t, raw |-> FALSE, beyond |-> TRUE]

\* Addresses with a raw '?' or '=', parameters after a second '?', duplicates.  (The
\* '?' may stand in a parameter nobody reads, so that each combination exists.)
Crooked ==
  {[Blank EXCEPT !["q"] = q, !["page"] = <<Clean(2)>>, !["pageSize"] = size, ![cat] = cats] :
     q \in {<<Clean(wordMark)>>, <<Marked>>, <<Clean(broken), Clean(word)>>, <<Marked, Lost(word)>>},
     size \in {<<Lost(1)>>, <<Clean(3), Clean(1)>>},
     cats \in {<< >>, <<Lost(computers)>>, <<Clean(electronics), Clean(computers)>>}}

MCTyped == Straight \cup Crooked
=============================================================================
