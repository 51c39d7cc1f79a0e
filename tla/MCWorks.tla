------------------------------- MODULE MCWorks -------------------------------
(***************************************************************************)
(* Works for TLC: what the sources report about two articles.               *)
(***************************************************************************)
EXTENDS Works, TLC

CONSTANTS A, B

MCKnown == {<<"doi", A>>}

Reported(ids, raw, tracked, related) ==
    [ids |-> ids, raw |-> raw, tracked |-> tracked, related |-> related]

\* B cites A, and A cites B; B is known by several identifiers.
MCItems ==
    {Reported({<<"doi", B>>, <<"canonical_url", B>>}, FALSE, TRUE, <<"doi", A>>),
     Reported({<<"canonical_url", B>>}, FALSE, FALSE, <<"doi", A>>),
     Reported({<<"pmid", B>>, <<"doi", B>>}, FALSE, TRUE, <<"doi", A>>),
     Reported({<<"arxiv", B>>}, FALSE, TRUE, <<"doi", A>>),
     Reported({<<"doi", A>>, <<"pmid", A>>}, FALSE, TRUE, <<"doi", B>>)}

MCReports ==
    {<<i>> : i \in MCItems}
    \cup {<<Reported({<<"canonical_url", B>>}, TRUE, FALSE, <<"doi", A>>),
           Reported({<<"arxiv", B>>}, FALSE, TRUE, <<"doi", A>>)>>}

ASSUME OneArticle

MCSymmetry == Permutations(Jobs)

===============================================================================
