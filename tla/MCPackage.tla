------------------------------ MODULE MCPackage -----------------------------
EXTENDS Package, TLC
CONSTANTS plain, tagged, escaped, twice

(* Text with markup changes whenever it goes through the zip: < becomes &lt;, *)
(* then &amp;lt;. With MaxStarts = 3 at most one import follows an export   *)
(* that had its text, so twice closes the function and never occurs.        *)
MCMarkup == (plain :> plain) @@ (tagged :> escaped) @@ (escaped :> twice) @@ (twice :> twice)
MCStored ==
    [statement |-> {[text |-> t, lang |-> "markdown"] : t \in {plain, tagged}},
     std |-> {[text |-> plain, lang |-> l] : l \in {"python", "other"}}]
Symmetry == Permutations(Requests)
=============================================================================
