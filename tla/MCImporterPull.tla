--------------------------- MODULE MCImporterPull ---------------------------
(* Four departments, and three people in some of them. *)
EXTENDS ImporterPull, TLC

\* 1 has the children 2 and 3, and 4 is below 2; or 2, 3 and 4 are below 2; or each is below
\* the one before it, so that there are departments above the root 3.
MCRemotes ==
    { [ parent |-> <<0, 1, 1, 2>>, member |-> {<<1, 2>>, <<2, 2>>, <<3, 2>>, <<2, 4>>, <<2, 3>>} ],
      [ parent |-> <<0, 1, 2, 2>>, member |-> {<<1, 1>>, <<2, 4>>, <<1, 4>>} ],
      [ parent |-> <<0, 1, 2, 3>>, member |-> {<<1, 3>>, <<2, 4>>} ] }
\* 3 has a long name: below the root 1 its path is a longer string than that of 4, which is
\* deeper.
MCLetters == <<2, 2, 7, 2>>
=============================================================================
