--------------------------- MODULE MCDomainLists ---------------------------
(***************************************************************************)
(* A domain, a name two labels below it, a top-level domain, and names     *)
(* that only look like a domain: addresses in two notations, and one whose *)
(* last label has no letter.                                               *)
(***************************************************************************)
EXTENDS DomainLists

Site == <<"a", "org">>
Page == <<"x", "y", "a", "org">>
Host == <<"10", "7">>
Hex == <<"10", "0x7">>
Dash == <<"a", "1-2">>
Tld == <<"org">>

MCNames == {Site, Page, Host, Hex, Dash, Tld}
MCDigits == {"7", "10"}
MCHexes == {"0x7"}
MCDashed == {"1-2"}
MCEdited == [l \in Lists |-> IF l = "blocked" THEN {Page} ELSE {Page, Site}]
MCByHand ==
  [l \in Lists |->
     {IF l = "blocked" THEN {Dotted(Page), Bare(Site), Dotted(Site)}
      ELSE {Dotted(Tld), Dotted(Host), Bare(Hex), Dotted(Dash), Bare(Page)}}]
MCFetched == {{Page, Site}, {}}
=============================================================================
