----------------------------- MODULE MCLinkSystem -----------------------------
EXTENDS LinkSystem, TLC
CONSTANTS e1, e2
MCPlugins == <<<<"link_flap", "link_safety", "link_down">>, <<"test">>>>
MCDisabledSets == {{}, {"link_safety"}}
MCMaxDowns == e1 :> 3 @@ e2 :> 1
=============================================================================
