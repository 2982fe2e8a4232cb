---------------------------- MODULE MC_AppHost ----------------------------
\* AppHost for TLC: nothing tells one layout of hotkeys from another.
EXTENDS AppHost, TLC

LayoutSymmetry == Permutations(Layouts)
=============================================================================
