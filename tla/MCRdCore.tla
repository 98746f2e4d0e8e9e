------------------------------ MODULE MCRdCore ------------------------------
(* Constants for TLC: a tree of three lifetimes and two threads; a plain    *)
(* listener and a view; two views of a collection.                          *)
EXTENDS RdCore

CONSTANTS root, view, leaf, main, reader, plain, viewer, one, two,
          early, late, left, right

ThreeScopes == {root, view, leaf}
TwoWorkers == {main, reader}
TwoListeners == {plain, viewer}
OneView == {viewer}
TwoWatchers == {early, late}
TwoKeys == {left, right}
TwoSettings == {one, two}
=============================================================================
