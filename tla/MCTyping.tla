------------------------------ MODULE MCTyping ------------------------------
(* A ring of three slots (two keystrokes), against indices that a freshly     *)
(* allocated context may hold inside and outside of it.                       *)
EXTENDS Typing

CONSTANTS a, b, x, y

\* Two keystrokes that differ in both halves, so that a torn read shows.
MCEntries == {<<a, x>>, <<b, y>>}
=============================================================================
