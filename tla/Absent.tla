------------------------------- MODULE Absent -------------------------------
(* The value that stands for no document, no file, no holder.  Modules that *)
(* are checked side by side take it from here, so that it is one and the    *)
(* same for all of them.                                                    *)
CONSTANT None
=============================================================================
