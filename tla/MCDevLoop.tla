----------------------------- MODULE MCDevLoop ------------------------------
(* Instances of DevLoop for TLC. *)
EXTENDS DevLoop

CONSTANT t

\* Edits of every kind with no page, edits of the application with a page, and
\* edits of the assets with a page.
DefaultScenes ==
  {[edited |-> {"go", "script"}, open |-> {}],
   [edited |-> {"go"}, open |-> {t}],
   [edited |-> {"css", "script"}, open |-> {t}]}
=============================================================================
