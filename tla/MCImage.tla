------------------------------- MODULE MCImage -------------------------------
(* ImageService on small sets for TLC: streams of up to two lines, and one *)
(* with an image before and after the end mark.                            *)
EXTENDS ImageService

MCStreamLines ==
  SeqOf({"image", "other", "done"}, 2) \cup {<<"image", "done", "image">>}

=============================================================================
