--------------------------- MODULE MCUploadPipeline ----------------------------
(* Instances of UploadPipeline for TLC.                                    *)
EXTENDS UploadPipeline

Part(name, chunks, kind) == [name |-> name, chunks |-> chunks, kind |-> kind]

(* Up to three parts with names of their own, of every kind; two and three *)
(* chunks for two files are too many, each alone is not; four always are.  *)
MixedForms ==
  { <<>>, <<Part("a", 1, "foreign")>>,
    <<Part("a", 2, "good"), Part("b", 1, "good")>>,
    <<Part("a", 2, "good"), Part("b", 3, "good")>>,
    <<Part("a", 1, "good"), Part("b", 4, "good")>>,
    <<Part("a", 1, "good"), Part("b", 1, "blocked")>>,
    <<Part("a", 1, "foreign"), Part("b", 2, "dangerous")>>,
    <<Part("a", 0, "dangerous"), Part("b", 2, "good")>>,
    <<Part("a", 1, "good"), Part("b", 0, "good"), Part("c", 1, "good")>> }

(* Two photos with one name, as phones send them.                          *)
SameNameForms == { <<Part("a", 1, "good"), Part("a", 1, "good")>> }
================================================================================
