----------------------- MODULE MCThumbnailPixmapCache -----------------------
(* ThumbnailPixmapCache for TLC: each image is a file of one page.         *)
EXTENDS ThumbnailPixmapCache

SinglePages == [x \in Images |-> x]
=============================================================================
