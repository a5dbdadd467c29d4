------------------------------- MODULE Pictures -------------------------------
(***************************************************************************)
(* What is shown and where: images, what is drawn in a window, and the     *)
(* windows.                                                                *)
(***************************************************************************)
EXTENDS Drawing, Coordinates, Images

VARIABLE part           \* the part of the library that is used

(* What is drawn is where it should be, what is exposed is drawn once, and *)
(* what is asked of the places of windows agrees.                          *)
DrawnAsTold ==
  /\ ImagesAreShown
  /\ part = "images" => /\ CoordinatesAreSummed /\ ExposuresCover /\ ExposedOnce
                       /\ TextsFollow /\ WindowsAgree

(* Relative lines join each point to the next, as a program that draws ten *)
(* points with one call takes them to (test/kt-draw.c:80-92).              *)
LinesAreSummed == part = "images" => LinesJoin

(* The pixels of images, the files of bitmaps and the colors of pixels are *)
(* read as they were written.                                              *)
ImagesAreKept == part = "images" => /\ PixelsAreKept /\ BitmapsAreKept /\ ColorsAreKept
                                   /\ FormatsAreTold /\ CursorsAreMasked
=============================================================================
