----------------------------- MODULE MCKernels -----------------------------
(* A size_t of six bits, an int32_t of eight, a screen of 3 x 2 points, and *)
(* the canvases around the largest one that six bits can address.           *)
EXTENDS Kernels

MCCanvases == [width : 0 .. 3, height : 0 .. 5, stride : 0 .. 4] \cup {Screen}
MCCoordinates == {-128, -2, -1, 0, 1, 2, 3, 127}
MCExtents == {-128, -1, 0, 1, 2, 3, 127}
MCChannels == {0, 1, 2, 64, 127, 128, 200, 254, 255}
MCRaws == -128 .. 127
MCLimits == {<<0, 127>>, <<-64, 63>>, <<-128, -1>>, <<0, 1>>, <<0, 2>>, <<-1, 2>>, <<-100, 27>>,
             <<3, 3>>, <<5, 4>>}
MCPercents == {-1, 0, 1, 15, 33, 50, 51}
MCFlats == {0, 1, 7, 31, 127}
=============================================================================
