----------------------------- MODULE MCGeometry -----------------------------
(* Constants of Geometry for TLC: two sizes of the layout, of which an      *)
(* ordinary client can have one, and one only it can have.                  *)
EXTENDS Geometry

LayoutSizes == {1, 2}
OrdinarySizes == {2, 3}
=============================================================================
