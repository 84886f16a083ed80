------------------------------ MODULE MCCdnSync ------------------------------
EXTENDS CdnSync, TLC
CONSTANTS r1, r2, g1, v1, v2, i1, i2, i3, i4, i5
TwoRows == {r1, r2}
OneRule == {g1}
NoRule == {}
TwoContents == {v1, v2}
FourIds == {i1, i2, i3, i4}
ThreeIds == {i1, i2, i3}
=============================================================================
