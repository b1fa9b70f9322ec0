---------------------------- MODULE MCPartFlash ----------------------------
EXTENDS PartFlash

Part(name, start, size) == [name |-> name, start |-> start, size |-> size]

MCTargets == {
    <<>>,
    <<Part("l4t", 1, 4)>>,
    <<Part("l4t", 1, 5), Part("boot", 6, 2), Part("recovery", 8, 2), Part("dtb", 10, 1)>> }

MCL4tImages == {<<>>, <<1>>, <<3>>, <<2, 2>>, <<2, 3>>, <<3, 2>>, <<4, 1>>, <<4, 2>>}

MCAndroidImages == [AndroidNames -> {0, 2, 3}]
=============================================================================
