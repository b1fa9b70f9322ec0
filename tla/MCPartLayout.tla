--------------------------- MODULE MCPartLayout ---------------------------
EXTENDS PartLayout

MCDevices ==
    [emmc : {FALSE}, size : {15199, 59655, 121984}, aula : BOOLEAN]
    \cup [emmc : {TRUE}, size : {29820, 59640}, aula : {FALSE}]
=============================================================================
