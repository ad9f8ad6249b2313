---- MODULE MCFileStorage ----
EXTENDS FileStorage

CONSTANTS o1, o2, v1, v2

====
