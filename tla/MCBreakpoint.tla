---------------------------- MODULE MCBreakpoint ----------------------------
EXTENDS Breakpoint

AnyEof == {"atEnd", "past"}
PastEof == {"past"}
=============================================================================
