------------------------------ MODULE MCAppShell ------------------------------
\* Two records fill two pages, and a save may go to a third.
EXTENDS AppShell
===============================================================================
