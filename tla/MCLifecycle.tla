------------------------------ MODULE MCLifecycle ------------------------------
EXTENDS Lifecycle

CONSTANTS a1, a2, h1, g1, g2
===============================================================================
