------------------------------ MODULE MCThrottle ------------------------------
EXTENDS Throttle, TLC

CONSTANTS h1, h2

Perms == Permutations(Pusher)
===============================================================================
