SPECIFICATION Spec
CONSTANTS
    Games = {g1, g2}
    NoGame = NoGame

PROPERTY NothingQueued
